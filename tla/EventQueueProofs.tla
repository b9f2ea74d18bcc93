-------------------------- MODULE EventQueueProofs --------------------------
(***************************************************************************)
(* Proofs about EventQueue, for any messages, retry and reconnection       *)
(* limits, prefetch count, and bounds.                                     *)
(***************************************************************************)
EXTENDS EventQueue, TLAPS

(***************************************************************************)
(* The inductive invariant.  NothingLost is inductive with the types, and  *)
(* DeadLettersWereTried with the tries each copy stands for.               *)
(* AttemptsBounded is not: the number of deliveries has to be read off the *)
(* one copy a message has while nothing was disturbed, which needs that a  *)
(* copy the consumer works on is unacknowledged, so that no acknowledgement *)
(* is left over from before.                                               *)
(***************************************************************************)

\* What the types need: a copy is requeued below the limit only.
RequeuedBelowLimit ==
  \A c \in Copies :
    /\ stage[c] = "requeueing" => retries[c] < MaxRetries
    /\ stage[c] # "idle" => place[c] # "unused"

\* The tries a copy stands for: its retries, and the one under way.
Tries(c) == retries[c] + (IF stage[c] = "idle" THEN 0 ELSE 1)

\* Disturbed or not, a copy stands for no more tries than its message had.
TriesMade ==
  \A c \in Copies :
    /\ attempts[message[c]] >= Tries(c)
    /\ place[c] = "unused" => retries[c] = 0 /\ stage[c] = "idle"

Undisturbed == losses + crashes = 0

LinksSound == \A k \in Connections : link[k] \notin {"halfOpen", "closed"}

OneCopyPerMessage ==
  /\ \A c \in Copies : place[c] # "unused" => message[c] \in published
  /\ \A c, d \in Copies :
       place[c] # "unused" /\ place[d] # "unused" /\ message[c] = message[d] => c = d

ConsumerHoldsUnacked ==
  /\ \A c \in Copies : stage[c] # "idle" <=> place[c] = "unacked"
  /\ consumerOn = None => \A c \in Copies : place[c] # "unacked"
  /\ process # "running" => consumerOn = None

Started(c) == IF place[c] \in {"unacked", "acked", "rejected"} THEN 1 ELSE 0
Done(c)    == IF place[c] = "acked" THEN 1 ELSE 0

AttemptsCounted ==
  /\ \A c \in Copies :
       IF place[c] = "unused"
         THEN retries[c] = 0
         ELSE /\ attempts[message[c]] = retries[c] + Started(c)
              /\ handled[message[c]] = Done(c)
  /\ \A m \in Messages : CopiesOf(m) = {} => attempts[m] = 0 /\ handled[m] = 0

Orderly == LinksSound /\ OneCopyPerMessage /\ ConsumerHoldsUnacked /\ AttemptsCounted

IInv ==
  /\ TypeOK /\ RequeuedBelowLimit
  /\ NothingLost
  /\ TriesMade /\ DeadLettersWereTried
  /\ Undisturbed => Orderly

-----------------------------------------------------------------------------
(* Types.                                                                  *)

\* A member chosen from a set that is not empty is one.
LEMMA AnyOfIn ==
  ASSUME NEW S, S # {}
  PROVE  AnyOf(S) \in S
BY DEF AnyOf

MemoryTypes ==
  /\ process \in {"starting", "running", "dead"}
  /\ link \in [Connections -> {"free", "connecting", "linked", "halfOpen", "closed"}]
  /\ step \in [Connections -> {"idle", "connect", "createChannel", "prefetch"}]
  /\ listeners \in [Connections -> Nat]
  /\ {connection, channel, consumerOn} \subseteq Connections \cup {None}
  /\ reconnectAttempts \in 0 .. MaxReconnectAttempts
  /\ timers \in Nat
  /\ place \in [Copies -> Places]
  /\ stage \in [Copies -> Stages]

\* What the end of the process leaves behind keeps the types.
LEMMA DieTypes ==
  ASSUME TypeOK, Die
  PROVE  MemoryTypes'
BY QueueAssumption DEF TypeOK, Die, MemoryTypes, PutBack, Places, Stages, None

\* So does an answer to the broker, whether it arrives or not.
LEMMA AnswerTypes ==
  ASSUME TypeOK, NEW c \in Copies, NEW where \in {"acked", "rejected"},
         Answer(c, where)
  PROVE  MemoryTypes'
<1>1. CASE link[consumerOn] = "linked"
  BY <1>1 DEF Answer, TypeOK, MemoryTypes, Places, Stages, connections,
              reconnects
<1>2. CASE link[consumerOn] = "halfOpen"
  BY <1>2 DEF Answer, TypeOK, MemoryTypes, Places, Stages, connections,
              reconnects
<1>3. CASE link[consumerOn] = "closed"
  BY <1>3, DieTypes DEF Answer
<1> QED
  BY <1>1, <1>2, <1>3 DEF Answer

\* Putting unacknowledged messages back keeps the types.
LEMMA PutBackTypes ==
  ASSUME TypeOK
  PROVE  PutBack \in [Copies -> Places]
BY DEF TypeOK, PutBack, Places

\* The initial values have their types.
LEMMA InitTypes == Init => TypeOK
BY QueueAssumption DEF Init, TypeOK, StartLink, StartStep, Places, Stages, None

\* Every step keeps the types.
LEMMA NextTypes ==
  ASSUME TypeOK, RequeuedBelowLimit, [Next]_vars
  PROVE  TypeOK'
<1> USE QueueAssumption
<1>1. CASE Crash
  BY <1>1, DieTypes DEF Crash, TypeOK, MemoryTypes, connections, reconnects,
                        copies, history, bounds
<1>2. CASE Restart
  BY <1>2 DEF Restart, StartLink, StartStep, TypeOK, connections, reconnects,
              copies, history, bounds
<1>3. CASE StartConsumers
  BY <1>3, DieTypes DEF StartConsumers, LinkOf, TypeOK, MemoryTypes,
                        connections, reconnects, copies, history, bounds
<1>4. CASE BrokerStops
  <2>1. place' \in [Copies -> Places]
    BY <1>4, PutBackTypes DEF BrokerStops, TypeOK, Places
  <2>2. link' \in [Connections -> {"free", "connecting", "linked", "halfOpen", "closed"}]
    BY <1>4 DEF BrokerStops, TypeOK
  <2>3. broker' \in BOOLEAN
    BY <1>4, Zenon DEF BrokerStops
  <2>5. losses' \in 0 .. MaxLosses
    <3>1. losses < MaxLosses /\ losses' = losses + 1
      BY <1>4, Zenon DEF BrokerStops
    <3> QED
      BY <3>1 DEF TypeOK
  <2>4. /\ process' \in {"starting", "running", "dead"}
        /\ step' \in [Connections -> {"idle", "connect", "createChannel", "prefetch"}]
        /\ {connection', channel', consumerOn'} \subseteq Connections \cup {None}
    BY <1>4 DEF BrokerStops, TypeOK
  <2> QED
    BY <1>4, <2>1, <2>2, <2>3, <2>4, <2>5
       DEF BrokerStops, TypeOK, connections, reconnects, copies, history,
           bounds
<1>5. CASE BrokerStarts
  BY <1>5 DEF BrokerStarts, TypeOK, connections, reconnects, copies, history,
              bounds
<1>6. CASE ReconnectTimerFires
  <2>1. AnyOf(Free) \in Connections
    BY <1>6, AnyOfIn DEF ReconnectTimerFires, Free
  <2> QED
    BY <1>6, <2>1 DEF ReconnectTimerFires, TypeOK, connections, reconnects,
                      copies, history, bounds
<1>7. CASE \E k \in Connections : ConnectAnswered(k)
  BY <1>7 DEF ConnectAnswered, TypeOK, connections, reconnects, copies,
              history, bounds
<1>8. CASE \E k \in Connections : ConnectRefused(k)
  BY <1>8 DEF ConnectRefused, TypeOK, connections, reconnects, copies, history,
              bounds
<1>9. CASE \E k \in Connections : ChannelCreated(k)
  BY <1>9 DEF ChannelCreated, TypeOK, connections, reconnects, copies, history,
              bounds
<1>10. CASE \E k \in Connections : Prefetched(k)
  <2>1. listeners' \in [Connections -> Nat]
    <3>1. listeners' = [listeners EXCEPT ![connection] = @ + 1]
      BY <1>10 DEF Prefetched
    <3>2. ASSUME NEW k \in Connections
          PROVE  listeners'[k] \in Nat
      BY <3>1 DEF TypeOK
    <3> QED
      BY <3>1, <3>2 DEF TypeOK
  <2> QED
    BY <1>10, <2>1 DEF Prefetched, TypeOK, connections, reconnects, copies,
                       history, bounds
<1>11. CASE \E k \in Connections : ClientNotices(k)
  BY <1>11, DieTypes DEF ClientNotices, HandleConnectionErrors, TypeOK,
                         MemoryTypes, connections, reconnects, copies, history,
                         bounds
<1>12. CASE \E k \in Connections : ConnectionLost(k)
  BY <1>12, PutBackTypes DEF ConnectionLost, None, TypeOK, connections,
                             reconnects, copies, history, bounds
<1>13. CASE \E m \in Messages : Publish(m)
  BY <1>13, AnyOfIn DEF Publish, Unused, Places, TypeOK, connections,
                        reconnects, copies, history, bounds
<1>14. CASE \E c \in Copies : MessageExpires(c)
  BY <1>14 DEF MessageExpires, Places, TypeOK, connections, reconnects, copies,
               history, bounds
<1>15. CASE \E c \in Copies : RetryDelayOver(c)
  BY <1>15 DEF RetryDelayOver, Places, TypeOK, connections, reconnects, copies,
               history, bounds
<1>16. CASE \E c \in Copies : Deliver(c)
  BY <1>16 DEF Deliver, Places, Stages, TypeOK, connections, reconnects,
               copies, history, bounds
<1>17. CASE \E c \in Copies : HandlerReturns(c)
  <2>1. PICK c \in Copies : HandlerReturns(c)
    BY <1>17
  <2> QED
    BY <2>1, AnswerTypes DEF HandlerReturns, TypeOK, MemoryTypes, connections,
                             reconnects, copies, history, bounds
<1>18. CASE \E c \in Copies : HandlerThrows(c)
  <2>1. PICK c \in Copies : HandlerThrows(c)
    BY <1>18
  <2>2. CASE retries[c] < MaxRetries /\ link[consumerOn] # "closed"
    BY <2>1, <2>2 DEF HandlerThrows, TypeOK, Stages, connections, reconnects,
                      copies, history, bounds
  <2>3. CASE ~(retries[c] < MaxRetries /\ link[consumerOn] # "closed")
    BY <2>1, <2>3, AnswerTypes DEF HandlerThrows, TypeOK, MemoryTypes,
                                   connections, reconnects, copies, history,
                                   bounds
  <2> QED
    BY <2>2, <2>3
<1>19. CASE \E c \in Copies : RequeueWithRetry(c)
  BY <1>19 DEF RequeueWithRetry, RequeuedBelowLimit, Places, Stages, TypeOK,
               connections, reconnects, copies, history, bounds
<1>20. CASE \E c \in Copies : RequeueCut(c)
  <2>1. PICK c \in Copies : RequeueCut(c)
    BY <1>20
  <2>2. AnyOf(Unused) \in Copies
    BY <2>1, AnyOfIn DEF RequeueCut, Unused
  <2>3. place' \in [Copies -> Places]
    BY <2>1, <2>2, PutBackTypes DEF RequeueCut, Places
  <2>4. retries' \in [Copies -> 0 .. MaxRetries]
    BY <2>1, <2>2 DEF RequeueCut, RequeuedBelowLimit, TypeOK
  <2>5. message' \in [Copies -> Messages]
    BY <2>1, <2>2 DEF RequeueCut, TypeOK
  <2>6. link' \in [Connections -> {"free", "connecting", "linked", "halfOpen", "closed"}]
    BY <2>1 DEF RequeueCut, TypeOK
  <2>7. stage' \in [Copies -> Stages]
    BY <2>1 DEF RequeueCut, TypeOK, Stages
  <2> QED
    BY <2>1, <2>3, <2>4, <2>5, <2>6, <2>7
       DEF RequeueCut, TypeOK, None, connections, reconnects, copies, history,
           bounds
<1>21. CASE \E c \in Copies : RequeueFails(c)
  BY <1>21, DieTypes DEF RequeueFails, TypeOK, MemoryTypes, connections,
                         reconnects, copies, history, bounds
<1>22. CASE UNCHANGED vars
  BY <1>22 DEF vars, TypeOK, connections, reconnects, copies, history, bounds
<1> QED
  BY <1>1, <1>2, <1>3, <1>4, <1>5, <1>6, <1>7, <1>8, <1>9, <1>10, <1>11,
     <1>12, <1>13, <1>14, <1>15, <1>16, <1>17, <1>18, <1>19, <1>20, <1>21, <1>22
     DEF Next
-----------------------------------------------------------------------------
(* The steps that leave the copies alone.                                  *)

Idle ==
  \/ Restart \/ BrokerStarts \/ ReconnectTimerFires
  \/ \E k \in Connections :
       ConnectAnswered(k) \/ ConnectRefused(k) \/ ChannelCreated(k) \/ Prefetched(k)
  \/ UNCHANGED vars

\* Connecting, and the return of broker or process, changes no copy.
LEMMA IdleSteps ==
  ASSUME Idle
  PROVE  UNCHANGED <<message, retries, place, stage, attempts, handled,
                     published, losses, crashes, consumerOn>>
BY DEF Idle, vars, connections, reconnects, copies, history, bounds, Restart,
       BrokerStarts, ReconnectTimerFires, ConnectAnswered, ConnectRefused,
       ChannelCreated, Prefetched

-----------------------------------------------------------------------------
(* A copy is requeued below the limit, so its count stays within it.       *)

\* Every step keeps what is being requeued below the limit.
LEMMA NextBelowLimit ==
  ASSUME TypeOK, RequeuedBelowLimit, [Next]_vars
  PROVE  RequeuedBelowLimit'
<1>1. CASE Idle
  BY <1>1, IdleSteps DEF RequeuedBelowLimit
<1>2. ASSUME Die, UNCHANGED retries
      PROVE  RequeuedBelowLimit'
  BY <1>2 DEF Die, RequeuedBelowLimit
<1>3. ASSUME NEW c \in Copies, NEW where \in {"acked", "rejected"},
             Answer(c, where), UNCHANGED retries
      PROVE  RequeuedBelowLimit'
  BY <1>2, <1>3 DEF Answer, RequeuedBelowLimit, TypeOK
<1>4. CASE Crash
  BY <1>4, <1>2 DEF Crash
<1>5. CASE StartConsumers
  BY <1>5, <1>2 DEF StartConsumers, RequeuedBelowLimit
<1>6. CASE BrokerStops
  BY <1>6 DEF BrokerStops, PutBack, RequeuedBelowLimit
<1>7. CASE \E k \in Connections : ClientNotices(k)
  BY <1>7, <1>2 DEF ClientNotices, RequeuedBelowLimit
<1>8. CASE \E k \in Connections : ConnectionLost(k)
  BY <1>8 DEF ConnectionLost, PutBack, RequeuedBelowLimit
<1>9. CASE \E m \in Messages : Publish(m)
  <2>1. PICK m \in Messages : Publish(m)
    BY <1>9
  <2> QED
    BY <2>1, AnyOfIn DEF Publish, Unused, RequeuedBelowLimit, TypeOK
<1>10. CASE \E c \in Copies : MessageExpires(c) \/ RetryDelayOver(c) \/ Deliver(c)
  BY <1>10 DEF MessageExpires, RetryDelayOver, Deliver, RequeuedBelowLimit,
               TypeOK
<1>11. CASE \E c \in Copies : HandlerReturns(c) \/ RequeueFails(c)
  BY <1>11, <1>2, <1>3 DEF HandlerReturns, RequeueFails
<1>12. CASE \E c \in Copies : HandlerThrows(c)
  <2>1. PICK c \in Copies : HandlerThrows(c)
    BY <1>12
  <2> QED
    BY <2>1, <1>3 DEF HandlerThrows, RequeuedBelowLimit, TypeOK
<1>13. CASE \E c \in Copies : RequeueWithRetry(c)
  BY <1>13 DEF RequeueWithRetry, RequeuedBelowLimit, TypeOK
<1>14. CASE \E c \in Copies : RequeueCut(c)
  <2>1. PICK c \in Copies : RequeueCut(c)
    BY <1>14
  <2>2. AnyOf(Unused) \in Unused
    BY <2>1, AnyOfIn DEF RequeueCut
  <2>3. stage[AnyOf(Unused)] = "idle"
    BY <2>2 DEF Unused, RequeuedBelowLimit
  <2> QED
    BY <2>1, <2>2, <2>3 DEF RequeueCut, Unused, PutBack, RequeuedBelowLimit,
                            TypeOK
<1> QED
  BY <1>1, <1>4, <1>5, <1>6, <1>7, <1>8, <1>9, <1>10, <1>11, <1>12, <1>13,
     <1>14
     DEF Next, Idle

-----------------------------------------------------------------------------
(* The dead-letter queue.                                                  *)

\* The step keeps what is claimed of a copy.
TriedFor(c) ==
  /\ attempts[message[c]] >= Tries(c)
  /\ place[c] = "unused" => retries[c] = 0 /\ stage[c] = "idle"
  /\ place[c] = "rejected" => attempts[message[c]] > MaxRetries

\* A copy is rejected only when it is being tried and its retries are used up,
\* and a duplicate takes over the tries of the original.
LEMMA NextTried ==
  ASSUME TypeOK, RequeuedBelowLimit, TriesMade, DeadLettersWereTried, [Next]_vars
  PROVE  TriesMade' /\ DeadLettersWereTried'
<1> SUFFICES ASSUME NEW c \in Copies
             PROVE  TriedFor(c)'
  BY DEF TriedFor, TriesMade, DeadLettersWereTried, Copies, Tries
<1>0. /\ \A d \in Copies : TriedFor(d)
      /\ \A d \in Copies : retries[d] \in Nat
      /\ \A m \in Messages : attempts[m] \in Nat
      /\ \A d \in Copies : message[d] \in Messages
      /\ MaxRetries \in Nat
  BY QueueAssumption DEF TriedFor, TriesMade, DeadLettersWereTried, TypeOK
\* A step that moves no copy to the dead-letter queue and begins no try.
<1>a. ASSUME UNCHANGED <<message, retries, attempts>>,
             stage'[c] \in {"idle", stage[c]},
             place'[c] = "unused" => place[c] = "unused",
             place'[c] = "rejected" => place[c] = "rejected"
      PROVE  TriedFor(c)'
  BY <1>0, <1>a DEF TriedFor, Tries
<1>b. ASSUME Die, UNCHANGED <<message, retries, attempts>>
      PROVE  TriedFor(c)'
  BY <1>a, <1>b DEF Die, PutBack
<1>c. ASSUME NEW d \in Copies, stage[d] # "idle", NEW where \in {"acked", "rejected"},
             where = "rejected" => retries[d] >= MaxRetries \/ link[consumerOn] = "closed",
             Answer(d, where), UNCHANGED <<message, retries, attempts>>
      PROVE  TriedFor(c)'
  <2>1. CASE link[consumerOn] = "linked" /\ c = d
    <3>1. place'[c] = where /\ stage'[c] = "idle"
      BY <1>c, <2>1 DEF Answer, TypeOK
    <3>2. attempts[message[c]] >= retries[c] + 1
      BY <1>0, <1>c, <2>1 DEF TriedFor, Tries
    <3> QED
      BY <1>0, <1>c, <2>1, <3>1, <3>2 DEF TriedFor, Tries
  <2>2. CASE link[consumerOn] = "linked" /\ c # d
    BY <1>a, <1>c, <2>2 DEF Answer, TypeOK
  <2>3. CASE link[consumerOn] = "halfOpen"
    BY <1>a, <1>c, <2>3 DEF Answer, TypeOK
  <2>4. CASE link[consumerOn] = "closed"
    BY <1>b, <1>c, <2>4 DEF Answer
  <2> QED
    BY <1>c, <2>1, <2>2, <2>3, <2>4 DEF Answer
<1>1. CASE Idle
  BY <1>1, <1>a, IdleSteps
<1>2. CASE Crash
  BY <1>2, <1>b DEF Crash, history
<1>3. CASE StartConsumers
  BY <1>3, <1>a, <1>b DEF StartConsumers, history
<1>4. CASE BrokerStops
  BY <1>4, <1>a DEF BrokerStops, PutBack, history
<1>5. CASE \E k \in Connections : ClientNotices(k)
  BY <1>5, <1>a, <1>b DEF ClientNotices, history
<1>6. CASE \E k \in Connections : ConnectionLost(k)
  BY <1>6, <1>a DEF ConnectionLost, PutBack, history
<1>7. CASE \E m \in Messages : Publish(m)
  <2>1. PICK m \in Messages : Publish(m)
    BY <1>7
  <2>2. CASE LinkOf(channel) = "linked" /\ c = AnyOf(Unused)
    <3>1. place[c] = "unused"
      BY <2>1, <2>2, AnyOfIn DEF Publish, Unused
    <3>2. retries'[c] = 0 /\ stage'[c] = "idle"
      BY <1>0, <2>1, <3>1 DEF Publish, TriedFor
    <3>3. place'[c] = "ready" /\ message'[c] = m /\ attempts' = attempts
      BY <2>1, <2>2 DEF Publish, TypeOK, history
    <3> QED
      BY <1>0, <3>2, <3>3 DEF TriedFor, Tries
  <2>3. CASE LinkOf(channel) = "linked" /\ c # AnyOf(Unused)
    <3>1. /\ message'[c] = message[c] /\ place'[c] = place[c]
          /\ UNCHANGED <<retries, stage, attempts>>
      BY <2>1, <2>3 DEF Publish, TypeOK, history
    <3> QED
      BY <1>0, <3>1 DEF TriedFor, Tries
  <2>4. CASE LinkOf(channel) # "linked"
    BY <1>a, <2>1, <2>4 DEF Publish, history
  <2> QED
    BY <2>2, <2>3, <2>4
<1>8. CASE \E d \in Copies : MessageExpires(d) \/ RetryDelayOver(d)
  BY <1>8, <1>a DEF MessageExpires, RetryDelayOver, history, TypeOK
<1>9. CASE \E d \in Copies : Deliver(d)
  <2>1. PICK d \in Copies : Deliver(d)
    BY <1>9
  <2>2. /\ attempts'[message[c]] >= attempts[message[c]]
        /\ c = d => attempts'[message[c]] = attempts[message[c]] + 1
        /\ attempts'[message[c]] \in Nat
    BY <1>0, <2>1 DEF Deliver, TypeOK
  <2>3. CASE c = d
    <3>1. place'[c] = "unacked" /\ stage'[c] = "handling" /\ UNCHANGED <<message, retries>>
      BY <2>1, <2>3 DEF Deliver, TypeOK
    <3>2. attempts[message[c]] >= retries[c]
      BY <1>0 DEF TriedFor, Tries
    <3> QED
      BY <1>0, <2>2, <2>3, <3>1, <3>2 DEF TriedFor, Tries
  <2>4. CASE c # d
    <3>1. place'[c] = place[c] /\ stage'[c] = stage[c] /\ UNCHANGED <<message, retries>>
      BY <2>1, <2>4 DEF Deliver, TypeOK
    <3> QED
      BY <1>0, <2>2, <3>1 DEF TriedFor, Tries
  <2> QED
    BY <2>3, <2>4
<1>10. CASE \E d \in Copies : HandlerReturns(d)
  <2>1. PICK d \in Copies : HandlerReturns(d)
    BY <1>10
  <2> QED
    BY <1>c, <2>1 DEF HandlerReturns
<1>11. CASE \E d \in Copies : HandlerThrows(d)
  <2>1. PICK d \in Copies : HandlerThrows(d)
    BY <1>11
  <2>2. CASE retries[d] < MaxRetries /\ link[consumerOn] # "closed"
    <3>1. /\ stage[d] = "handling" /\ stage' = [stage EXCEPT ![d] = "requeueing"]
          /\ UNCHANGED <<message, retries, place, attempts>>
      BY <2>1, <2>2 DEF HandlerThrows, history
    <3>2. Tries(c)' = Tries(c) /\ (stage'[c] = "idle" <=> stage[c] = "idle")
      BY <3>1 DEF Tries, TypeOK
    <3> QED
      BY <1>0, <3>1, <3>2 DEF TriedFor
  <2>3. CASE ~(retries[d] < MaxRetries /\ link[consumerOn] # "closed")
    <3>1. /\ stage[d] = "handling" /\ Answer(d, "rejected")
          /\ UNCHANGED <<message, retries, attempts>>
      BY <2>1, <2>3 DEF HandlerThrows, history
    <3>2. retries[d] >= MaxRetries \/ link[consumerOn] = "closed"
      BY <1>0, <2>3
    <3> QED
      BY <1>c, <3>1, <3>2
  <2> QED
    BY <2>2, <2>3
<1>12. CASE \E d \in Copies : RequeueWithRetry(d)
  <2>1. PICK d \in Copies : RequeueWithRetry(d)
    BY <1>12
  <2>2. CASE c = d
    <3>1. /\ place'[c] = "waiting" /\ stage'[c] = "idle" /\ retries'[c] = retries[c] + 1
          /\ stage[c] # "idle" /\ UNCHANGED <<message, attempts>>
      BY <2>1, <2>2 DEF RequeueWithRetry, history, TypeOK
    <3> QED
      BY <1>0, <3>1 DEF TriedFor, Tries
  <2>3. CASE c # d
    <3>1. /\ place'[c] = place[c] /\ stage'[c] = stage[c] /\ retries'[c] = retries[c]
          /\ UNCHANGED <<message, attempts>>
      BY <2>1, <2>3 DEF RequeueWithRetry, history, TypeOK
    <3> QED
      BY <1>0, <3>1 DEF TriedFor, Tries
  <2> QED
    BY <2>2, <2>3
<1>13. CASE \E d \in Copies : RequeueCut(d)
  <2>1. PICK d \in Copies : RequeueCut(d)
    BY <1>13
  <2> DEFINE e == AnyOf(Unused)
  <2>2. e \in Copies /\ place[e] = "unused" /\ stage[e] = "idle"
    BY <2>1, <1>0, AnyOfIn DEF RequeueCut, Unused, TriedFor
  <2>3. /\ stage[d] = "requeueing" /\ stage' = [stage EXCEPT ![d] = "idle"]
        /\ message' = [message EXCEPT ![e] = message[d]]
        /\ retries' = [retries EXCEPT ![e] = retries[d] + 1]
        /\ place' = [PutBack EXCEPT ![e] = "waiting"]
        /\ attempts' = attempts
    BY <2>1 DEF RequeueCut, history
  <2>4. e # d
    BY <2>2, <2>3
  <2>5. CASE c = e
    <3>1. /\ place'[c] = "waiting" /\ stage'[c] = "idle"
          /\ message'[c] = message[d] /\ retries'[c] = retries[d] + 1
      BY <2>2, <2>3, <2>4, <2>5 DEF PutBack, TypeOK
    <3>2. attempts[message[d]] >= retries[d] + 1
      BY <1>0, <2>3 DEF TriedFor, Tries
    <3> QED
      BY <1>0, <2>3, <3>1, <3>2 DEF TriedFor, Tries
  <2>6. CASE c # e
    <3>1. /\ stage'[c] \in {"idle", stage[c]} /\ message'[c] = message[c]
          /\ retries'[c] = retries[c]
          /\ place'[c] = IF place[c] = "unacked" THEN "ready" ELSE place[c]
      BY <2>2, <2>3, <2>4, <2>6 DEF PutBack, TypeOK
    <3> QED
      BY <1>0, <2>3, <3>1 DEF TriedFor, Tries
  <2> QED
    BY <2>5, <2>6
<1>14. CASE \E d \in Copies : RequeueFails(d)
  BY <1>14, <1>b DEF RequeueFails, history
<1> QED
  BY <1>1, <1>2, <1>3, <1>4, <1>5, <1>6, <1>7, <1>8, <1>9, <1>10, <1>11, <1>12,
     <1>13, <1>14 DEF Next, Idle

-----------------------------------------------------------------------------
(* Nothing the broker took is lost.                                        *)

\* What becomes of the copies of one message.
KeptFor(m) ==
  \/ CopiesOf(m) = {}
  \/ handled[m] > 0
  \/ \E c \in CopiesOf(m) : place[c] # "acked"

\* No step acknowledges the last copy of a message that was not handled.
LEMMA NextKeeps ==
  ASSUME TypeOK, RequeuedBelowLimit, NothingLost, [Next]_vars
  PROVE  NothingLost'
<1> SUFFICES ASSUME NEW m \in Messages
             PROVE  KeptFor(m)'
  BY DEF NothingLost, KeptFor
<1>0. KeptFor(m)
  BY DEF NothingLost, KeptFor
\* A step that acknowledges nothing and adds no copy.
<1>a. ASSUME UNCHANGED <<message, handled>>,
             \A c \in Copies : /\ place'[c] = "unused" <=> place[c] = "unused"
                               /\ place'[c] = "acked" <=> place[c] = "acked"
      PROVE  KeptFor(m)'
  <2>3. \A c \in Copies : c \in CopiesOf(m)' <=> c \in CopiesOf(m)
    BY <1>a DEF CopiesOf, Copies
  <2>1. CopiesOf(m)' = CopiesOf(m)
    BY <2>3 DEF CopiesOf
  <2>2. \A c \in CopiesOf(m) : place[c] # "acked" => place'[c] # "acked"
    BY <1>a DEF CopiesOf, Copies
  <2> QED
    BY <1>0, <1>a, <2>1, <2>2 DEF KeptFor
<1>1. CASE Idle
  BY <1>1, <1>a, IdleSteps
<1>2. ASSUME Die, UNCHANGED <<message, handled>>
      PROVE  KeptFor(m)'
  BY <1>2, <1>a DEF Die, PutBack
<1>4. CASE Crash
  BY <1>4, <1>2 DEF Crash, history
<1>5. CASE StartConsumers
  BY <1>5, <1>2, <1>a DEF StartConsumers, history
<1>6. CASE BrokerStops
  BY <1>6, <1>a DEF BrokerStops, PutBack, history
<1>7. CASE \E k \in Connections : ClientNotices(k)
  BY <1>7, <1>2, <1>a DEF ClientNotices, history
<1>8. CASE \E k \in Connections : ConnectionLost(k)
  BY <1>8, <1>a DEF ConnectionLost, PutBack, history
<1>9. CASE \E n \in Messages : Publish(n)
  <2>1. PICK n \in Messages : Publish(n)
    BY <1>9
  <2>2. CASE LinkOf(channel) = "linked"
    <3> DEFINE d == AnyOf(Unused)
    <3>1. d \in Copies /\ place[d] = "unused"
      BY <2>1, <2>2, AnyOfIn DEF Publish, Unused
    <3>2. /\ message' = [message EXCEPT ![d] = n]
          /\ place' = [place EXCEPT ![d] = "ready"]
          /\ handled' = handled
      BY <2>1, <2>2 DEF Publish, history
    <3> QED
      BY <1>0, <3>1, <3>2 DEF KeptFor, CopiesOf, TypeOK
  <2>3. CASE LinkOf(channel) # "linked"
    BY <2>1, <2>3, <1>a DEF Publish, history
  <2> QED
    BY <2>2, <2>3
<1>10. CASE \E c \in Copies : MessageExpires(c) \/ RetryDelayOver(c) \/ Deliver(c)
  BY <1>10, <1>a DEF MessageExpires, RetryDelayOver, Deliver, TypeOK, history
<1>11. CASE \E c \in Copies : HandlerReturns(c)
  <2>1. PICK c \in Copies : HandlerReturns(c)
    BY <1>11
  <2>2. CASE message[c] = m
    <3>1. handled'[m] = handled[m] + 1
      BY <2>1, <2>2 DEF HandlerReturns, TypeOK
    <3> QED
      BY <3>1 DEF KeptFor, TypeOK
  <2>3. CASE message[c] # m
    <3>1. handled'[m] = handled[m] /\ message' = message
      BY <2>1, <2>3 DEF HandlerReturns, TypeOK
    <3>2. \A d \in Copies \ {c} : /\ place'[d] = "unused" <=> place[d] = "unused"
                                  /\ place'[d] = "acked" <=> place[d] = "acked"
      BY <2>1 DEF HandlerReturns, Answer, Die, PutBack, TypeOK
    <3>3. CopiesOf(m)' = CopiesOf(m)
      BY <2>3, <3>1, <3>2 DEF CopiesOf, Copies
    <3>4. \A d \in CopiesOf(m) : place[d] # "acked" => place'[d] # "acked"
      BY <2>3, <3>2 DEF CopiesOf
    <3> QED
      BY <1>0, <3>1, <3>3, <3>4 DEF KeptFor
  <2> QED
    BY <2>2, <2>3
<1>12. CASE \E c \in Copies : HandlerThrows(c)
  <2>1. PICK c \in Copies : HandlerThrows(c)
    BY <1>12
  <2>2. UNCHANGED <<message, handled>>
    BY <2>1 DEF HandlerThrows, history
  <2>3. CASE Answer(c, "rejected")
    <3>1. CASE Die
      BY <2>2, <3>1, <1>2
    <3>2. CASE UNCHANGED place
      BY <2>2, <3>2, <1>a
    <3>3. CASE place' = [place EXCEPT ![c] = "rejected"]
      BY <1>0, <2>1, <2>2, <3>3 DEF KeptFor, CopiesOf, TypeOK, HandlerThrows,
                                    RequeuedBelowLimit
    <3> QED
      BY <2>3, <3>1, <3>2, <3>3 DEF Answer
  <2> QED
    BY <2>1, <2>2, <2>3, <1>a DEF HandlerThrows
<1>13. CASE \E c \in Copies : RequeueWithRetry(c)
  <2>1. PICK c \in Copies : RequeueWithRetry(c)
    BY <1>13
  <2> QED
    BY <1>0, <2>1 DEF RequeueWithRetry, KeptFor, CopiesOf, TypeOK, history,
                      RequeuedBelowLimit
<1>14. CASE \E c \in Copies : RequeueCut(c)
  <2>1. PICK c \in Copies : RequeueCut(c)
    BY <1>14
  <2> DEFINE d == AnyOf(Unused)
  <2>2. d \in Copies /\ place[d] = "unused"
    BY <2>1, AnyOfIn DEF RequeueCut, Unused
  <2>3. /\ message' = [message EXCEPT ![d] = message[c]]
        /\ place' = [PutBack EXCEPT ![d] = "waiting"]
        /\ handled' = handled
    BY <2>1 DEF RequeueCut, history
  <2>4. \A e \in Copies \ {d} : /\ place'[e] = "unused" <=> place[e] = "unused"
                                /\ place'[e] = "acked" <=> place[e] = "acked"
                                /\ message'[e] = message[e]
    BY <2>3 DEF PutBack, TypeOK
  <2>5. place'[d] = "waiting"
    BY <2>2, <2>3 DEF PutBack
  <2>6. CASE message'[d] = m
    BY <2>2, <2>5, <2>6 DEF KeptFor, CopiesOf
  <2>7. CASE message'[d] # m
    <3>1. CopiesOf(m)' = CopiesOf(m)
      BY <2>2, <2>4, <2>7 DEF CopiesOf, Copies
    <3>2. \A e \in CopiesOf(m) : place[e] # "acked" => place'[e] # "acked"
      BY <2>2, <2>4 DEF CopiesOf
    <3> QED
      BY <1>0, <2>3, <3>1, <3>2 DEF KeptFor
  <2> QED
    BY <2>6, <2>7
<1>15. CASE \E c \in Copies : RequeueFails(c)
  BY <1>15, <1>2 DEF RequeueFails, history
<1> QED
  BY <1>1, <1>4, <1>5, <1>6, <1>7, <1>8, <1>9, <1>10, <1>11, <1>12, <1>13,
     <1>14, <1>15 DEF Next, Idle
-----------------------------------------------------------------------------
(* While nothing is disturbed, the deliveries can be read off the copies.  *)

\* What one copy says of the deliveries of its message.
CountedOn(c) ==
  IF place[c] = "unused"
    THEN retries[c] = 0
    ELSE /\ attempts[message[c]] = retries[c] + Started(c)
         /\ handled[message[c]] = Done(c)

\* Two counts whose sum is zero are zero.
LEMMA NoneOfNone ==
  \A a, b \in Nat : a + b = 0 => a = 0 /\ b = 0
OBVIOUS

\* The steps keep this order as long as nothing is disturbed.
LEMMA NextOrderly ==
  ASSUME TypeOK, RequeuedBelowLimit, Undisturbed => Orderly, [Next]_vars, Undisturbed'
  PROVE  Orderly'
<1>1. losses' = 0 /\ crashes' = 0 /\ losses = 0 /\ crashes = 0
  <2>1. losses' \in Nat /\ crashes' \in Nat /\ losses \in Nat /\ crashes \in Nat
    BY NextTypes, QueueAssumption DEF TypeOK
  <2>2. losses' = losses \/ losses' = losses + 1
    BY DEF Next, vars, bounds, Crash, Restart, StartConsumers, BrokerStops,
           BrokerStarts, ReconnectTimerFires, ConnectAnswered, ConnectRefused,
           ChannelCreated, Prefetched, ClientNotices, ConnectionLost, Publish,
           MessageExpires, RetryDelayOver, Deliver, HandlerReturns,
           HandlerThrows, RequeueWithRetry, RequeueCut, RequeueFails
  <2>3. crashes' = crashes \/ crashes' = crashes + 1
    BY DEF Next, vars, bounds, Crash, Restart, StartConsumers, BrokerStops,
           BrokerStarts, ReconnectTimerFires, ConnectAnswered, ConnectRefused,
           ChannelCreated, Prefetched, ClientNotices, ConnectionLost, Publish,
           MessageExpires, RetryDelayOver, Deliver, HandlerReturns,
           HandlerThrows, RequeueWithRetry, RequeueCut, RequeueFails
  <2>4. losses' + crashes' = 0
    BY DEF Undisturbed
  <2>5. losses' = 0 /\ crashes' = 0
    BY <2>1, <2>4, NoneOfNone
  <2> QED
    BY <2>1, <2>2, <2>3, <2>5
<1>2. Orderly
  BY <1>1 DEF Undisturbed
<1> USE <1>2 DEF Orderly
\* Steps that change only how the program is connected.
<1>3. CASE Idle
  <2>1. LinksSound'
    BY <1>3 DEF LinksSound, Idle, vars, connections, Restart, StartLink,
                BrokerStarts, ReconnectTimerFires, ConnectAnswered,
                ConnectRefused, ChannelCreated, Prefetched, TypeOK
  <2>2. UNCHANGED <<message, retries, place, stage, attempts, handled,
                    published, consumerOn>>
    BY <1>3, IdleSteps
  <2>3. process' # "running" => process # "running"
    BY <1>3 DEF Idle, vars, connections, Restart, BrokerStarts,
                ReconnectTimerFires, ConnectAnswered, ConnectRefused,
                ChannelCreated, Prefetched
  <2>4. OneCopyPerMessage' /\ ConsumerHoldsUnacked'
    BY <2>2, <2>3 DEF OneCopyPerMessage, ConsumerHoldsUnacked, Copies, None
  <2>5. AttemptsCounted'
    BY <2>2 DEF AttemptsCounted, Started, Done, CopiesOf, Copies
  <2> QED
    BY <2>1, <2>4, <2>5
<1>4. CASE StartConsumers
  <2>1. process = "starting" /\ consumerOn = None
    BY <1>4 DEF StartConsumers, ConsumerHoldsUnacked
  <2>2. UNCHANGED <<place, stage>> /\ UNCHANGED <<message, retries, attempts, handled, published>>
    <3>1. CASE Die
      <4>1. PutBack = place /\ stage = [c \in Copies |-> "idle"]
        BY <2>1 DEF ConsumerHoldsUnacked, PutBack, TypeOK
      <4> QED
        BY <1>4, <3>1, <4>1 DEF StartConsumers, Die, history
    <3>2. CASE ~Die
      BY <1>4, <3>2 DEF StartConsumers, history
    <3> QED
      BY <3>1, <3>2
  <2>3. LinksSound'
    BY <1>4 DEF StartConsumers, Die, LinksSound, Connections
  <2>4. ConsumerHoldsUnacked'
    BY <1>4, <2>1, <2>2 DEF StartConsumers, Die, ConsumerHoldsUnacked, LinkOf,
                            Copies, None
  <2>5. OneCopyPerMessage' /\ AttemptsCounted'
    BY <2>2 DEF OneCopyPerMessage, AttemptsCounted, Started, Done, CopiesOf,
                Copies
  <2> QED
    BY <2>3, <2>4, <2>5
\* Steps that disturb, or that nothing undisturbed allows.
<1>5. CASE Crash \/ BrokerStops \/ \E k \in Connections : ConnectionLost(k)
  BY <1>1, <1>5 DEF Crash, BrokerStops, ConnectionLost
<1>6. CASE \E k \in Connections : ClientNotices(k)
  BY <1>6 DEF ClientNotices, LinksSound
<1>7. CASE \E c \in Copies : RequeueCut(c)
  BY <1>1, <1>7 DEF RequeueCut
<1>8. ASSUME NEW c \in Copies, stage[c] # "idle"
      PROVE  /\ place[c] = "unacked"
             /\ consumerOn # None
             /\ link[consumerOn] \notin {"halfOpen", "closed"}
  BY <1>8 DEF ConsumerHoldsUnacked, LinksSound, TypeOK
<1>9. CASE \E c \in Copies : RequeueFails(c)
  BY <1>8, <1>9 DEF RequeueFails
\* The life of a copy.
<1>10. ASSUME UNCHANGED <<process, connections, published, message>>
       PROVE  /\ LinksSound'
              /\ (\A c \in Copies : place'[c] # "unused" <=> place[c] # "unused")
                   => OneCopyPerMessage'
  BY <1>10 DEF LinksSound, OneCopyPerMessage, connections, Copies, Connections
<1>11. ASSUME NEW c \in Copies, place[c] # "unused", place'[c] # "unused",
              UNCHANGED <<message, process, connections, published>>,
              \A d \in Copies \ {c} : /\ place'[d] = place[d]
                                      /\ stage'[d] = stage[d]
                                      /\ retries'[d] = retries[d],
              \A m \in Messages \ {message[c]} : /\ attempts'[m] = attempts[m]
                                                 /\ handled'[m] = handled[m],
              CountedOn(c)',
              stage'[c] # "idle" <=> place'[c] = "unacked",
              place'[c] = "unacked" => consumerOn # None
       PROVE  Orderly'
  <2>1. LinksSound' /\ OneCopyPerMessage'
    BY <1>10, <1>11
  <2>2. ConsumerHoldsUnacked'
    BY <1>11 DEF ConsumerHoldsUnacked, connections, Copies, None
  <2>3. ASSUME NEW d \in Copies
        PROVE  CountedOn(d)'
    <3>1. CASE d = c
      BY <1>11, <3>1
    <3>2. CASE d # c /\ place[d] # "unused"
      <4>1. message[d] # message[c] /\ message[d] \in Messages
        BY <1>11, <3>2 DEF OneCopyPerMessage, TypeOK
      <4> QED
        BY <1>11, <3>2, <4>1 DEF AttemptsCounted, CountedOn, Started, Done
    <3>3. CASE d # c /\ place[d] = "unused"
      BY <1>11, <3>3 DEF AttemptsCounted, CountedOn
    <3> QED
      BY <3>1, <3>2, <3>3
  <2>4. ASSUME NEW m \in Messages, CopiesOf(m)' = {}
        PROVE  attempts'[m] = 0 /\ handled'[m] = 0
    <3>1. m # message[c]
      BY <1>11, <2>4 DEF CopiesOf, Copies
    <3>2. CopiesOf(m) = {}
      BY <1>11, <2>4 DEF CopiesOf, Copies
    <3> QED
      BY <1>11, <3>1, <3>2 DEF AttemptsCounted
  <2>5. AttemptsCounted'
    BY <2>3, <2>4 DEF AttemptsCounted, CountedOn, Copies
  <2> QED
    BY <2>1, <2>2, <2>5
<1>12. CASE \E m \in Messages : Publish(m)
  <2>1. PICK m \in Messages : Publish(m)
    BY <1>12
  <2>2. CASE LinkOf(channel) = "linked"
    <3> DEFINE e == AnyOf(Unused)
    <3>1. e \in Copies /\ place[e] = "unused" /\ stage[e] = "idle"
      BY <2>1, <2>2, AnyOfIn DEF Publish, Unused, ConsumerHoldsUnacked
    <3>2. /\ message' = [message EXCEPT ![e] = m]
          /\ place' = [place EXCEPT ![e] = "ready"]
          /\ published' = published \cup {m} /\ m \notin published
          /\ UNCHANGED <<process, connections, retries, stage, attempts, handled>>
      BY <2>1, <2>2 DEF Publish, history
    <3>3. \A c \in Copies : place[c] # "unused" => message[c] # m
      BY <3>2 DEF OneCopyPerMessage
    <3>4. /\ place'[e] = "ready" /\ message'[e] = m
          /\ \A c \in Copies \ {e} : place'[c] = place[c] /\ message'[c] = message[c]
      BY <3>1, <3>2 DEF TypeOK
    <3>5. LinksSound'
      BY <3>2 DEF LinksSound, connections, Connections
    <3>6. OneCopyPerMessage'
      BY <3>1, <3>2, <3>3, <3>4 DEF OneCopyPerMessage, Copies
    <3>7. ConsumerHoldsUnacked'
      BY <3>1, <3>2, <3>4 DEF ConsumerHoldsUnacked, connections, Copies, None
    <3>8. CopiesOf(m) = {}
      BY <3>3 DEF CopiesOf
    <3>9. attempts[m] = 0 /\ handled[m] = 0 /\ retries[e] = 0
      BY <3>1, <3>8 DEF AttemptsCounted
    <3>10. ASSUME NEW c \in Copies
           PROVE  CountedOn(c)'
      BY <3>1, <3>2, <3>4, <3>9 DEF AttemptsCounted, CountedOn, Started, Done
    <3>11. ASSUME NEW n \in Messages, CopiesOf(n)' = {}
           PROVE  attempts'[n] = 0 /\ handled'[n] = 0
      <4>1. CopiesOf(n) = {}
        BY <3>1, <3>4, <3>11 DEF CopiesOf, Copies
      <4> QED
        BY <3>2, <4>1 DEF AttemptsCounted
    <3>12. AttemptsCounted'
      BY <3>10, <3>11 DEF AttemptsCounted, CountedOn, Copies
    <3> QED
      BY <3>5, <3>6, <3>7, <3>12
  <2>3. CASE LinkOf(channel) # "linked"
    <3>1. /\ published' = published \cup {m}
          /\ UNCHANGED <<process, connections, message, place, retries, stage, attempts, handled>>
      BY <2>1, <2>3 DEF Publish, history
    <3> QED
      BY <3>1 DEF LinksSound, OneCopyPerMessage, ConsumerHoldsUnacked,
                  AttemptsCounted, Started, Done, CopiesOf, connections, Copies, Connections, None
  <2> QED
    BY <2>2, <2>3
<1>13. CASE \E c \in Copies : MessageExpires(c)
  <2>1. PICK c \in Copies : MessageExpires(c)
    BY <1>13
  <2>2. CountedOn(c)'
    BY <2>1 DEF MessageExpires, AttemptsCounted, CountedOn, Started, Done,
                history, TypeOK
  <2> QED
    BY <2>1, <2>2, <1>11 DEF MessageExpires, ConsumerHoldsUnacked, history,
                             TypeOK
<1>14. CASE \E c \in Copies : RetryDelayOver(c)
  <2>1. PICK c \in Copies : RetryDelayOver(c)
    BY <1>14
  <2>2. CountedOn(c)'
    BY <2>1 DEF RetryDelayOver, AttemptsCounted, CountedOn, Started, Done,
                history, TypeOK
  <2> QED
    BY <2>1, <2>2, <1>11 DEF RetryDelayOver, ConsumerHoldsUnacked, history,
                             TypeOK
<1>15. CASE \E c \in Copies : Deliver(c)
  <2>1. PICK c \in Copies : Deliver(c)
    BY <1>15
  <2>2. CountedOn(c)'
    BY <2>1 DEF Deliver, AttemptsCounted, CountedOn, Started, Done, TypeOK
  <2>3. consumerOn # None
    BY <2>1 DEF Deliver, LinkOf
  <2> QED
    BY <2>1, <2>2, <2>3, <1>11 DEF Deliver, ConsumerHoldsUnacked, TypeOK
<1>16. CASE \E c \in Copies : HandlerReturns(c)
  <2>1. PICK c \in Copies : HandlerReturns(c)
    BY <1>16
  <2>2. place[c] = "unacked" /\ link[consumerOn] \notin {"halfOpen", "closed"}
    BY <2>1, <1>8 DEF HandlerReturns
  <2>3. CountedOn(c)'
    BY <2>1, <2>2 DEF HandlerReturns, Answer, AttemptsCounted, CountedOn,
                      Started, Done, TypeOK
  <2> QED
    BY <2>1, <2>2, <2>3, <1>11 DEF HandlerReturns, Answer, TypeOK
<1>17. CASE \E c \in Copies : HandlerThrows(c)
  <2>1. PICK c \in Copies : HandlerThrows(c)
    BY <1>17
  <2>2. /\ place[c] = "unacked" /\ consumerOn # None
        /\ link[consumerOn] \notin {"halfOpen", "closed"}
    BY <2>1, <1>8 DEF HandlerThrows
  <2>3. CountedOn(c)'
    BY <2>1, <2>2 DEF HandlerThrows, Answer, AttemptsCounted, CountedOn,
                      Started, Done, history, TypeOK
  <2> QED
    BY <2>1, <2>2, <2>3, <1>11 DEF HandlerThrows, Answer, history, TypeOK
<1>18. CASE \E c \in Copies : RequeueWithRetry(c)
  <2>1. PICK c \in Copies : RequeueWithRetry(c)
    BY <1>18
  <2>2. place[c] = "unacked"
    BY <2>1, <1>8 DEF RequeueWithRetry
  <2>3. CountedOn(c)'
    BY <2>1, <2>2 DEF RequeueWithRetry, AttemptsCounted, CountedOn, Started,
                      Done, history, TypeOK
  <2> QED
    BY <2>1, <2>2, <2>3, <1>11 DEF RequeueWithRetry, history, TypeOK
<1> QED
  BY <1>3, <1>4, <1>5, <1>6, <1>7, <1>9, <1>12, <1>13, <1>14, <1>15, <1>16,
     <1>17, <1>18 DEF Next, Idle
-----------------------------------------------------------------------------
(* The theorems.                                                           *)

\* Before anything happens there is nothing to lose or to count.
LEMMA InitIInv == Init => IInv
<1> SUFFICES ASSUME Init
             PROVE  IInv
  OBVIOUS
<1>1. TypeOK
  BY InitTypes
<1>2. RequeuedBelowLimit
  BY DEF Init, RequeuedBelowLimit
<1>3. \A m \in Messages : CopiesOf(m) = {}
  BY DEF Init, CopiesOf
<1>4. NothingLost
  BY <1>3 DEF NothingLost
<1>5. LinksSound
  BY DEF Init, LinksSound, StartLink
<1>6. OneCopyPerMessage /\ ConsumerHoldsUnacked
  BY DEF Init, OneCopyPerMessage, ConsumerHoldsUnacked
<1>7. AttemptsCounted
  BY DEF Init, AttemptsCounted
<1>8. TriesMade /\ DeadLettersWereTried
  BY QueueAssumption DEF Init, TriesMade, Tries, DeadLettersWereTried
<1> QED
  BY <1>1, <1>2, <1>4, <1>5, <1>6, <1>7, <1>8 DEF IInv, Orderly

\* The inductive invariant holds in every behaviour.
THEOREM Invariance == Spec => []IInv
<1>1. Init => IInv
  BY InitIInv
<1>2. IInv /\ [Next]_vars => IInv'
  <2> SUFFICES ASSUME IInv, [Next]_vars
               PROVE  IInv'
    OBVIOUS
  <2>1. TypeOK'
    BY NextTypes DEF IInv
  <2>2. RequeuedBelowLimit'
    BY NextBelowLimit DEF IInv
  <2>3. NothingLost'
    BY NextKeeps DEF IInv
  <2>4. (Undisturbed => Orderly)'
    BY NextOrderly DEF IInv
  <2>5. TriesMade' /\ DeadLettersWereTried'
    BY NextTried DEF IInv
  <2> QED
    BY <2>1, <2>2, <2>3, <2>4, <2>5 DEF IInv
<1> QED
  BY <1>1, <1>2, PTL DEF Spec

\* Every variable keeps its type: the reconnection attempts stay within their
\* limit, and so does the retry count a message carries.
THEOREM TypeCorrect == Spec => []TypeOK
<1>1. IInv => TypeOK
  BY DEF IInv
<1> QED
  BY <1>1, Invariance, PTL

\* A message the broker took is handled, or the broker has a copy of it, or a
\* stop of the broker lost it in a temporary queue.
THEOREM NoSilentLoss == Spec => []NothingLost
<1>1. IInv => NothingLost
  BY DEF IInv
<1> QED
  BY <1>1, Invariance, PTL

\* Whatever is disturbed, a message is rejected into the dead-letter queue only
\* after the first try and all its retries.
THEOREM DeadAfterAllTries == Spec => []DeadLettersWereTried
<1>1. IInv => DeadLettersWereTried
  BY DEF IInv
<1> QED
  BY <1>1, Invariance, PTL

\* As long as nothing is disturbed, a message is handed to its handler at most
\* once and once for every retry, and not after its handler returned.
THEOREM BoundedAttempts == Spec => []AttemptsBounded
<1>1. IInv => AttemptsBounded
  <2> SUFFICES ASSUME IInv, Undisturbed, NEW m \in Messages
               PROVE  attempts[m] <= MaxRetries + 1 /\ handled[m] <= 1
    BY DEF AttemptsBounded, Undisturbed
  <2>1. TypeOK /\ AttemptsCounted /\ RequeuedBelowLimit
    BY DEF IInv, Orderly
  <2>2. CASE CopiesOf(m) = {}
    BY <2>1, <2>2, QueueAssumption DEF AttemptsCounted
  <2>3. CASE CopiesOf(m) # {}
    <3>1. PICK c \in Copies : place[c] # "unused" /\ message[c] = m
      BY <2>3 DEF CopiesOf
    <3>2. /\ attempts[m] = retries[c] + Started(c)
          /\ handled[m] = Done(c)
          /\ retries[c] \in 0 .. MaxRetries
      BY <2>1, <3>1 DEF AttemptsCounted, TypeOK
    <3>3. Started(c) \in {0, 1} /\ Done(c) \in {0, 1}
      BY DEF Started, Done
    <3> QED
      BY <3>2, <3>3, QueueAssumption
  <2> QED
    BY <2>2, <2>3
<1> QED
  BY <1>1, Invariance, PTL
=============================================================================
