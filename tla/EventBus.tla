------------------------------ MODULE EventBus ------------------------------
(***************************************************************************)
(* smarthire_common.events: the KafkaEventPublisher of one service, a      *)
(* topic, and the run_consumer loop of another.                            *)
(*                                                                         *)
(* Nothing ties the two ends together.  The publisher drops an event when  *)
(* it cannot send it, and is without a producer for good if Kafka was away *)
(* when its service started.  The consumer commits its position in the     *)
(* background and again when it stops; the position moves when a message   *)
(* is handed to the loop, before it has been handled.                      *)
(*                                                                         *)
(* The module that extends this one has the handler and the publishing     *)
(* service.  A topic has one partition (docker-compose.yml keeps Kafka's   *)
(* default), so it is one log.                                             *)
(***************************************************************************)
EXTENDS Integers, Sequences

CONSTANTS
    MaxFaults,  \* how many outages, restarts and errors occur
    NoMessage   \* nothing in the handler

ASSUME MaxFaultsAssumption == MaxFaults \in Nat

VARIABLES
    broker,     \* Kafka can be reached
    producer,   \* the publisher has a producer (_producer is not None)
    topic,      \* the messages, in the order of their offsets
    offset,     \* the position the consumer group has committed
    consumer,   \* "up" inside the `async for`, "down" outside
    position,   \* how many messages the consumer has read
    handling,   \* the message in the handler, NoMessage when there is none
    skipped,    \* history variable: messages read last without being handled
    faults

logVars == <<broker, producer, topic>>
readVars == <<offset, consumer, position, handling, skipped>>

BusInit ==
    /\ broker \in BOOLEAN
    /\ producer = broker
    /\ topic = <<>>
    /\ offset = 0
    /\ consumer = "down"
    /\ position = 0
    /\ handling = NoMessage
    /\ skipped = {}
    /\ faults = 0

Fault == faults < MaxFaults /\ faults' = faults + 1

-----------------------------------------------------------------------------
(* Kafka and the publisher.                                                *)

Outage ==
    /\ broker /\ broker' = FALSE
    /\ Fault
    /\ UNCHANGED <<producer, topic, readVars>>

Recovery ==
    /\ ~broker /\ broker' = TRUE
    /\ UNCHANGED <<producer, topic, faults, readVars>>

\* The one attempt to connect, in the lifespan of the service.
start == producer' = broker

CanSend == producer /\ broker

publish(message) == topic' = IF CanSend THEN Append(topic, message) ELSE topic

-----------------------------------------------------------------------------
(* run_consumer.                                                           *)

\* Mutant: a consumer starts at the end of the topic.
ConnectLatest ==
    /\ consumer = "down" /\ broker
    /\ consumer' = "up"
    /\ position' = Len(topic)
    /\ UNCHANGED <<offset, handling, skipped, faults, logVars>>

\* While Kafka is away this is tried again and again.
Connect ==
    /\ consumer = "down" /\ broker
    /\ consumer' = "up"
    /\ position' = offset
    /\ UNCHANGED <<offset, handling, skipped, faults, logVars>>

\* Mutant: the last message is never read.
ReadAllButOne ==
    /\ consumer = "up" /\ handling = NoMessage
    /\ position + 1 < Len(topic)
    /\ position' = position + 1
    /\ handling' = topic[position + 1]
    /\ UNCHANGED <<offset, consumer, skipped, faults, logVars>>

Read ==
    /\ consumer = "up" /\ handling = NoMessage
    /\ position < Len(topic)
    /\ position' = position + 1
    /\ handling' = topic[position + 1]
    /\ UNCHANGED <<offset, consumer, skipped, faults, logVars>>

\* Mutant: the position after the next message is committed.
CommitAhead ==
    /\ consumer = "up" /\ broker
    /\ offset' = position + 1
    /\ UNCHANGED <<consumer, position, handling, skipped, faults, logVars>>

AutoCommit ==
    /\ consumer = "up" /\ broker
    /\ offset' = position
    /\ UNCHANGED <<consumer, position, handling, skipped, faults, logVars>>

Handled ==
    /\ handling # NoMessage
    /\ handling' = NoMessage
    /\ skipped' = skipped \ {position}
    /\ UNCHANGED <<offset, consumer, position, faults, logVars>>

\* An error in the handler is logged, and the loop goes on.
HandlerFails ==
    /\ handling # NoMessage
    /\ handling' = NoMessage
    /\ skipped' = skipped \cup {position}
    /\ Fault
    /\ UNCHANGED <<offset, consumer, position, logVars>>

\* The iteration breaks off, or its process is stopped or killed, with a
\* message in the handler or without.  Stopping commits the position if Kafka
\* can be reached; after that the message in the handler is not read again.
\* What is read next starts at what was committed.
LeaveLoop ==
    /\ consumer = "up" /\ consumer' = "down"
    /\ offset' \in {offset} \cup {p \in {position} : broker}
    /\ handling' = NoMessage
    /\ skipped' = IF handling # NoMessage /\ offset' = position
                  THEN skipped \cup {position} ELSE skipped
    /\ position' = offset'
    /\ Fault
    /\ UNCHANGED logVars

Bus == Outage \/ Recovery \/ Connect \/ Read \/ AutoCommit \/ HandlerFails \/ LeaveLoop

-----------------------------------------------------------------------------
(* What the properties of the extending module are stated with.            *)

BusTypeOK(Messages) ==
    /\ broker \in BOOLEAN
    /\ producer \in BOOLEAN
    /\ topic \in Seq(Messages)
    /\ offset \in 0..Len(topic)
    /\ consumer \in {"up", "down"}
    /\ position \in offset..Len(topic)
    /\ handling \in Messages \cup {NoMessage}
    /\ skipped \subseteq 1..Len(topic)
    /\ faults \in 0..MaxFaults

CaughtUp == position = Len(topic) /\ handling = NoMessage

=============================================================================
