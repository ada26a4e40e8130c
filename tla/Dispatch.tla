------------------------------ MODULE Dispatch ------------------------------
(***************************************************************************)
(* The dispatch service (app/entrypoints/dispatch.py on top of             *)
(* app/bus/consumer.py): consumers read alerts from sita:processing:alerts *)
(* in batches and handle them one at a time.  An alert is sent over all    *)
(* its channels concurrently, the outcomes are committed to the dispatch   *)
(* log, the alert's row is stamped in a second transaction, and the entry  *)
(* is acknowledged.  Database errors are logged and otherwise ignored; a   *)
(* failing acknowledgement dead-letters the entry.                         *)
(*                                                                         *)
(* An operator named X_Y is X with the bug Y; nothing uses it but mutation *)
(* tests of the properties.                                                *)
(***************************************************************************)
EXTENDS Integers, Sequences, FiniteSets

CONSTANTS
    Consumer,     \* consumer tasks, all in one container
    Alert,        \* the alerts the other services may publish
    BatchSize,    \* StreamConsumer.batch_size
    MaxLen,       \* MAXLEN of the alert stream
    MaxMsgs,      \* bound: alerts published
    MaxCrashes    \* bound: times the container dies

Channel  == {"email", "teams", "pagerduty"}
Severity == {"critical", "high", "medium", "low", "info"}

(* An alert names the channels of its rule, and the lake holds a row of it *)
(* or, when its batch's write failed, does not.  Every rule of             *)
(* alert_rules.yaml names teams, so no alert is without a channel.         *)
ASSUME DispatchAssumption ==
    /\ Alert \subseteq [channels : SUBSET Channel, severity : Severity, stored : BOOLEAN]
    /\ \A a \in Alert : "teams" \in a.channels
    /\ BatchSize \in Nat \ {0}
    /\ MaxLen \in Nat \ {0}
    /\ MaxMsgs \in Nat
    /\ MaxCrashes \in Nat

Msg == 1 .. MaxMsgs

VARIABLES
    alert,      \* the alert stream: alert[m] is the alert of entry m
    first,      \* the oldest entry MAXLEN trimming has left in it
    last,       \* last-delivered-id of the consumer group
    pending,    \* the group's pending entries list
    acked,      \* entries acknowledged so far
    pc,         \* pc[c]: where consumer c is
    queue,      \* queue[c]: the entries of its batch it has not finished
    outcome,    \* outcome[c]: <<channel, status>> of the alert it handles
    tries,      \* how often each entry was sent over each channel
    delivered,  \* the <<entry, channel>> that reached their recipient
    log,        \* warehouse.dispatch_log: <<entry, channel, status>>
    stamped,    \* entries whose alert row has last_dispatched_at
    dlq,        \* entries in the dead-letter stream
    crashes     \* times the container died (for the bound)

stream == <<alert, first, last, pending, acked>>
locals == <<pc, queue, outcome>>
world  == <<tries, delivered>>
lake   == <<log, stamped>>
vars   == <<stream, locals, world, lake, dlq, crashes>>

Phase  == {"idle", "sending", "stamp", "ack", "down"}
Status == {"sent", "failed"}

TypeOK ==
    /\ alert \in Seq(Alert) /\ Len(alert) <= MaxMsgs
    /\ first \in Nat \ {0} /\ last \in 0 .. Len(alert)
    /\ pending \in SUBSET Msg /\ acked \in SUBSET Msg
    /\ pc \in [Consumer -> Phase]
    /\ queue \in [Consumer -> SUBSET Msg]
    /\ outcome \in [Consumer -> SUBSET (Channel \X Status)]
    /\ tries \in [Msg \X Channel -> Nat]
    /\ delivered \in SUBSET (Msg \X Channel)
    /\ log \in SUBSET (Msg \X Channel \X Status)
    /\ stamped \in SUBSET Msg /\ dlq \in SUBSET Msg
    /\ crashes \in 0 .. MaxCrashes

Init ==
    /\ alert = <<>> /\ first = 1 /\ last = 0
    /\ pending = {} /\ acked = {}
    /\ pc = [c \in Consumer |-> "idle"]
    /\ queue = [c \in Consumer |-> {}]
    /\ outcome = [c \in Consumer |-> {}]
    /\ tries = [t \in Msg \X Channel |-> 0]
    /\ delivered = {} /\ log = {} /\ stamped = {} /\ dlq = {} /\ crashes = 0

----------------------------------------------------------------------------
(* Processing and analytics publish alerts with XADD MAXLEN ~.             *)
Publish(a) ==
    /\ Len(alert) < MaxMsgs
    /\ alert' = Append(alert, a)
    /\ first' \in {f \in first .. Len(alert) + 1 :
                     f = first \/ f <= Len(alert) + 2 - MaxLen}
    /\ UNCHANGED <<last, pending, acked, locals, world, lake, dlq, crashes>>

Oldest == IF first > last THEN first ELSE last + 1
Newest_Unbounded == Oldest + BatchSize - 1
Newest == IF Len(alert) < Oldest + BatchSize - 1 THEN Len(alert)
          ELSE Oldest + BatchSize - 1

(* process_once: a blocking read that returned something.                  *)
Read_Pending(c) ==
    /\ pc[c] = "idle"
    /\ \E m \in 1 .. Len(alert) : m \in pending \/ m > last
    /\ last' = Len(alert)
    /\ pending' = pending \cup (last + 1 .. Len(alert))
    /\ queue' = [queue EXCEPT ![c] = (pending \cup (last + 1 .. Len(alert)))
                                     \ UNION {queue[d] : d \in Consumer}]
    /\ pc' = [pc EXCEPT ![c] = "sending"]
    /\ UNCHANGED <<alert, first, acked, outcome, world, lake, dlq, crashes>>

Read(c) ==
    /\ pc[c] = "idle"
    /\ Oldest <= Len(alert)
    /\ last' = Newest
    /\ pending' = pending \cup (Oldest .. Newest)
    /\ queue' = [queue EXCEPT ![c] = Oldest .. Newest]
    /\ pc' = [pc EXCEPT ![c] = "sending"]
    /\ UNCHANGED <<alert, first, acked, outcome, world, lake, dlq, crashes>>

(* The read raises after Redis carried it out (the connection broke); the  *)
(* loop logs it and reads on, and what was delivered is in nobody's hands. *)
ReadLost(c) ==
    /\ pc[c] = "idle"
    /\ Oldest <= Len(alert)
    /\ last' = Newest
    /\ pending' = pending \cup (Oldest .. Newest)
    /\ UNCHANGED <<alert, first, acked, locals, world, lake, dlq, crashes>>

(* The entry a consumer is at, and the channels its alert goes out on:     *)
(* DispatchWorker.dispatch drops those its severity is too low for.        *)
Current(c) == CHOOSE m \in queue[c] : \A n \in queue[c] : m <= n

Route(a) == {ch \in a.channels :
               \/ ch = "email" /\ a.severity \in {"critical", "high"}
               \/ ch = "teams"
               \/ ch = "pagerduty" /\ a.severity = "critical"}

Attempted(c) == {o[1] : o \in outcome[c]}

(* DispatchWorker builds the Teams and PagerDuty adapters without a URL or *)
(* key: they give up before they connect to anything.                      *)
Configured == {"email"}

(* An adapter answers.  Mail that left may still be reported as failed,    *)
(* when the SMTP session breaks after the message was accepted.            *)
SendOutcomes_Optimistic == {<<"sent", TRUE>>, <<"sent", FALSE>>, <<"failed", FALSE>>}
SendOutcomes == {<<"sent", TRUE>>, <<"failed", TRUE>>, <<"failed", FALSE>>}

Send(c) ==
    /\ pc[c] = "sending"
    /\ \E ch \in Route(alert[Current(c)]) \ Attempted(c), o \in SendOutcomes :
         /\ ch \notin Configured => o = <<"failed", FALSE>>
         /\ outcome' = [outcome EXCEPT ![c] = @ \cup {<<ch, o[1]>>}]
         /\ tries' = [tries EXCEPT ![<<Current(c), ch>>] = @ + 1]
         /\ delivered' = IF o[2] THEN delivered \cup {<<Current(c), ch>>} ELSE delivered
    /\ UNCHANGED <<stream, pc, queue, lake, dlq, crashes>>

----------------------------------------------------------------------------
(* All channels answered: gather returns.                                  *)
Gathered_AllChannels(c) ==
    pc[c] = "sending" /\ Attempted(c) = Channel

Gathered(c) ==
    pc[c] = "sending" /\ Attempted(c) = Route(alert[Current(c)])

LogRows(c) == {<<Current(c), o[1], o[2]>> : o \in outcome[c]}

(* record_dispatch: one row per channel, in one transaction.               *)
RecordDispatch(c) ==
    /\ Gathered(c)
    /\ log' = log \cup LogRows(c)
    /\ pc' = [pc EXCEPT ![c] = "stamp"]
    /\ UNCHANGED <<stream, queue, outcome, world, stamped, dlq, crashes>>

RecordDispatchFails_Stamps(c) ==
    /\ Gathered(c)
    /\ log' \in {log, log \cup LogRows(c)}
    /\ pc' = [pc EXCEPT ![c] = "stamp"]
    /\ UNCHANGED <<stream, queue, outcome, world, stamped, dlq, crashes>>

(* It raises, before or after the commit took effect; the exception is     *)
(* logged and the stamp is skipped.                                        *)
RecordDispatchFails(c) ==
    /\ Gathered(c)
    /\ log' \in {log, log \cup LogRows(c)}
    /\ pc' = [pc EXCEPT ![c] = "ack"]
    /\ UNCHANGED <<stream, queue, outcome, world, stamped, dlq, crashes>>

(* The second transaction stamps the alert's row, if there is one, or      *)
(* fails; either way the handler returns.                                  *)
Stamp(c) ==
    /\ pc[c] = "stamp"
    /\ \/ UNCHANGED stamped
       \/ alert[Current(c)].stored /\ stamped' = stamped \cup {Current(c)}
    /\ pc' = [pc EXCEPT ![c] = "ack"]
    /\ UNCHANGED <<stream, queue, outcome, world, log, dlq, crashes>>

(* process_once goes on to the next entry of the batch.                    *)
NextEntry_WholeBatch(c) ==
    /\ queue' = [queue EXCEPT ![c] = {}]
    /\ outcome' = [outcome EXCEPT ![c] = {}]
    /\ pc' = [pc EXCEPT ![c] = "idle"]

NextEntry(c) ==
    /\ queue' = [queue EXCEPT ![c] = @ \ {Current(c)}]
    /\ outcome' = [outcome EXCEPT ![c] = {}]
    /\ pc' = [pc EXCEPT ![c] = IF queue[c] = {Current(c)} THEN "idle" ELSE "sending"]

Ack_Batch(c) ==
    /\ pc[c] = "ack"
    /\ pending' = pending \ queue[c]
    /\ acked' = acked \cup queue[c]
    /\ NextEntry_WholeBatch(c)
    /\ UNCHANGED <<alert, first, last, world, lake, dlq, crashes>>

Ack(c) ==
    /\ pc[c] = "ack"
    /\ pending' = pending \ {Current(c)}
    /\ acked' = acked \cup {Current(c)}
    /\ NextEntry(c)
    /\ UNCHANGED <<alert, first, last, world, lake, dlq, crashes>>

(* XACK raises, whether or not Redis carried it out, and nack dead-letters *)
(* the entry or, Redis still being away, only logs that it could not.      *)
AckFails(c) ==
    /\ pc[c] = "ack"
    /\ \/ UNCHANGED <<pending, acked>>
       \/ /\ pending' = pending \ {Current(c)}
          /\ acked' = acked \cup {Current(c)}
    /\ dlq' \in {dlq, dlq \cup {Current(c)}}
    /\ NextEntry(c)
    /\ UNCHANGED <<alert, first, last, world, lake, crashes>>

----------------------------------------------------------------------------
(* The container dies, with all its consumers, and is started again.       *)
Crash ==
    /\ crashes < MaxCrashes
    /\ \E c \in Consumer : pc[c] # "down"
    /\ crashes' = crashes + 1
    /\ pc' = [c \in Consumer |-> "down"]
    /\ queue' = [c \in Consumer |-> {}]
    /\ outcome' = [c \in Consumer |-> {}]
    /\ UNCHANGED <<stream, world, lake, dlq>>

Restart ==
    /\ \E c \in Consumer : pc[c] = "down"
    /\ pc' = [c \in Consumer |-> "idle"]
    /\ UNCHANGED <<stream, queue, outcome, world, lake, dlq, crashes>>

Step(c) ==
    \/ Read(c) \/ ReadLost(c) \/ Send(c)
    \/ RecordDispatch(c) \/ RecordDispatchFails(c) \/ Stamp(c)
    \/ Ack(c) \/ AckFails(c)

Next ==
    \/ \E a \in Alert : Publish(a)
    \/ \E c \in Consumer : Step(c)
    \/ Crash \/ Restart

Spec == Init /\ [][Next]_vars

(* Every adapter call, query and Redis call returns or times out, and a    *)
(* dead container is started again.                                        *)
FairSpec == Spec /\ WF_vars(Restart) /\ \A c \in Consumer : WF_vars(Step(c))
----------------------------------------------------------------------------
(* Recipients are never paged twice for one alert, and an alert whose      *)
(* entry is forgotten was sent over every channel it is routed to.         *)
SentOnceBeforeAck ==
    \A m \in Msg, ch \in Channel :
        /\ tries[<<m, ch>>] <= 1
        /\ m \in acked /\ ch \in Route(alert[m]) => tries[<<m, ch>>] = 1

(* The delivery history the alerts API shows is truthful: a row "sent" is  *)
(* of a message that arrived, and a channel has one row.                   *)
LogIsTruthful ==
    \A r \in log :
        /\ r[3] = "sent" => <<r[1], r[2]>> \in delivered
        /\ \A s \in log : s[1] = r[1] /\ s[2] = r[2] => s = r

(* The history is all or nothing: an alert has a row for every channel it  *)
(* is routed to, or none; one marked as dispatched has them.               *)
LogIsComplete ==
    \A m \in 1 .. Len(alert) :
        LET logged == {r[2] : r \in {s \in log : s[1] = m}}
        IN  /\ logged \in {{}, Route(alert[m])}
            /\ m \in stamped => logged # {}

Stranded(m) == m \in pending /\ \A c \in Consumer : m \notin queue[c]

Trimmed(m) == m < first /\ m \notin pending \cup acked

FateOf(m) ==
    IF m > Len(alert) THEN "unpublished"
    ELSE IF m \in acked THEN "acked"
    ELSE IF Stranded(m) THEN "stranded"
    ELSE IF m \in pending THEN "held"
    ELSE IF Trimmed(m) THEN "trimmed"
    ELSE "queued"

Group == INSTANCE ConsumerGroup WITH fate <- [m \in Msg |-> FateOf(m)]

(* The dispatch group uses its stream as the abstract group does: an entry *)
(* that was nacked or lost in a crash is never delivered again.            *)
ImplementsConsumerGroup == Group!Spec

(* A poisoned entry does not hold up the queue: every alert is eventually  *)
(* acknowledged, or lost to a failing acknowledgement, a crash or MAXLEN.  *)
EventuallySettled ==
    \A m \in Msg :
        m <= Len(alert) ~> (m \in acked \/ Stranded(m) \/ Trimmed(m))

(* docs/REQUIREMENTS.md FR-DISPATCH-03: dispatch failures must not         *)
(* silently drop alerts.  An acknowledged alert that reached nobody has    *)
(* left a failed row or a dead letter.                                     *)
NoSilentDrop ==
    \A m \in acked :
        \/ \E ch \in Channel : <<m, ch>> \in delivered
        \/ \E ch \in Channel : <<m, ch, "failed">> \in log
        \/ m \in dlq
=============================================================================
