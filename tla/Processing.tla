----------------------------- MODULE Processing -----------------------------
(***************************************************************************)
(* The processing service (app/entrypoints/processing.py): consumers that  *)
(* read raw records from the stream sita:ingestion:raw in batches, parse   *)
(* and normalise them, evaluate the record-level alert rules, write        *)
(* findings and alerts to the lake in one transaction, publish the alerts  *)
(* to the alert stream and only then acknowledge the whole batch.          *)
(*                                                                         *)
(* One action is the code between two awaits that other consumers, the     *)
(* database or Redis can observe.                                          *)
(*                                                                         *)
(* An operator named X_Y is X with the bug Y; nothing uses it but mutation *)
(* tests of the properties.                                                *)
(***************************************************************************)
EXTENDS Integers, Sequences, FiniteSets

CONSTANTS
    Consumer,     \* consumer tasks over all containers
    Replica,      \* processing containers, each one asyncio program
    Home,         \* the container each consumer runs in
    Key,          \* finding identities: (source, external_id)
    Record,       \* the raw records the connectors may publish
    BatchSize,    \* processing_batch_size
    MaxLen,       \* MAXLEN of the raw stream
    MaxMsgs,      \* bound: records the connectors publish
    MaxCrashes    \* bound: containers that die

(* What the pipeline tells apart in a raw record: the finding it is about, *)
(* whether its payload fails to parse, whether an alert rule matches it.   *)
ASSUME ProcessingAssumption ==
    /\ Record \subseteq [key : Key, bad : BOOLEAN, hot : BOOLEAN]
    /\ Home \in [Consumer -> Replica]
    /\ BatchSize \in Nat \ {0}
    /\ MaxLen \in Nat \ {0}
    /\ MaxMsgs \in Nat
    /\ MaxCrashes \in Nat

Msg == 1 .. MaxMsgs

VARIABLES
    raw,          \* the raw stream: raw[m] is the record of entry m
    first,        \* the oldest entry MAXLEN trimming has left in it
    last,         \* last-delivered-id of the consumer group
    pending,      \* the group's pending entries list
    acked,        \* entries acknowledged so far
    pc,           \* pc[c]: where consumer c is in its loop
    batch,        \* batch[c]: the entries process_batch is working on
    rest,         \* rest[c]: those a per-entry loop has not reached yet
    alerts,       \* alerts[c]: alerts raised and not yet published
    findings,     \* warehouse.findings by key: writing entry and version
    written,      \* entries whose row a committed transaction contained
    alertRows,    \* alerts the lake holds, named by the entry that raised them
    alertStream,  \* the alert stream
    dlq,          \* dead letters: <<reason, entry>>
    crashes       \* containers that have died (for the bound)

stream == <<raw, first, last, pending, acked>>
locals == <<pc, batch, rest, alerts>>
lake   == <<findings, written, alertRows>>
vars   == <<stream, locals, lake, alertStream, dlq, crashes>>

Phase   == {"idle", "parse", "write", "deadletter", "publish", "down"}
Reason  == {"parse_error", "lake_write_error"}
Finding == [msg : 0 .. MaxMsgs, version : Nat]    \* msg = 0: no such row

TypeOK ==
    /\ raw \in Seq(Record) /\ Len(raw) <= MaxMsgs
    /\ first \in Nat \ {0} /\ last \in 0 .. Len(raw)
    /\ pending \in SUBSET Msg /\ acked \in SUBSET Msg
    /\ pc \in [Consumer -> Phase]
    /\ batch \in [Consumer -> SUBSET Msg]
    /\ rest \in [Consumer -> SUBSET Msg]
    /\ alerts \in [Consumer -> SUBSET Msg]
    /\ findings \in [Key -> Finding]
    /\ written \in SUBSET Msg /\ alertRows \in SUBSET Msg
    /\ alertStream \in Seq(Msg)
    /\ dlq \in SUBSET (Reason \X Msg)
    /\ crashes \in 0 .. MaxCrashes

Init ==
    /\ raw = <<>> /\ first = 1 /\ last = 0
    /\ pending = {} /\ acked = {}
    /\ pc = [c \in Consumer |-> "idle"]
    /\ batch = [c \in Consumer |-> {}]
    /\ rest = [c \in Consumer |-> {}]
    /\ alerts = [c \in Consumer |-> {}]
    /\ findings = [k \in Key |-> [msg |-> 0, version |-> 0]]
    /\ written = {} /\ alertRows = {}
    /\ alertStream = <<>> /\ dlq = {} /\ crashes = 0

----------------------------------------------------------------------------
(* Producer.publish_batch adds records with XADD MAXLEN ~: Redis may drop  *)
(* entries from the old end as long as MaxLen remain, delivered or not.    *)
PublishRaw(r) ==
    /\ Len(raw) < MaxMsgs
    /\ raw' = Append(raw, r)
    /\ first' \in {f \in first .. Len(raw) + 1 :
                     f = first \/ f <= Len(raw) + 2 - MaxLen}
    /\ UNCHANGED <<last, pending, acked, locals, lake, alertStream, dlq, crashes>>

(* The entries XREADGROUP ">" COUNT BatchSize returns: the oldest that are *)
(* still in the stream and were not delivered to anybody.                  *)
Oldest == IF first > last THEN first ELSE last + 1

Newest_Unbounded == Oldest + BatchSize - 1
Newest == IF Len(raw) < Oldest + BatchSize - 1 THEN Len(raw)
          ELSE Oldest + BatchSize - 1

(* run: one blocking read that returned something.                         *)
Read_OwnCursor(c) ==
    /\ pc[c] = "idle"
    /\ Oldest <= Len(raw)
    /\ pending' = pending \cup (Oldest .. Newest)
    /\ batch' = [batch EXCEPT ![c] = Oldest .. Newest]
    /\ rest' = [rest EXCEPT ![c] = Oldest .. Newest]
    /\ pc' = [pc EXCEPT ![c] = "parse"]
    /\ UNCHANGED <<raw, first, last, acked, alerts, lake, alertStream, dlq, crashes>>

Read(c) ==
    /\ pc[c] = "idle"
    /\ Oldest <= Len(raw)
    /\ last' = Newest
    /\ pending' = pending \cup (Oldest .. Newest)
    /\ batch' = [batch EXCEPT ![c] = Oldest .. Newest]
    /\ rest' = [rest EXCEPT ![c] = Oldest .. Newest]
    /\ pc' = [pc EXCEPT ![c] = "parse"]
    /\ UNCHANGED <<raw, first, acked, alerts, lake, alertStream, dlq, crashes>>

(* process_batch, first loop: the next entry that does not parse is        *)
(* written to the dead-letter stream; those before it parsed.              *)
DeadLetterUnparsed(c) ==
    /\ pc[c] = "parse"
    /\ \E m \in rest[c] :
         /\ raw[m].bad
         /\ \A n \in rest[c] : n < m => ~raw[n].bad
         /\ dlq' = dlq \cup {<<"parse_error", m>>}
         /\ rest' = [rest EXCEPT ![c] = {n \in @ : n > m}]
    /\ UNCHANGED <<stream, pc, batch, alerts, lake, alertStream, crashes>>

(* Normaliser._dedup keeps, within a batch, the last record of each key.   *)
Rows_Undeduplicated(B) == {m \in B : ~raw[m].bad}
Rows(B) == {m \in B : /\ ~raw[m].bad
                      /\ \A n \in B : n > m /\ ~raw[n].bad => raw[n].key # raw[m].key}

(* The row of finding k among them, if there is one.                       *)
RowsOf(B, k) == {m \in Rows(B) : raw[m].key = k}

(* Every entry parsed or dead-lettered: normalise, and evaluate the rules  *)
(* on each row.  The throttle may suppress any of the matches.  A batch    *)
(* without rows skips the lake and goes on to be acknowledged.             *)
Evaluate(c) ==
    /\ pc[c] = "parse"
    /\ \A m \in rest[c] : ~raw[m].bad
    /\ rest' = [rest EXCEPT ![c] = {}]
    /\ \E raised \in SUBSET {m \in Rows(batch[c]) : raw[m].hot} :
         alerts' = [alerts EXCEPT ![c] = raised]
    /\ pc' = [pc EXCEPT ![c] = IF Rows(batch[c]) = {} THEN "publish" ELSE "write"]
    /\ UNCHANGED <<stream, batch, lake, alertStream, dlq, crashes>>

----------------------------------------------------------------------------
(* upsert_lake_batch: findings are inserted, or on conflict overwritten    *)
(* with version + 1, and the alerts are inserted, in one transaction.      *)
WriteLake(c) ==
    /\ findings' = [k \in Key |->
         IF RowsOf(batch[c], k) = {} THEN findings[k]
         ELSE [msg |-> CHOOSE m \in RowsOf(batch[c], k) : TRUE,
               version |-> findings[k].version + 1]]
    /\ written' = written \cup Rows(batch[c])
    /\ alertRows' = alertRows \cup alerts[c]

Commit(c) ==
    /\ pc[c] = "write"
    /\ WriteLake(c)
    /\ pc' = [pc EXCEPT ![c] = "publish"]
    /\ UNCHANGED <<stream, batch, rest, alerts, alertStream, dlq, crashes>>

CommitFails_Unlogged(c) ==
    /\ pc[c] = "write"
    /\ UNCHANGED lake
    /\ pc' = [pc EXCEPT ![c] = "publish"]
    /\ UNCHANGED <<stream, batch, rest, alerts, alertStream, dlq, crashes>>

(* The write raises: nothing was written, or the commit went through and   *)
(* its answer was lost.  Every entry of the batch, those that did not      *)
(* parse included, will be dead-lettered.                                  *)
CommitFails(c) ==
    /\ pc[c] = "write"
    /\ \/ UNCHANGED lake
       \/ WriteLake(c)
    /\ rest' = [rest EXCEPT ![c] = batch[c]]
    /\ pc' = [pc EXCEPT ![c] = "deadletter"]
    /\ UNCHANGED <<stream, batch, alerts, alertStream, dlq, crashes>>

DeadLetterEntry_OnlyFirst(c) ==
    /\ pc[c] = "deadletter"
    /\ \E m \in rest[c] :
         /\ \A n \in rest[c] : m <= n
         /\ dlq' = dlq \cup {<<"lake_write_error", m>>}
    /\ rest' = [rest EXCEPT ![c] = {}]
    /\ pc' = [pc EXCEPT ![c] = "publish"]
    /\ UNCHANGED <<stream, batch, alerts, lake, alertStream, crashes>>

DeadLetterEntry_Stuck(c) ==
    /\ pc[c] = "deadletter"
    /\ \E m \in rest[c] :
         /\ \A n \in rest[c] : m <= n
         /\ dlq' = dlq \cup {<<"lake_write_error", m>>}
         /\ rest' = [rest EXCEPT ![c] = @ \ {m}]
    /\ UNCHANGED <<stream, pc, batch, alerts, lake, alertStream, crashes>>

DeadLetterEntry(c) ==
    /\ pc[c] = "deadletter"
    /\ \E m \in rest[c] :
         /\ \A n \in rest[c] : m <= n
         /\ dlq' = dlq \cup {<<"lake_write_error", m>>}
         /\ rest' = [rest EXCEPT ![c] = @ \ {m}]
         /\ pc' = [pc EXCEPT ![c] = IF rest[c] = {m} THEN "publish" ELSE @]
    /\ UNCHANGED <<stream, batch, alerts, lake, alertStream, crashes>>

(* publish_batch pipelines the alerts without a transaction, whether or    *)
(* not the lake holds them.                                                *)
PublishAlert(c) ==
    /\ pc[c] = "publish"
    /\ \E a \in alerts[c] :
         /\ alertStream' = Append(alertStream, a)
         /\ alerts' = [alerts EXCEPT ![c] = @ \ {a}]
    /\ UNCHANGED <<stream, pc, batch, rest, lake, dlq, crashes>>

Ack_BeforePublishing(c) ==
    /\ pc[c] = "publish"
    /\ pending' = pending \ batch[c]
    /\ acked' = acked \cup batch[c]
    /\ batch' = [batch EXCEPT ![c] = {}]
    /\ alerts' = [alerts EXCEPT ![c] = {}]
    /\ pc' = [pc EXCEPT ![c] = "idle"]
    /\ UNCHANGED <<raw, first, last, rest, lake, alertStream, dlq, crashes>>

(* run: one XACK for the whole batch.                                      *)
Ack(c) ==
    /\ pc[c] = "publish"
    /\ alerts[c] = {}
    /\ pending' = pending \ batch[c]
    /\ acked' = acked \cup batch[c]
    /\ batch' = [batch EXCEPT ![c] = {}]
    /\ pc' = [pc EXCEPT ![c] = "idle"]
    /\ UNCHANGED <<raw, first, last, rest, alerts, lake, alertStream, dlq, crashes>>

----------------------------------------------------------------------------
(* An exception no consumer catches (Redis refusing a command, a record    *)
(* the normaliser chokes on) ends its task, main's gather re-raises it and *)
(* asyncio.run cancels the container's other consumers; a killed container *)
(* looks the same from outside.                                            *)
Crash(r) ==
    /\ crashes < MaxCrashes
    /\ \E c \in Consumer : Home[c] = r /\ pc[c] # "down"
    /\ crashes' = crashes + 1
    /\ pc' = [c \in Consumer |-> IF Home[c] = r THEN "down" ELSE pc[c]]
    /\ batch' = [c \in Consumer |-> IF Home[c] = r THEN {} ELSE batch[c]]
    /\ rest' = [c \in Consumer |-> IF Home[c] = r THEN {} ELSE rest[c]]
    /\ alerts' = [c \in Consumer |-> IF Home[c] = r THEN {} ELSE alerts[c]]
    /\ UNCHANGED <<stream, lake, alertStream, dlq>>

Restart_ReadsPending(r) ==
    \E c \in Consumer :
      /\ Home[c] = r /\ pc[c] = "down"
      /\ pc' = [pc EXCEPT ![c] = "parse"]
      /\ batch' = [batch EXCEPT ![c] = pending \ UNION {batch[d] : d \in Consumer}]
      /\ rest' = [rest EXCEPT ![c] = pending \ UNION {batch[d] : d \in Consumer}]
      /\ UNCHANGED <<stream, alerts, lake, alertStream, dlq, crashes>>

(* The container starts again; its consumers ask for new entries only.     *)
Restart(r) ==
    /\ \E c \in Consumer : Home[c] = r /\ pc[c] = "down"
    /\ pc' = [c \in Consumer |-> IF Home[c] = r THEN "idle" ELSE pc[c]]
    /\ UNCHANGED <<stream, batch, rest, alerts, lake, alertStream, dlq, crashes>>

Step(c) ==
    \/ Read(c) \/ DeadLetterUnparsed(c) \/ Evaluate(c)
    \/ Commit(c) \/ CommitFails(c) \/ DeadLetterEntry(c)
    \/ PublishAlert(c) \/ Ack(c)

Next ==
    \/ \E r \in Record : PublishRaw(r)
    \/ \E c \in Consumer : Step(c)
    \/ \E r \in Replica : Crash(r) \/ Restart(r)

Spec == Init /\ [][Next]_vars

(* The event loop runs every consumer that is ready, and whoever operates  *)
(* the containers starts a dead one again.                                 *)
Fairness ==
    /\ \A c \in Consumer : WF_vars(Step(c))
    /\ \A r \in Replica : WF_vars(Restart(r))

FairSpec == Spec /\ Fairness
----------------------------------------------------------------------------
(* No record vanishes between the acknowledgement and the lake.  XACK      *)
(* makes Redis forget an entry for good, so by then it is a parse error or *)
(* a failed write in the dead-letter stream, or the lake was written from  *)
(* it or from a newer record of the same finding.                          *)
AckedIsAccounted ==
    \A m \in acked :
        \/ \E why \in Reason : <<why, m>> \in dlq
        \/ \E n \in written : n >= m /\ raw[n].key = raw[m].key

(* Two consumers never work on the same entry, and what one works on is    *)
(* pending: at-most-once processing, which findings' version relies on.    *)
OneHolder ==
    /\ pending \cap acked = {}
    /\ \A c \in Consumer : batch[c] \subseteq pending
    /\ \A c, d \in Consumer : c # d => batch[c] \cap batch[d] = {}

(* Analysts can open every alert that was sent out: an alert on the alert  *)
(* stream has a row in the lake, unless its batch was dead-lettered because *)
(* the write failed (process_batch publishes the alerts even then).        *)
PublishedAlertIsBacked ==
    \A i \in DOMAIN alertStream :
        \/ alertStream[i] \in alertRows
        \/ <<"lake_write_error", alertStream[i]>> \in dlq

(* No alert is stored and silently never sent: once its record has been    *)
(* acknowledged, an alert row is on the alert stream, and only once.       *)
StoredAlertIsPublishedOnce ==
    /\ \A m \in alertRows \cap acked : \E i \in DOMAIN alertStream : alertStream[i] = m
    /\ \A i, j \in DOMAIN alertStream : alertStream[i] = alertStream[j] => i = j

(* The version of a finding counts the records written to it: no batch is  *)
(* applied twice and no batch writes one finding more than once.           *)
VersionCountsWrites ==
    \A k \in Key :
        findings[k].version = Cardinality({m \in written : raw[m].key = k})

(* An entry some consumer read, that was never acknowledged and that no    *)
(* consumer works on any more: pending for ever.                           *)
Stranded(m) == m \in pending /\ \A c \in Consumer : m \notin batch[c]

(* An entry MAXLEN dropped before anybody read it.                         *)
Trimmed(m) == m < first /\ m \notin pending \cup acked

(* The fate of each entry, as ConsumerGroup tells it.                      *)
FateOf(m) ==
    IF m > Len(raw) THEN "unpublished"
    ELSE IF m \in acked THEN "acked"
    ELSE IF Stranded(m) THEN "stranded"
    ELSE IF m \in pending THEN "held"
    ELSE IF Trimmed(m) THEN "trimmed"
    ELSE "queued"

Group == INSTANCE ConsumerGroup WITH fate <- [m \in Msg |-> FateOf(m)]

(* The service uses its consumer group as the abstract specification says: *)
(* entries are delivered oldest first, each to one consumer, once, and a   *)
(* stranded or trimmed entry never comes back.                             *)
ImplementsConsumerGroup == Group!Spec

(* Every published record is eventually done with: acknowledged, or lost   *)
(* in one of the two ways above.  Consumers never wedge.                   *)
EventuallySettled ==
    \A m \in Msg :
        m <= Len(raw) ~> (m \in acked \/ Stranded(m) \/ Trimmed(m))

(* docs/REQUIREMENTS.md NFR-REL-01: ingestion tolerates transient failures *)
(* via retry and dead-letter queues.  So a record that was read and that   *)
(* nobody works on any more is acknowledged or in the dead-letter stream.  *)
LostWorkIsDeadLettered ==
    \A m \in pending :
        Stranded(m) => \E why \in Reason : <<why, m>> \in dlq
=============================================================================
