-------------------------- MODULE ProcessingProofs --------------------------
(***************************************************************************)
(* Proofs about Processing, for every number of consumers, containers,     *)
(* records and crashes.  The invariant is built in layers, each inductive  *)
(* relative to TypeOK and Holding, who works on which entry: Accounting    *)
(* (what becomes of the entries of a batch), Alerting (what becomes of its *)
(* alerts) and Versioning (how often a finding is written).                *)
(***************************************************************************)
EXTENDS Processing, FiniteSetTheorems, WellFoundedInduction, TLAPS

(* Who works on what: entries are delivered in order and once, and a       *)
(* consumer's working set is empty between batches and after a crash.      *)
Holding ==
    /\ pending \cup acked \subseteq 1 .. last
    /\ OneHolder
    /\ \A c \in Consumer :
         /\ rest[c] \cup alerts[c] \subseteq batch[c]
         /\ pc[c] \in {"idle", "down"} => batch[c] = {}
         /\ pc[c] \in {"write", "publish"} => rest[c] = {}
         /\ pc[c] = "parse" => alerts[c] = {}
    /\ \A c, d \in Consumer :        \* a container dies as a whole
         Home[c] = Home[d] /\ pc[c] = "down" => pc[d] = "down"

(* An entry that could be acknowledged without losing its record.          *)
Accounted(m) ==
    \/ \E why \in Reason : <<why, m>> \in dlq
    \/ \E n \in written : n >= m /\ raw[n].key = raw[m].key

(* How far a batch has come on the way to being accounted for.             *)
BatchAccounting(c) ==
    /\ \A m \in batch[c] : raw[m].bad =>
         \/ pc[c] = "parse" /\ m \in rest[c]
         \/ <<"parse_error", m>> \in dlq
    /\ pc[c] = "deadletter" =>
         \A m \in batch[c] \ rest[c] : <<"lake_write_error", m>> \in dlq
    /\ pc[c] = "publish" =>
         /\ \A m \in batch[c] : Accounted(m)
         /\ \A m \in alerts[c] :
              m \in alertRows \/ <<"lake_write_error", m>> \in dlq

Accounting ==
    /\ written \cup alertRows \subseteq 1 .. last
    /\ \A c \in Consumer : BatchAccounting(c)
    /\ AckedIsAccounted
    /\ PublishedAlertIsBacked

Sent == {alertStream[i] : i \in DOMAIN alertStream}

(* Which alerts of a batch are stored and which are sent.                  *)
BatchAlerts(c) ==
    /\ alerts[c] \cap Sent = {}
    /\ pc[c] \in {"parse", "write"} => batch[c] \cap (alertRows \cup Sent) = {}
    /\ alertRows \cap batch[c] \subseteq alerts[c] \cup Sent

Alerting ==
    /\ Sent \cup alertRows \subseteq pending \cup acked
    /\ \A c \in Consumer : BatchAlerts(c)
    /\ StoredAlertIsPublishedOnce

(* A batch not yet written has none of its rows in the lake.               *)
Unwritten(c) == pc[c] \in {"parse", "write"} => batch[c] \cap written = {}

Versioning ==
    /\ written \subseteq pending \cup acked
    /\ \A c \in Consumer : Unwritten(c)
    /\ VersionCountsWrites
----------------------------------------------------------------------------

(* The entries a read returns are in the stream and were not delivered.    *)
LEMMA ReadInterval ==
    ASSUME TypeOK, Oldest <= Len(raw)
    PROVE  /\ Oldest \in Nat /\ Newest \in Nat
           /\ last < Oldest /\ Oldest <= Newest /\ Newest <= Len(raw)
           /\ Oldest .. Newest \subseteq Msg
BY ProcessingAssumption DEF TypeOK, Oldest, Newest, Msg

----------------------------------------------------------------------------
LEMMA TypeInit == Init => TypeOK
BY ProcessingAssumption DEF Init, TypeOK, Phase, Finding, Msg, Reason

(* Only WriteLake touches the lake.                                        *)
LEMMA TypeWriteLake ==
    ASSUME TypeOK, NEW c \in Consumer, WriteLake(c)
    PROVE  /\ findings' \in [Key -> Finding]
           /\ written' \in SUBSET Msg /\ alertRows' \in SUBSET Msg
<1>1. Rows(batch[c]) \subseteq Msg
  BY DEF TypeOK, Rows
<1>2. ASSUME NEW k \in Key, RowsOf(batch[c], k) # {}
      PROVE  [msg |-> CHOOSE m \in RowsOf(batch[c], k) : TRUE,
              version |-> findings[k].version + 1] \in Finding
  <2>1. findings[k] \in Finding
    BY DEF TypeOK
  <2>2. (CHOOSE m \in RowsOf(batch[c], k) : TRUE) \in RowsOf(batch[c], k)
    BY <1>2
  <2>3. RowsOf(batch[c], k) \subseteq 0 .. MaxMsgs
    BY <1>1, ProcessingAssumption DEF RowsOf, Msg
  <2> QED BY <2>1, <2>2, <2>3 DEF Finding
<1> QED BY <1>1, <1>2 DEF WriteLake, TypeOK

LEMMA TypeStep == TypeOK /\ [Next]_vars => TypeOK'
<1> SUFFICES ASSUME TypeOK, [Next]_vars PROVE TypeOK'
  OBVIOUS
<1> USE ProcessingAssumption
<1>1. ASSUME NEW r \in Record, PublishRaw(r) PROVE TypeOK'
  <2>1. raw' \in Seq(Record) /\ Len(raw') = Len(raw) + 1 /\ Len(raw') <= MaxMsgs
    BY <1>1 DEF TypeOK, PublishRaw
  <2>2. first' \in Nat \ {0} /\ last' \in 0 .. Len(raw')
    BY <1>1, <2>1 DEF TypeOK, PublishRaw
  <2> QED BY <1>1, <2>1, <2>2 DEF TypeOK, PublishRaw, locals, lake
<1>2. ASSUME NEW c \in Consumer, Read(c) PROVE TypeOK'
  BY <1>2, ReadInterval DEF TypeOK, Read, Phase, lake
<1>3. ASSUME NEW c \in Consumer, DeadLetterUnparsed(c) PROVE TypeOK'
  BY <1>3 DEF TypeOK, DeadLetterUnparsed, Reason, stream, lake
<1>4. ASSUME NEW c \in Consumer, Evaluate(c) PROVE TypeOK'
  BY <1>4 DEF TypeOK, Evaluate, Rows, Phase, stream, lake
<1>5. ASSUME NEW c \in Consumer, Commit(c) PROVE TypeOK'
  BY <1>5, TypeWriteLake DEF TypeOK, Commit, Phase, stream
<1>6. ASSUME NEW c \in Consumer, CommitFails(c) PROVE TypeOK'
  BY <1>6, TypeWriteLake DEF TypeOK, CommitFails, Phase, stream, lake
<1>7. ASSUME NEW c \in Consumer, DeadLetterEntry(c) PROVE TypeOK'
  BY <1>7 DEF TypeOK, DeadLetterEntry, Reason, Phase, stream, lake
<1>8. ASSUME NEW c \in Consumer, PublishAlert(c) PROVE TypeOK'
  BY <1>8 DEF TypeOK, PublishAlert, stream, lake
<1>9. ASSUME NEW c \in Consumer, Ack(c) PROVE TypeOK'
  BY <1>9 DEF TypeOK, Ack, Phase, lake
<1>10. ASSUME NEW r \in Replica, Crash(r) PROVE TypeOK'
  BY <1>10 DEF TypeOK, Crash, Phase, stream, lake
<1>11. ASSUME NEW r \in Replica, Restart(r) PROVE TypeOK'
  BY <1>11 DEF TypeOK, Restart, Phase, stream, lake
<1>12. CASE UNCHANGED vars
  BY <1>12 DEF TypeOK, vars, stream, locals, lake
<1> QED
  BY <1>1, <1>2, <1>3, <1>4, <1>5, <1>6, <1>7, <1>8, <1>9, <1>10, <1>11, <1>12
  DEF Next, Step

(* Every state of the processing service is well typed.                    *)
THEOREM Typing == Spec => []TypeOK
BY TypeInit, TypeStep, PTL DEF Spec
----------------------------------------------------------------------------
LEMMA HoldingInit == Init => Holding
BY DEF Init, Holding, OneHolder

LEMMA HoldingStep == TypeOK /\ Holding /\ [Next]_vars => Holding'
<1> SUFFICES ASSUME TypeOK, Holding, [Next]_vars PROVE Holding'
  OBVIOUS
<1> USE DEF Holding, OneHolder
<1>1. ASSUME NEW r \in Record, PublishRaw(r) PROVE Holding'
  BY <1>1 DEF PublishRaw, locals
<1>2. ASSUME NEW c \in Consumer, Read(c) PROVE Holding'
  <2> DEFINE fresh == Oldest .. Newest
  <2>1. last < Oldest /\ Oldest <= Newest /\ Oldest \in Nat /\ Newest \in Nat
    BY <1>2, ReadInterval DEF Read
  <2>2. fresh \cap (pending \cup acked) = {}
    BY <2>1 DEF TypeOK
  <2>3. (pending \cup acked)' \subseteq 1 .. last'
    BY <1>2, <2>1 DEF Read, TypeOK
  <2>4. /\ pending' = pending \cup fresh /\ acked' = acked
        /\ batch' = [batch EXCEPT ![c] = fresh] /\ rest' = [rest EXCEPT ![c] = fresh]
        /\ pc[c] = "idle" /\ pc' = [pc EXCEPT ![c] = "parse"] /\ alerts' = alerts
    BY <1>2 DEF Read
  <2> HIDE DEF fresh
  <2> QED BY <2>2, <2>3, <2>4 DEF TypeOK
<1>3. ASSUME NEW c \in Consumer, DeadLetterUnparsed(c) PROVE Holding'
  BY <1>3 DEF TypeOK, DeadLetterUnparsed, stream
<1>4. ASSUME NEW c \in Consumer, Evaluate(c) PROVE Holding'
  BY <1>4 DEF TypeOK, Evaluate, Rows, stream
<1>5. ASSUME NEW c \in Consumer, Commit(c) PROVE Holding'
  BY <1>5 DEF TypeOK, Commit, stream
<1>6. ASSUME NEW c \in Consumer, CommitFails(c) PROVE Holding'
  BY <1>6 DEF TypeOK, CommitFails, stream
<1>7. ASSUME NEW c \in Consumer, DeadLetterEntry(c) PROVE Holding'
  BY <1>7 DEF TypeOK, DeadLetterEntry, stream
<1>8. ASSUME NEW c \in Consumer, PublishAlert(c) PROVE Holding'
  BY <1>8 DEF TypeOK, PublishAlert, stream
<1>9. ASSUME NEW c \in Consumer, Ack(c) PROVE Holding'
  BY <1>9 DEF TypeOK, Ack
<1>10. ASSUME NEW r \in Replica, Crash(r) PROVE Holding'
  BY <1>10 DEF TypeOK, Crash, stream
<1>11. ASSUME NEW r \in Replica, Restart(r) PROVE Holding'
  BY <1>11 DEF TypeOK, Restart, stream
<1>12. CASE UNCHANGED vars
  BY <1>12 DEF vars, stream, locals
<1> QED
  BY <1>1, <1>2, <1>3, <1>4, <1>5, <1>6, <1>7, <1>8, <1>9, <1>10, <1>11, <1>12
  DEF Next, Step

(* However consumers, crashes and restarts interleave, no entry is ever in *)
(* two consumers' hands, nor worked on after it was acknowledged.          *)
THEOREM SingleHolder == Spec => []OneHolder
<1>1. Spec => []Holding
  BY Typing, HoldingInit, HoldingStep, PTL DEF Spec
<1>2. Holding => OneHolder
  BY DEF Holding
<1> QED BY <1>1, <1>2, PTL
----------------------------------------------------------------------------
(* Deduplication keeps a row for every record that parsed: the newest of   *)
(* its finding, at or after it.                                            *)
LEMMA RowCovers ==
    ASSUME NEW B \in SUBSET Msg, NEW m \in B, ~raw[m].bad
    PROVE  \E n \in Rows(B) : n >= m /\ raw[n].key = raw[m].key
<1> DEFINE S == {n \in B : n >= m /\ ~raw[n].bad /\ raw[n].key = raw[m].key}
           T == {MaxMsgs - n : n \in S}
<1>0. S \subseteq Msg
  OBVIOUS
<1>1. S \subseteq Nat /\ \A n \in S : n <= MaxMsgs
  <2> HIDE DEF S
  <2> QED BY <1>0, ProcessingAssumption DEF Msg
<1>2. T \subseteq Nat /\ T # {}
  <2>1. m \in S
    BY DEF Msg
  <2> QED BY <2>1, <1>1, ProcessingAssumption
<1>3. PICK x \in T : \A y \in T : ~(<<y, x>> \in OpToRel(<, Nat))
  BY <1>2, NatLessThanWellFounded, WFMin, Zenon
<1>4. PICK n \in S : x = MaxMsgs - n
  OBVIOUS
<1>5. ASSUME NEW p \in S PROVE p <= n
  <2>1. MaxMsgs - p \in T
    OBVIOUS
  <2>2. <<MaxMsgs - p, x>> \in Nat \X Nat
    BY <2>1, <1>2
  <2>3. ~(MaxMsgs - p < x)
    BY <2>1, <2>2, <1>3 DEF OpToRel
  <2> QED BY <2>3, <1>4, <1>1, ProcessingAssumption
<1>6. n \in Rows(B)
  <2> SUFFICES ASSUME NEW p \in B, p > n, ~raw[p].bad, raw[p].key = raw[n].key
               PROVE  FALSE
    BY DEF Rows
  <2>0. n >= m
    BY Zenon
  <2>a. n \in Int /\ p \in Int /\ m \in Int
    <3>1. n \in Msg /\ p \in Msg /\ m \in Msg
      BY <1>0, Zenon
    <3> QED BY <3>1 DEF Msg
  <2>1. p >= m
    <3> HIDE DEF S
    <3> QED BY <2>0, <2>a
  <2>2. p \in S
    BY <2>1
  <2> QED BY <2>2, <1>5, <1>1
<1> QED BY <1>6, <1>4

(* What is accounted for stays accounted for, since the dead-letter stream *)
(* and the lake only grow and a stream entry never changes.                *)
LEMMA AccountedStays ==
    ASSUME dlq \subseteq dlq', written \subseteq written',
           \A n \in 1 .. Len(raw) : raw'[n] = raw[n],
           written \subseteq 1 .. Len(raw),
           NEW m \in 1 .. Len(raw), Accounted(m)
    PROVE  Accounted(m)'
BY DEF Accounted

LEMMA AccountingInit == Init => Accounting
BY DEF Init, Accounting, BatchAccounting, AckedIsAccounted, PublishedAlertIsBacked

(* Steps of a consumer leave the stream itself alone, so that one argument *)
(* serves the batches of all the others.                                   *)
LEMMA OtherBatches ==
    ASSUME TypeOK, Holding, Accounting, NEW d \in Consumer,
           dlq \subseteq dlq', written \subseteq written', alertRows \subseteq alertRows',
           \A n \in 1 .. Len(raw) : raw'[n] = raw[n],
           pc'[d] = pc[d], batch'[d] = batch[d], rest'[d] = rest[d],
           alerts'[d] \subseteq alerts[d]
    PROVE  BatchAccounting(d)'
<1>1. batch[d] \subseteq 1 .. Len(raw) /\ written \subseteq 1 .. Len(raw)
  BY DEF Holding, OneHolder, Accounting, TypeOK
<1>2. \A m \in batch[d] : Accounted(m) => Accounted(m)'
  BY <1>1, AccountedStays
<1>3. BatchAccounting(d)
  BY DEF Accounting
<1> QED BY <1>1, <1>2, <1>3 DEF BatchAccounting

LEMMA AccountingStep ==
    TypeOK /\ Holding /\ Accounting /\ [Next]_vars => Accounting'
<1> SUFFICES ASSUME TypeOK, Holding, Accounting, [Next]_vars PROVE Accounting'
  OBVIOUS
<1>a. /\ pending \cup acked \subseteq 1 .. Len(raw)
      /\ \A c \in Consumer : batch[c] \subseteq pending
      /\ written \cup alertRows \subseteq 1 .. last
      /\ last <= Len(raw) /\ last \in Nat
  BY DEF Holding, OneHolder, Accounting, TypeOK
<1>b. \A c \in Consumer : BatchAccounting(c)
  BY DEF Accounting
<1>c. AckedIsAccounted <=> \A m \in acked : Accounted(m)
  BY DEF AckedIsAccounted, Accounted
<1>d. AckedIsAccounted' <=> \A m \in acked' : Accounted(m)'
  BY DEF AckedIsAccounted, Accounted
<1>e. ASSUME dlq \subseteq dlq', written \subseteq written', acked' = acked,
             \A n \in 1 .. Len(raw) : raw'[n] = raw[n]
      PROVE  AckedIsAccounted'
  BY <1>a, <1>c, <1>d, <1>e, AccountedStays DEF Accounting
<1>f. ASSUME dlq \subseteq dlq', alertRows \subseteq alertRows', alertStream' = alertStream
      PROVE  PublishedAlertIsBacked'
  BY <1>f DEF Accounting, PublishedAlertIsBacked
<1>1. ASSUME NEW r \in Record, PublishRaw(r) PROVE Accounting'
  <2>1. \A n \in 1 .. Len(raw) : raw'[n] = raw[n]
    BY <1>1 DEF PublishRaw, TypeOK
  <2>2. UNCHANGED <<last, pending, acked, locals, lake, alertStream, dlq>>
    BY <1>1 DEF PublishRaw
  <2>3. \A c \in Consumer : BatchAccounting(c)'
    BY <2>1, <2>2, OtherBatches DEF locals, lake
  <2> QED BY <2>1, <2>2, <2>3, <1>e, <1>f DEF Accounting, locals, lake
<1>2. ASSUME NEW c \in Consumer, Read(c) PROVE Accounting'
  <2>1. UNCHANGED <<raw, acked, lake, alertStream, dlq>> /\ last <= last'
    BY <1>2, ReadInterval, <1>a DEF Read
  <2>2. BatchAccounting(c)'
    BY <1>2 DEF Read, BatchAccounting, TypeOK
  <2>3. \A d \in Consumer \ {c} : BatchAccounting(d)'
    BY <1>2, OtherBatches DEF Read, lake, TypeOK
  <2>4. (written \cup alertRows)' \subseteq 1 .. last'
    BY <1>2, <2>1, <1>a, ReadInterval DEF Read, lake
  <2> QED BY <2>1, <2>2, <2>3, <2>4, <1>e, <1>f DEF Accounting, lake
<1>3. ASSUME NEW c \in Consumer, DeadLetterUnparsed(c) PROVE Accounting'
  <2>1. UNCHANGED <<stream, lake, alertStream>> /\ dlq \subseteq dlq'
    BY <1>3 DEF DeadLetterUnparsed
  <2>2. BatchAccounting(c)'
    <3>1. PICK m \in rest[c] :
            /\ raw[m].bad /\ \A n \in rest[c] : n < m => ~raw[n].bad
            /\ dlq' = dlq \cup {<<"parse_error", m>>}
            /\ rest' = [rest EXCEPT ![c] = {n \in @ : n > m}]
      BY <1>3 DEF DeadLetterUnparsed
    <3>2. pc[c] = "parse" /\ UNCHANGED <<raw, pc, batch>>
      BY <1>3 DEF DeadLetterUnparsed, stream
    <3>3. rest[c] \subseteq Msg /\ rest'[c] = {n \in rest[c] : n > m}
      BY <3>1 DEF TypeOK
    <3>4. \A n \in rest[c] : raw[n].bad => n = m \/ n \in rest'[c]
      BY <3>1, <3>3 DEF Msg
    <3> QED BY <1>b, <3>1, <3>2, <3>4 DEF BatchAccounting
  <2>3. \A d \in Consumer \ {c} : BatchAccounting(d)'
    BY <1>3, <2>1, OtherBatches DEF DeadLetterUnparsed, stream, lake, TypeOK
  <2> QED BY <2>1, <2>2, <2>3, <1>a, <1>e, <1>f DEF Accounting, stream, lake
<1>4. ASSUME NEW c \in Consumer, Evaluate(c) PROVE Accounting'
  <2>1. UNCHANGED <<stream, batch, lake, alertStream, dlq>>
    BY <1>4 DEF Evaluate
  <2>2. BatchAccounting(c)'
    <3>1. \A m \in batch[c] : raw[m].bad => <<"parse_error", m>> \in dlq
      BY <1>4, <1>b DEF Evaluate, BatchAccounting
    <3>2. CASE Rows(batch[c]) = {}
      <4>1. \A m \in batch[c] : raw[m].bad
        BY <3>2, RowCovers DEF TypeOK
      <4>2. alerts'[c] = {}
        BY <1>4, <3>2 DEF Evaluate, TypeOK
      <4>3. \A m \in batch[c] : Accounted(m)'
        BY <3>1, <4>1, <2>1 DEF Accounted, Reason
      <4> QED BY <1>4, <3>1, <3>2, <4>2, <4>3, <2>1 DEF Evaluate, BatchAccounting, TypeOK, stream
    <3>3. CASE Rows(batch[c]) # {}
      BY <1>4, <3>1, <3>3, <2>1 DEF Evaluate, BatchAccounting, TypeOK, stream
    <3> QED BY <3>2, <3>3
  <2>3. \A d \in Consumer \ {c} : BatchAccounting(d)'
    BY <1>4, <2>1, OtherBatches DEF Evaluate, stream, lake, TypeOK
  <2> QED BY <2>1, <2>2, <2>3, <1>a, <1>e, <1>f DEF Accounting, stream, lake
<1>5. ASSUME NEW c \in Consumer, pc[c] = "write", WriteLake(c)
      PROVE  /\ written \subseteq written' /\ alertRows \subseteq alertRows'
             /\ written' = written \cup Rows(batch[c])
             /\ alertRows' = alertRows \cup alerts[c]
             /\ (written \cup alertRows)' \subseteq 1 .. last
  BY <1>5 DEF WriteLake, Rows, Holding, OneHolder, Accounting
<1>6. ASSUME NEW c \in Consumer, Commit(c) PROVE Accounting'
  <2>1. UNCHANGED <<stream, batch, rest, alerts, alertStream, dlq>>
        /\ pc[c] = "write" /\ WriteLake(c) /\ pc'[c] = "publish"
    BY <1>6 DEF Commit, TypeOK
  <2>2. BatchAccounting(c)'
    <3>1. \A m \in batch[c] : raw[m].bad => <<"parse_error", m>> \in dlq
      BY <2>1, <1>b DEF BatchAccounting
    <3>2. ASSUME NEW m \in batch[c] PROVE Accounted(m)'
      <4>1. CASE raw[m].bad
        BY <3>1, <4>1, <2>1 DEF Accounted, Reason
      <4>2. CASE ~raw[m].bad
        <5>1. PICK n \in Rows(batch[c]) : n >= m /\ raw[n].key = raw[m].key
          BY <4>2, RowCovers DEF TypeOK
        <5>2. n \in written' /\ raw' = raw
          BY <2>1, <1>5 DEF stream
        <5> QED BY <5>1, <5>2 DEF Accounted
      <4> QED BY <4>1, <4>2
    <3>3. \A a \in alerts'[c] : a \in alertRows'
      BY <2>1, <1>5
    <3> QED BY <2>1, <3>1, <3>2, <3>3 DEF BatchAccounting, stream
  <2>3. \A d \in Consumer \ {c} : BatchAccounting(d)'
    BY <1>6, <2>1, <1>5, OtherBatches DEF Commit, stream, TypeOK
  <2> QED BY <2>1, <2>2, <2>3, <1>5, <1>e, <1>f DEF Accounting, stream
<1>7. ASSUME NEW c \in Consumer, CommitFails(c) PROVE Accounting'
  <2>1. UNCHANGED <<stream, batch, alerts, alertStream, dlq>>
        /\ pc[c] = "write" /\ pc'[c] = "deadletter" /\ rest'[c] = batch[c]
    BY <1>7 DEF CommitFails, TypeOK
  <2>2. written \subseteq written' /\ alertRows \subseteq alertRows'
        /\ (written \cup alertRows)' \subseteq 1 .. last
    BY <1>7, <2>1, <1>5, <1>a DEF CommitFails, lake
  <2>3. BatchAccounting(c)'
    BY <2>1, <1>b DEF BatchAccounting, stream
  <2>4. \A d \in Consumer \ {c} : BatchAccounting(d)'
    BY <1>7, <2>1, <2>2, OtherBatches DEF CommitFails, stream, TypeOK
  <2> QED BY <2>1, <2>2, <2>3, <2>4, <1>e, <1>f DEF Accounting, stream
<1>8. ASSUME NEW c \in Consumer, DeadLetterEntry(c) PROVE Accounting'
  <2>1. UNCHANGED <<stream, batch, alerts, lake, alertStream>> /\ dlq \subseteq dlq'
        /\ pc[c] = "deadletter"
    BY <1>8 DEF DeadLetterEntry
  <2>2. BatchAccounting(c)'
    <3>1. PICK m \in rest[c] :
            /\ dlq' = dlq \cup {<<"lake_write_error", m>>}
            /\ rest' = [rest EXCEPT ![c] = @ \ {m}]
            /\ pc' = [pc EXCEPT ![c] = IF rest[c] = {m} THEN "publish" ELSE @]
      BY <1>8 DEF DeadLetterEntry
    <3>2. rest'[c] = rest[c] \ {m}
          /\ pc'[c] = IF rest[c] = {m} THEN "publish" ELSE "deadletter"
      BY <3>1, <2>1 DEF TypeOK
    <3>3. \A n \in batch[c] \ rest'[c] : <<"lake_write_error", n>> \in dlq'
      BY <2>1, <3>1, <3>2, <1>b DEF BatchAccounting
    <3>4. \A n \in batch[c] : raw[n].bad => <<"parse_error", n>> \in dlq'
      BY <2>1, <1>b DEF BatchAccounting
    <3>5. CASE rest[c] = {m}
      <4>1. \A n \in batch[c] : <<"lake_write_error", n>> \in dlq'
        BY <3>2, <3>3, <3>5
      <4>2. \A n \in batch[c] : Accounted(n)'
        BY <4>1 DEF Accounted, Reason
      <4> QED
        BY <2>1, <3>2, <3>4, <3>5, <4>1, <4>2 DEF BatchAccounting, Holding, stream
    <3>6. CASE rest[c] # {m}
      BY <2>1, <3>2, <3>3, <3>4, <3>6 DEF BatchAccounting, stream
    <3> QED BY <3>5, <3>6
  <2>3. \A d \in Consumer \ {c} : BatchAccounting(d)'
    BY <1>8, <2>1, OtherBatches DEF DeadLetterEntry, stream, lake, TypeOK
  <2> QED BY <2>1, <2>2, <2>3, <1>a, <1>e, <1>f DEF Accounting, stream, lake
<1>9. ASSUME NEW c \in Consumer, PublishAlert(c) PROVE Accounting'
  <2>1. UNCHANGED <<stream, pc, batch, rest, lake, dlq>> /\ pc[c] = "publish"
    BY <1>9 DEF PublishAlert
  <2>2. PICK a \in alerts[c] : /\ alertStream' = Append(alertStream, a)
                               /\ alerts' = [alerts EXCEPT ![c] = @ \ {a}]
    BY <1>9 DEF PublishAlert
  <2>3. \A d \in Consumer : BatchAccounting(d)'
    BY <2>1, <2>2, OtherBatches DEF stream, lake, TypeOK
  <2>4. a \in alertRows \/ <<"lake_write_error", a>> \in dlq
    BY <2>1, <2>2, <1>b DEF BatchAccounting
  <2>5. PublishedAlertIsBacked'
    <3>1. \A i \in DOMAIN alertStream' :
            alertStream'[i] = a \/ (i \in DOMAIN alertStream /\ alertStream'[i] = alertStream[i])
      BY <2>2 DEF TypeOK
    <3> QED BY <3>1, <2>1, <2>4 DEF PublishedAlertIsBacked, Accounting, lake
  <2> QED BY <2>1, <2>3, <2>5, <1>a, <1>e DEF Accounting, stream, lake
<1>10. ASSUME NEW c \in Consumer, Ack(c) PROVE Accounting'
  <2>1. UNCHANGED <<raw, first, last, rest, alerts, lake, alertStream, dlq>>
        /\ acked' = acked \cup batch[c] /\ pc[c] = "publish"
    BY <1>10 DEF Ack
  <2>2. \A m \in acked' : Accounted(m)
    BY <2>1, <1>b, <1>c DEF BatchAccounting, Accounting
  <2>3. AckedIsAccounted'
    BY <2>1, <2>2, <1>d DEF Accounted, lake
  <2>4. BatchAccounting(c)'
    BY <1>10 DEF Ack, BatchAccounting, TypeOK
  <2>5. \A d \in Consumer \ {c} : BatchAccounting(d)'
    BY <1>10, <2>1, OtherBatches DEF Ack, lake, TypeOK
  <2> QED BY <2>1, <2>3, <2>4, <2>5, <1>a, <1>f DEF Accounting, lake
<1>11. ASSUME NEW r \in Replica, Crash(r) PROVE Accounting'
  <2>1. UNCHANGED <<stream, lake, alertStream, dlq>>
    BY <1>11 DEF Crash
  <2>2. ASSUME NEW d \in Consumer, Home[d] = r PROVE BatchAccounting(d)'
    BY <1>11, <2>2 DEF Crash, BatchAccounting
  <2>3. ASSUME NEW d \in Consumer, Home[d] # r PROVE BatchAccounting(d)'
    BY <1>11, <2>1, <2>3, OtherBatches DEF Crash, stream, lake
  <2> QED BY <2>1, <2>2, <2>3, <1>a, <1>e, <1>f DEF Accounting, stream, lake
<1>12. ASSUME NEW r \in Replica, Restart(r) PROVE Accounting'
  <2>1. UNCHANGED <<stream, batch, rest, alerts, lake, alertStream, dlq>>
    BY <1>12 DEF Restart
  <2>2. ASSUME NEW d \in Consumer, Home[d] = r PROVE BatchAccounting(d)'
    <3>1. batch'[d] = {} /\ alerts'[d] = {} /\ pc'[d] = "idle"
      BY <1>12, <2>2 DEF Restart, Holding
    <3> QED BY <3>1 DEF BatchAccounting
  <2>3. ASSUME NEW d \in Consumer, Home[d] # r PROVE BatchAccounting(d)'
    BY <1>12, <2>1, <2>3, OtherBatches DEF Restart, stream, lake
  <2> QED BY <2>1, <2>2, <2>3, <1>a, <1>e, <1>f DEF Accounting, stream, lake
<1>13. CASE UNCHANGED vars
  <2>1. UNCHANGED <<stream, locals, lake, alertStream, dlq>>
    BY <1>13 DEF vars
  <2>2. \A d \in Consumer : BatchAccounting(d)'
    BY <2>1, OtherBatches DEF stream, locals, lake
  <2> QED BY <2>1, <2>2, <1>a, <1>e, <1>f DEF Accounting, stream, lake
<1> QED
  BY <1>1, <1>2, <1>3, <1>4, <1>6, <1>7, <1>8, <1>9, <1>10, <1>11, <1>12, <1>13
  DEF Next, Step

(* No acknowledged record is lost: it is in the dead-letter stream, or the *)
(* lake was written from it or from a newer record of its finding.         *)
THEOREM NothingAckedIsLost == Spec => []AckedIsAccounted
<1>1. Spec => []Accounting
  BY Typing, HoldingInit, HoldingStep, AccountingInit, AccountingStep, PTL DEF Spec
<1>2. Accounting => AckedIsAccounted
  BY DEF Accounting
<1> QED BY <1>1, <1>2, PTL

(* Every alert on the alert stream has its row, unless its batch was       *)
(* dead-lettered.                                                          *)
THEOREM PublishedAlertsAreBacked == Spec => []PublishedAlertIsBacked
<1>1. Spec => []Accounting
  BY Typing, HoldingInit, HoldingStep, AccountingInit, AccountingStep, PTL DEF Spec
<1>2. Accounting => PublishedAlertIsBacked
  BY DEF Accounting
<1> QED BY <1>1, <1>2, PTL
----------------------------------------------------------------------------
LEMMA AlertingInit == Init => Alerting
BY DEF Init, Alerting, BatchAlerts, Sent, StoredAlertIsPublishedOnce

(* A consumer's alerts are untouched by what others send and store.        *)
LEMMA OtherAlerts ==
    ASSUME Holding, Alerting, NEW d \in Consumer,
           pc'[d] = pc[d], batch'[d] = batch[d], alerts'[d] = alerts[d],
           Sent \subseteq Sent', Sent' \cap batch[d] \subseteq Sent,
           alertRows' \cap batch[d] \subseteq alertRows
    PROVE  BatchAlerts(d)'
BY DEF BatchAlerts, Holding, Alerting

LEMMA AlertingStep ==
    TypeOK /\ Holding /\ Alerting /\ [Next]_vars => Alerting'
<1> SUFFICES ASSUME TypeOK, Holding, Alerting, [Next]_vars PROVE Alerting'
  OBVIOUS
<1>a. \A c \in Consumer : BatchAlerts(c)
  BY DEF Alerting
<1>b. /\ Sent \cup alertRows \subseteq pending \cup acked
      /\ pending \cap acked = {}
      /\ \A c \in Consumer : batch[c] \subseteq pending /\ alerts[c] \subseteq batch[c]
      /\ \A c, d \in Consumer : c # d => batch[c] \cap batch[d] = {}
  BY DEF Alerting, Holding, OneHolder
<1>c. StoredAlertIsPublishedOnce
  BY DEF Alerting
<1>d. (\A m \in alertRows \cap acked : m \in Sent)
      /\ \A i, j \in DOMAIN alertStream : alertStream[i] = alertStream[j] => i = j
  BY <1>c DEF StoredAlertIsPublishedOnce, Sent
<1>e. (\A m \in alertRows' \cap acked' : m \in Sent')
      /\ (\A i, j \in DOMAIN alertStream' : alertStream'[i] = alertStream'[j] => i = j)
      => StoredAlertIsPublishedOnce'
  BY DEF StoredAlertIsPublishedOnce, Sent
<1>f. alertStream' = alertStream => Sent' = Sent
  BY DEF Sent
<1>1. ASSUME NEW r \in Record, PublishRaw(r) PROVE Alerting'
  BY <1>1, <1>a, <1>b, <1>d, <1>e, <1>f DEF PublishRaw, Alerting, BatchAlerts, locals, lake
<1>2. ASSUME NEW c \in Consumer, Read(c) PROVE Alerting'
  <2>1. UNCHANGED <<acked, alerts, alertRows, alertStream>> /\ Sent' = Sent
        /\ pending \subseteq pending' /\ batch'[c] = Oldest .. Newest
    BY <1>2, <1>f DEF Read, lake, TypeOK
  <2>2. alerts[c] = {}
    BY <1>2 DEF Read, Holding
  <2>3. batch'[c] \cap (Sent \cup alertRows) = {}
    <3>1. last < Oldest /\ Oldest \in Nat /\ Newest \in Nat /\ last \in Nat
      BY <1>2, ReadInterval DEF Read, TypeOK
    <3>2. pending \cup acked \subseteq 1 .. last
      BY DEF Holding
    <3> QED BY <1>b, <2>1, <3>1, <3>2
  <2>4. BatchAlerts(c)'
    BY <2>1, <2>2, <2>3 DEF BatchAlerts
  <2>5. \A d \in Consumer \ {c} : BatchAlerts(d)'
    BY <1>2, <2>1, OtherAlerts DEF Read, TypeOK
  <2> QED BY <2>1, <2>4, <2>5, <1>b, <1>d, <1>e DEF Alerting
<1>3. ASSUME NEW c \in Consumer, DeadLetterUnparsed(c) PROVE Alerting'
  BY <1>3, <1>a, <1>b, <1>d, <1>e, <1>f
  DEF DeadLetterUnparsed, Alerting, BatchAlerts, stream, lake
<1>4. ASSUME NEW c \in Consumer, Evaluate(c) PROVE Alerting'
  <2>1. UNCHANGED <<pending, acked, batch, alertRows, alertStream>> /\ Sent' = Sent
        /\ pc[c] = "parse" /\ alerts'[c] \subseteq batch[c]
    BY <1>4, <1>f DEF Evaluate, Rows, stream, lake, TypeOK
  <2>2. BatchAlerts(c)'
    BY <2>1, <1>a DEF BatchAlerts
  <2>3. \A d \in Consumer \ {c} : BatchAlerts(d)'
    BY <1>4, <2>1, OtherAlerts DEF Evaluate, TypeOK
  <2> QED BY <2>1, <2>2, <2>3, <1>b, <1>d, <1>e DEF Alerting
<1>5. ASSUME NEW c \in Consumer, Commit(c) \/ CommitFails(c) PROVE Alerting'
  <2>1. UNCHANGED <<pending, acked, batch, alerts, alertStream>> /\ Sent' = Sent
        /\ pc[c] = "write" /\ pc'[c] \notin {"parse", "write"}
        /\ alertRows \subseteq alertRows' /\ alertRows' \subseteq alertRows \cup alerts[c]
    BY <1>5, <1>f DEF Commit, CommitFails, WriteLake, stream, lake, TypeOK
  <2>2. BatchAlerts(c)'
    BY <2>1, <1>a DEF BatchAlerts
  <2>3. ASSUME NEW d \in Consumer \ {c} PROVE BatchAlerts(d)'
    <3>1. pc'[d] = pc[d]
      BY <1>5 DEF Commit, CommitFails, TypeOK
    <3>2. alertRows' \cap batch[d] \subseteq alertRows
      BY <2>1, <1>b
    <3> QED BY <2>1, <3>1, <3>2, OtherAlerts
  <2>4. \A m \in alertRows' \cap acked : m \in Sent
    BY <2>1, <1>b, <1>d
  <2> QED BY <2>1, <2>2, <2>3, <2>4, <1>b, <1>d, <1>e DEF Alerting
<1>6. ASSUME NEW c \in Consumer, DeadLetterEntry(c) PROVE Alerting'
  <2>1. UNCHANGED <<pending, acked, batch, alerts, alertRows, alertStream>> /\ Sent' = Sent
        /\ pc'[c] \notin {"parse", "write"}
    BY <1>6, <1>f DEF DeadLetterEntry, stream, lake, TypeOK
  <2>2. BatchAlerts(c)'
    BY <2>1, <1>a DEF BatchAlerts
  <2>3. \A d \in Consumer \ {c} : BatchAlerts(d)'
    BY <1>6, <2>1, OtherAlerts DEF DeadLetterEntry, TypeOK
  <2> QED BY <2>1, <2>2, <2>3, <1>b, <1>d, <1>e DEF Alerting
<1>7. ASSUME NEW c \in Consumer, PublishAlert(c) PROVE Alerting'
  <2>1. UNCHANGED <<pending, acked, pc, batch, alertRows>> /\ pc[c] = "publish"
    BY <1>7 DEF PublishAlert, stream, lake
  <2>2. PICK a \in alerts[c] : /\ alertStream' = Append(alertStream, a)
                               /\ alerts' = [alerts EXCEPT ![c] = @ \ {a}]
    BY <1>7 DEF PublishAlert
  <2>3. a \in Msg /\ a \in batch[c] /\ a \notin Sent /\ alerts'[c] = alerts[c] \ {a}
    BY <2>2, <1>a, <1>b DEF BatchAlerts, TypeOK
  <2>4. /\ DOMAIN alertStream' = DOMAIN alertStream \cup {Len(alertStream) + 1}
        /\ \A i \in DOMAIN alertStream : alertStream'[i] = alertStream[i]
        /\ alertStream'[Len(alertStream) + 1] = a
    BY <2>2, <2>3 DEF TypeOK
  <2>5. Sent' = Sent \cup {a}
    BY <2>4 DEF Sent
  <2>6. \A i, j \in DOMAIN alertStream' : alertStream'[i] = alertStream'[j] => i = j
    BY <2>3, <2>4, <1>d DEF Sent
  <2>7. BatchAlerts(c)'
    BY <2>1, <2>3, <2>5, <1>a DEF BatchAlerts
  <2>8. ASSUME NEW d \in Consumer \ {c} PROVE BatchAlerts(d)'
    <3>1. alerts'[d] = alerts[d]
      BY <2>2 DEF TypeOK
    <3>2. Sent' \cap batch[d] \subseteq Sent
      BY <2>3, <2>5, <1>b
    <3> QED BY <2>1, <2>5, <3>1, <3>2, OtherAlerts
  <2> QED BY <2>1, <2>3, <2>5, <2>6, <2>7, <2>8, <1>b, <1>d, <1>e DEF Alerting
<1>8. ASSUME NEW c \in Consumer, Ack(c) PROVE Alerting'
  <2>1. UNCHANGED <<alerts, alertRows, alertStream>> /\ Sent' = Sent /\ alerts[c] = {}
        /\ acked' = acked \cup batch[c] /\ pending' = pending \ batch[c]
        /\ batch'[c] = {}
    BY <1>8, <1>f DEF Ack, lake, TypeOK
  <2>2. \A m \in alertRows' \cap acked' : m \in Sent'
    BY <2>1, <1>a, <1>d DEF BatchAlerts
  <2>3. BatchAlerts(c)'
    BY <2>1 DEF BatchAlerts
  <2>4. \A d \in Consumer \ {c} : BatchAlerts(d)'
    BY <1>8, <2>1, OtherAlerts DEF Ack, TypeOK
  <2> QED BY <2>1, <2>2, <2>3, <2>4, <1>b, <1>d, <1>e DEF Alerting
<1>9. ASSUME NEW r \in Replica, Crash(r) PROVE Alerting'
  <2>1. UNCHANGED <<pending, acked, alertRows, alertStream>> /\ Sent' = Sent
    BY <1>9, <1>f DEF Crash, stream, lake
  <2>2. \A d \in Consumer : BatchAlerts(d)'
    BY <1>9, <2>1, <1>a DEF Crash, BatchAlerts
  <2> QED BY <2>1, <2>2, <1>b, <1>d, <1>e DEF Alerting
<1>10. ASSUME NEW r \in Replica, Restart(r) PROVE Alerting'
  <2>1. UNCHANGED <<pending, acked, batch, alerts, alertRows, alertStream>> /\ Sent' = Sent
    BY <1>10, <1>f DEF Restart, stream, lake
  <2>2. \A d \in Consumer : pc'[d] = pc[d] \/ batch[d] = {}
    BY <1>10 DEF Restart, Holding
  <2>3. \A d \in Consumer : BatchAlerts(d)'
    BY <2>1, <2>2, <1>a DEF BatchAlerts
  <2> QED BY <2>1, <2>3, <1>b, <1>d, <1>e DEF Alerting
<1>11. CASE UNCHANGED vars
  BY <1>11, <1>a, <1>b, <1>d, <1>e, <1>f
  DEF Alerting, BatchAlerts, vars, stream, locals, lake
<1> QED
  BY <1>1, <1>2, <1>3, <1>4, <1>5, <1>6, <1>7, <1>8, <1>9, <1>10, <1>11
  DEF Next, Step

(* Once its record is acknowledged, a stored alert has been sent, and no   *)
(* alert is ever sent twice.                                               *)
THEOREM StoredAlertsAreSentOnce == Spec => []StoredAlertIsPublishedOnce
<1>1. Spec => []Alerting
  BY Typing, HoldingInit, HoldingStep, AlertingInit, AlertingStep, PTL DEF Spec
<1>2. Alerting => StoredAlertIsPublishedOnce
  BY DEF Alerting
<1> QED BY <1>1, <1>2, PTL
----------------------------------------------------------------------------
(* The entries that were written to finding k.                             *)
WritesTo(k) == {m \in written : raw[m].key = k}

LEMMA VersioningInit == Init => Versioning
BY FS_EmptySet DEF Init, Versioning, Unwritten, VersionCountsWrites

(* Deduplication leaves a batch at most one row per finding, and none of   *)
(* the batch's rows is in the lake yet: a write adds one to the version of *)
(* exactly the findings it adds an entry to.                               *)
LEMMA WriteCounts ==
    ASSUME TypeOK, Versioning, NEW c \in Consumer, WriteLake(c), raw' = raw,
           pc[c] = "write"
    PROVE  VersionCountsWrites'
<1> SUFFICES ASSUME NEW k \in Key
             PROVE  findings'[k].version = Cardinality(WritesTo(k)')
  BY DEF VersionCountsWrites, WritesTo
<1>1. findings[k].version = Cardinality(WritesTo(k)) /\ findings[k] \in Finding
  BY DEF Versioning, VersionCountsWrites, WritesTo, TypeOK
<1>2. WritesTo(k)' = WritesTo(k) \cup RowsOf(batch[c], k)
  BY DEF WriteLake, WritesTo, RowsOf
<1>3. CASE RowsOf(batch[c], k) = {}
  BY <1>1, <1>2, <1>3 DEF WriteLake
<1>4. CASE RowsOf(batch[c], k) # {}
  <2>1. PICK n \in RowsOf(batch[c], k) : TRUE
    BY <1>4
  <2>2. RowsOf(batch[c], k) = {n}
    <3> SUFFICES ASSUME NEW p \in RowsOf(batch[c], k) PROVE p = n
      BY <2>1
    <3>1. n \in Int /\ p \in Int
      BY DEF RowsOf, Rows, TypeOK, Msg
    <3>2. ~(p > n) /\ ~(n > p)
      BY DEF RowsOf, Rows
    <3> QED BY <3>1, <3>2
  <2>3. n \notin WritesTo(k)
    BY <2>1 DEF RowsOf, Rows, Versioning, Unwritten, WritesTo
  <2>4. IsFiniteSet(WritesTo(k))
    <3>1. IsFiniteSet(1 .. MaxMsgs)
      BY FS_Interval, ProcessingAssumption
    <3>2. WritesTo(k) \in SUBSET (1 .. MaxMsgs)
      BY DEF WritesTo, TypeOK, Msg
    <3> QED BY <3>1, <3>2, FS_Subset
  <2>5. Cardinality(WritesTo(k)') = Cardinality(WritesTo(k)) + 1
    BY <1>2, <2>2, <2>3, <2>4, FS_AddElement
  <2>6. findings'[k].version = findings[k].version + 1
    BY <1>4 DEF WriteLake
  <2> QED BY <1>1, <2>5, <2>6
<1> QED BY <1>3, <1>4

(* Steps that write nothing keep the count: what was written is in the     *)
(* stream, whose entries never change.                                     *)
LEMMA CountStays ==
    ASSUME TypeOK, Holding, Versioning, findings' = findings, written' = written,
           \A n \in 1 .. Len(raw) : raw'[n] = raw[n]
    PROVE  VersionCountsWrites'
<1>1. written \subseteq 1 .. Len(raw)
  BY DEF Versioning, Holding, TypeOK
<1>2. ASSUME NEW k \in Key PROVE WritesTo(k)' = WritesTo(k)
  BY <1>1 DEF WritesTo
<1> QED BY <1>2 DEF Versioning, VersionCountsWrites, WritesTo

LEMMA VersioningStep ==
    TypeOK /\ Holding /\ Versioning /\ [Next]_vars => Versioning'
<1> SUFFICES ASSUME TypeOK, Holding, Versioning, [Next]_vars PROVE Versioning'
  OBVIOUS
<1>a. /\ written \subseteq pending \cup acked
      /\ pending \cup acked \subseteq 1 .. last
      /\ \A c \in Consumer : batch[c] \subseteq pending /\ Unwritten(c)
      /\ \A c, d \in Consumer : c # d => batch[c] \cap batch[d] = {}
  BY DEF Versioning, Holding, OneHolder
<1>1. ASSUME NEW r \in Record, PublishRaw(r) PROVE Versioning'
  <2>1. \A n \in 1 .. Len(raw) : raw'[n] = raw[n]
    BY <1>1 DEF PublishRaw, TypeOK
  <2> QED BY <1>1, <2>1, <1>a, CountStays DEF PublishRaw, Versioning, Unwritten, locals, lake
<1>2. ASSUME NEW c \in Consumer, Read(c) PROVE Versioning'
  <2>1. UNCHANGED <<raw, acked, findings, written>> /\ pending \subseteq pending'
        /\ batch' = [batch EXCEPT ![c] = Oldest .. Newest]
        /\ pc' = [pc EXCEPT ![c] = "parse"]
    BY <1>2 DEF Read, lake
  <2>2. (Oldest .. Newest) \cap written = {}
    BY <1>2, <1>a, ReadInterval DEF Read, TypeOK
  <2>3. \A d \in Consumer : Unwritten(d)'
    BY <2>1, <2>2, <1>a DEF Unwritten, TypeOK
  <2> QED BY <2>1, <2>3, <1>a, CountStays DEF Versioning
<1>3. ASSUME NEW c \in Consumer,
             DeadLetterUnparsed(c) \/ Evaluate(c) \/ DeadLetterEntry(c) \/ PublishAlert(c)
      PROVE  Versioning'
  <2>1. UNCHANGED <<stream, batch, findings, written>>
    BY <1>3 DEF DeadLetterUnparsed, Evaluate, DeadLetterEntry, PublishAlert, lake
  <2>2. \A d \in Consumer : pc'[d] \in {"parse", "write"} => pc[d] \in {"parse", "write"}
    BY <1>3 DEF DeadLetterUnparsed, Evaluate, DeadLetterEntry, PublishAlert, TypeOK
  <2>3. \A d \in Consumer : Unwritten(d)'
    BY <2>1, <2>2, <1>a DEF Unwritten
  <2> QED BY <2>1, <2>3, <1>a, CountStays DEF Versioning, stream
<1>4. ASSUME NEW c \in Consumer, Commit(c) \/ CommitFails(c) PROVE Versioning'
  <2>1. UNCHANGED <<stream, batch>> /\ pc[c] = "write"
        /\ (WriteLake(c) \/ UNCHANGED lake)
        /\ pc'[c] \notin {"parse", "write"}
        /\ \A d \in Consumer \ {c} : pc'[d] = pc[d]
    BY <1>4 DEF Commit, CommitFails, TypeOK
  <2>2. written' \subseteq written \cup batch[c]
    BY <2>1 DEF WriteLake, Rows, lake
  <2>3. \A d \in Consumer : Unwritten(d)'
    BY <2>1, <2>2, <1>a DEF Unwritten
  <2>4. VersionCountsWrites'
    BY <2>1, WriteCounts, CountStays DEF stream, lake
  <2> QED BY <2>1, <2>2, <2>3, <2>4, <1>a DEF Versioning, stream
<1>5. ASSUME NEW c \in Consumer, Ack(c) PROVE Versioning'
  <2>1. UNCHANGED <<raw, findings, written>> /\ pending' \cup acked' = pending \cup acked
    BY <1>5, <1>a DEF Ack, lake
  <2>2. \A d \in Consumer : Unwritten(d)'
    BY <1>5, <2>1, <1>a DEF Ack, Unwritten, TypeOK
  <2> QED BY <2>1, <2>2, <1>a, CountStays DEF Versioning
<1>6. ASSUME NEW r \in Replica, Crash(r) PROVE Versioning'
  <2>1. UNCHANGED <<stream, findings, written>>
    BY <1>6 DEF Crash, lake
  <2>2. \A d \in Consumer : Unwritten(d)'
    BY <1>6, <2>1, <1>a DEF Crash, Unwritten
  <2> QED BY <2>1, <2>2, <1>a, CountStays DEF Versioning, stream
<1>7. ASSUME NEW r \in Replica, Restart(r) PROVE Versioning'
  <2>1. UNCHANGED <<stream, batch, findings, written>>
    BY <1>7 DEF Restart, lake
  <2>2. \A d \in Consumer : pc'[d] = pc[d] \/ batch[d] = {}
    BY <1>7 DEF Restart, Holding
  <2>3. \A d \in Consumer : Unwritten(d)'
    BY <2>1, <2>2, <1>a DEF Unwritten
  <2> QED BY <2>1, <2>3, <1>a, CountStays DEF Versioning, stream
<1>8. CASE UNCHANGED vars
  BY <1>8, <1>a, CountStays DEF Versioning, Unwritten, vars, stream, locals, lake
<1> QED
  BY <1>1, <1>2, <1>3, <1>4, <1>5, <1>6, <1>7, <1>8 DEF Next, Step

(* Each record written to a finding advances its version by exactly one.   *)
THEOREM VersionsCountWrites == Spec => []VersionCountsWrites
<1>1. Spec => []Versioning
  BY Typing, HoldingInit, HoldingStep, VersioningInit, VersioningStep, PTL DEF Spec
<1>2. Versioning => VersionCountsWrites
  BY DEF Versioning
<1> QED BY <1>1, <1>2, PTL
----------------------------------------------------------------------------
(* Progress.  What a consumer has before it until it asks for entries      *)
(* again, in steps of its own: a batch takes 3 * BatchSize + 3 at most.    *)
Busy(c) == pc[c] \notin {"idle", "down"}

Work(c) ==
    CASE pc[c] = "parse"      -> 2 * BatchSize + 3 + Cardinality(rest[c])
      [] pc[c] = "write"      -> 2 * BatchSize + 2
      [] pc[c] = "deadletter" -> BatchSize + 1 + Cardinality(rest[c])
      [] pc[c] = "publish"    -> 1 + Cardinality(alerts[c])
      [] OTHER -> 0

(* The guard of one of a busy consumer's steps holds.                      *)
Ready(c) ==
    \/ /\ pc[c] = "parse"
       /\ \/ \A m \in rest[c] : ~raw[m].bad
          \/ \E m \in rest[c] : raw[m].bad /\ \A n \in rest[c] : n < m => ~raw[n].bad
    \/ pc[c] = "write"
    \/ pc[c] = "deadletter" /\ \E m \in rest[c] : \A n \in rest[c] : m <= n
    \/ pc[c] = "publish"

(* No consumer wedges: while it has a batch in hand it can take a step,    *)
(* whatever became of the database and of the entries, and it has only so  *)
(* many before it.                                                         *)
NeverWedged ==
    \A c \in Consumer : Busy(c) => Ready(c) /\ Work(c) \in 1 .. 3 * BatchSize + 3

(* Each step a busy consumer takes brings it nearer to the end of its      *)
(* batch, and nobody else adds to its work: others leave it alone or take  *)
(* its container down.                                                     *)
BatchesEnd ==
    [][\A c \in Consumer : Busy(c) =>
          IF Step(c) THEN Work(c)' < Work(c)
          ELSE pc'[c] = "down" \/ UNCHANGED <<pc[c], batch[c], rest[c], alerts[c]>>]_vars

LEMMA FiniteBatches ==
    ASSUME NEW S \in SUBSET Msg
    PROVE  IsFiniteSet(S) /\ Cardinality(S) \in Nat
<1>1. IsFiniteSet(Msg)
  BY FS_Interval, ProcessingAssumption DEF Msg
<1> QED BY <1>1, FS_Subset, FS_CardinalityType

LEMMA SmallerBatches ==
    ASSUME NEW S \in SUBSET Msg, NEW T \in SUBSET S
    PROVE  /\ Cardinality(S) \in Nat /\ Cardinality(T) \in Nat
           /\ Cardinality(T) <= Cardinality(S)
           /\ T # S => Cardinality(T) < Cardinality(S)
           /\ S # {} => Cardinality(S) > 0
<1>1. IsFiniteSet(S) /\ Cardinality(S) \in Nat /\ Cardinality(T) \in Nat
  BY FiniteBatches
<1>2. /\ Cardinality(T) <= Cardinality(S)
      /\ Cardinality(S) = Cardinality(T) => S = T
  BY <1>1, FS_Subset
<1>3. S # {} => Cardinality(S) # 0
  BY <1>1, FS_EmptySet
<1> QED BY <1>1, <1>2, <1>3

(* A set of entries has an oldest one.                                     *)
LEMMA OldestEntry ==
    ASSUME NEW S \in SUBSET Msg, S # {}
    PROVE  \E m \in S : \A n \in S : m <= n
<1>1. S \in SUBSET Nat
  BY ProcessingAssumption DEF Msg
<1>2. PICK m \in S : \A n \in S : ~(<<n, m>> \in OpToRel(<, Nat))
  BY <1>1, NatLessThanWellFounded, WFMin, Zenon
<1>3. ASSUME NEW n \in S PROVE m <= n
  <2>1. <<n, m>> \in Nat \X Nat /\ n \in Nat /\ m \in Nat
    BY <1>1
  <2>2. ~(n < m)
    BY <1>2, <2>1 DEF OpToRel
  <2> QED BY <2>1, <2>2
<1> QED BY <1>3

(* A batch has BatchSize entries at most; one that is written or           *)
(* dead-lettered has some left.                                            *)
SizedOf(c) ==
    /\ Cardinality(batch[c]) <= BatchSize
    /\ pc[c] = "write" => batch[c] # {}
    /\ pc[c] = "deadletter" => rest[c] # {}

Sized == \A c \in Consumer : SizedOf(c)

LEMMA SizedInit == Init => Sized
BY FS_EmptySet, ProcessingAssumption DEF Init, Sized, SizedOf

LEMMA SizedStep == TypeOK /\ Holding /\ Sized /\ [Next]_vars => Sized'
<1> SUFFICES ASSUME TypeOK, Holding, Sized, [Next]_vars PROVE Sized'
  OBVIOUS
<1>a. \A c \in Consumer : SizedOf(c)
  BY DEF Sized
<1>b. ASSUME NEW d \in Consumer,
             pc'[d] = pc[d], batch'[d] = batch[d], rest'[d] = rest[d]
      PROVE  SizedOf(d)'
  BY <1>a, <1>b DEF SizedOf
<1>c. Cardinality({}) = 0 /\ BatchSize \in Nat \ {0}
  BY FS_EmptySet, ProcessingAssumption
<1>1. ASSUME NEW c \in Consumer, NEW d \in Consumer, Read(c) PROVE SizedOf(d)'
  <2>1. CASE d = c
    <3>1. /\ Oldest \in Nat /\ Newest \in Nat /\ Newest <= Oldest + BatchSize - 1
      BY <1>1, ReadInterval, ProcessingAssumption DEF Read, Newest, TypeOK
    <3>2. Cardinality(Oldest .. Newest) <= BatchSize
      <4>1. Oldest \in Int /\ Newest \in Int
        BY <3>1
      <4>2. Cardinality(Oldest .. Newest) = IF Oldest > Newest THEN 0 ELSE Newest - Oldest + 1
        BY <4>1, FS_Interval
      <4> QED BY <1>c, <3>1, <4>2
    <3> QED BY <1>1, <2>1, <3>2 DEF Read, SizedOf, TypeOK
  <2>2. CASE d # c
    BY <1>1, <1>b, <2>2 DEF Read, TypeOK
  <2> QED BY <2>1, <2>2
<1>2. ASSUME NEW c \in Consumer, NEW d \in Consumer, DeadLetterUnparsed(c) PROVE SizedOf(d)'
  <2>1. pc[c] = "parse" /\ UNCHANGED <<pc, batch>>
        /\ \A x \in Consumer \ {c} : rest'[x] = rest[x]
    BY <1>2 DEF DeadLetterUnparsed, TypeOK
  <2> QED BY <1>a, <2>1 DEF SizedOf
<1>3. ASSUME NEW c \in Consumer, NEW d \in Consumer, Evaluate(c) PROVE SizedOf(d)'
  <2>1. CASE d = c
    <3>1. pc'[c] = IF Rows(batch[c]) = {} THEN "publish" ELSE "write"
      BY <1>3 DEF Evaluate, TypeOK
    <3>2. Rows(batch[c]) # {} => batch[c] # {}
      BY DEF Rows
    <3>3. batch' = batch
      BY <1>3 DEF Evaluate
    <3> QED BY <1>a, <2>1, <3>1, <3>2, <3>3 DEF SizedOf
  <2>2. CASE d # c
    BY <1>3, <1>b, <2>2 DEF Evaluate, TypeOK
  <2> QED BY <2>1, <2>2
<1>4. ASSUME NEW c \in Consumer, NEW d \in Consumer, Commit(c) PROVE SizedOf(d)'
  <2>1. CASE d = c
    BY <1>4, <1>a, <2>1 DEF Commit, SizedOf, TypeOK
  <2>2. CASE d # c
    BY <1>4, <1>b, <2>2 DEF Commit, TypeOK
  <2> QED BY <2>1, <2>2
<1>5. ASSUME NEW c \in Consumer, NEW d \in Consumer, CommitFails(c) PROVE SizedOf(d)'
  <2>1. /\ pc[c] = "write" /\ batch' = batch /\ pc' = [pc EXCEPT ![c] = "deadletter"]
        /\ rest' = [rest EXCEPT ![c] = batch[c]]
    BY <1>5 DEF CommitFails
  <2>2. CASE d = c
    BY <1>a, <2>1, <2>2 DEF SizedOf, TypeOK
  <2>3. CASE d # c
    BY <1>b, <2>1, <2>3 DEF TypeOK
  <2> QED BY <2>2, <2>3
<1>6. ASSUME NEW c \in Consumer, NEW d \in Consumer, DeadLetterEntry(c) PROVE SizedOf(d)'
  <2>1. PICK m \in rest[c] : /\ rest' = [rest EXCEPT ![c] = rest[c] \ {m}]
                             /\ pc' = [pc EXCEPT ![c] = IF rest[c] = {m} THEN "publish" ELSE pc[c]]
                             /\ batch' = batch /\ pc[c] = "deadletter"
    BY <1>6 DEF DeadLetterEntry
  <2>2. CASE d = c
    BY <1>a, <2>1, <2>2 DEF SizedOf, TypeOK
  <2>3. CASE d # c
    BY <1>b, <2>1, <2>3 DEF TypeOK
  <2> QED BY <2>2, <2>3
<1>7. ASSUME NEW c \in Consumer, NEW d \in Consumer, PublishAlert(c) PROVE SizedOf(d)'
  BY <1>7, <1>b DEF PublishAlert
<1>8. ASSUME NEW c \in Consumer, NEW d \in Consumer, Ack(c) PROVE SizedOf(d)'
  <2>1. CASE d = c
    BY <1>8, <1>c, <2>1 DEF Ack, SizedOf, TypeOK
  <2>2. CASE d # c
    BY <1>8, <1>b, <2>2 DEF Ack, TypeOK
  <2> QED BY <2>1, <2>2
<1>9. ASSUME NEW r \in Replica, NEW d \in Consumer, Crash(r) PROVE SizedOf(d)'
  <2>1. CASE Home[d] = r
    BY <1>9, <1>c, <2>1 DEF Crash, SizedOf
  <2>2. CASE Home[d] # r
    BY <1>9, <1>b, <2>2 DEF Crash
  <2> QED BY <2>1, <2>2
<1>10. ASSUME NEW r \in Replica, NEW d \in Consumer, Restart(r) PROVE SizedOf(d)'
  <2>1. batch' = batch /\ rest' = rest /\ (pc'[d] = pc[d] \/ pc'[d] = "idle")
    BY <1>10 DEF Restart
  <2> QED BY <1>a, <2>1 DEF SizedOf
<1>11. ASSUME NEW r \in Record, NEW d \in Consumer, PublishRaw(r) PROVE SizedOf(d)'
  BY <1>11, <1>b DEF PublishRaw, locals
<1>12. ASSUME UNCHANGED vars, NEW d \in Consumer PROVE SizedOf(d)'
  BY <1>12, <1>b DEF vars, locals
<1>13. ASSUME NEW d \in Consumer PROVE SizedOf(d)'
  BY <1>1, <1>2, <1>3, <1>4, <1>5, <1>6, <1>7, <1>8, <1>9, <1>10, <1>11, <1>12
  DEF Next, Step
<1> QED BY <1>13 DEF Sized

LEMMA Sizes == Spec => [](TypeOK /\ Holding /\ Sized)
BY Typing, HoldingInit, HoldingStep, SizedInit, SizedStep, PTL DEF Spec

(* NeverWedged, for any size and content of batches.                       *)
THEOREM ConsumersProceed == Spec => []NeverWedged
<1>1. ASSUME TypeOK, Holding, Sized, NEW c \in Consumer, Busy(c)
      PROVE  Ready(c) /\ Work(c) \in 1 .. 3 * BatchSize + 3
  <2>1. /\ rest[c] \subseteq batch[c] /\ alerts[c] \subseteq batch[c] /\ batch[c] \in SUBSET Msg
        /\ pc[c] \in {"parse", "write", "deadletter", "publish"}
    BY <1>1 DEF TypeOK, Holding, Busy, Phase
  <2>2. /\ Cardinality(batch[c]) <= BatchSize
        /\ pc[c] = "deadletter" => rest[c] # {}
    BY <1>1 DEF Sized, SizedOf
  <2>3. /\ Cardinality(rest[c]) \in 0 .. BatchSize /\ Cardinality(alerts[c]) \in 0 .. BatchSize
        /\ BatchSize \in Nat \ {0}
    BY <2>1, <2>2, SmallerBatches, ProcessingAssumption
  <2>4. Ready(c)
    <3>1. CASE pc[c] = "parse"
      <4> DEFINE bad == {m \in rest[c] : raw[m].bad}
      <4>1. CASE bad = {}
        BY <3>1, <4>1 DEF Ready
      <4>2. CASE bad # {}
        <5>1. PICK m \in bad : \A n \in bad : m <= n
          BY <2>1, <4>2, OldestEntry
        <5>2. \A n \in rest[c] : n < m => ~raw[n].bad
          BY <2>1, <5>1, ProcessingAssumption DEF Msg
        <5> QED BY <3>1, <5>1, <5>2 DEF Ready
      <4> QED BY <4>1, <4>2
    <3>2. CASE pc[c] = "deadletter"
      BY <2>1, <2>2, <3>2, OldestEntry DEF Ready
    <3> QED BY <2>1, <3>1, <3>2 DEF Ready
  <2>5. Work(c) \in 1 .. 3 * BatchSize + 3
    BY <2>1, <2>3 DEF Work
  <2> QED BY <2>4, <2>5
<1>2. TypeOK /\ Holding /\ Sized => NeverWedged
  BY <1>1 DEF NeverWedged
<1> QED BY <1>2, Sizes, PTL

(* BatchesEnd: with ConsumersProceed, all of EventuallySettled but that a  *)
(* consumer that can take a step takes one.                                *)
THEOREM BatchesAreFinite == Spec => BatchesEnd
<1> DEFINE Ends(c) == Busy(c) =>
              IF Step(c) THEN Work(c)' < Work(c)
              ELSE pc'[c] = "down" \/ UNCHANGED <<pc[c], batch[c], rest[c], alerts[c]>>
<1>1. ASSUME TypeOK, Holding, Sized, NEW c \in Consumer, Busy(c), Step(c)
      PROVE  Work(c)' < Work(c)
  <2>1. /\ rest[c] \subseteq batch[c] /\ alerts[c] \subseteq batch[c] /\ batch[c] \in SUBSET Msg
        /\ pc[c] # "idle"
    BY <1>1 DEF TypeOK, Holding, Busy
  <2>2. /\ Cardinality(batch[c]) <= BatchSize /\ BatchSize \in Nat \ {0}
        /\ pc[c] = "deadletter" => rest[c] # {}
    BY <1>1, ProcessingAssumption DEF Sized, SizedOf
  <2>3. \A S \in SUBSET batch[c] : Cardinality(S) \in 0 .. BatchSize
    BY <2>1, <2>2, SmallerBatches
  <2>4. CASE DeadLetterUnparsed(c)
    <3>1. PICK m \in rest[c] : rest' = [rest EXCEPT ![c] = {n \in rest[c] : n > m}]
      BY <2>4 DEF DeadLetterUnparsed
    <3>2. /\ rest'[c] = {n \in rest[c] : n > m} /\ pc'[c] = "parse" /\ pc[c] = "parse"
      BY <1>1, <2>4, <3>1 DEF DeadLetterUnparsed, TypeOK
    <3>3. rest'[c] \subseteq rest[c] /\ m \notin rest'[c]
      BY <2>1, <3>2, ProcessingAssumption DEF Msg
    <3>4. /\ Cardinality(rest'[c]) < Cardinality(rest[c])
          /\ Cardinality(rest'[c]) \in Nat /\ Cardinality(rest[c]) \in Nat
      BY <2>1, <3>3, SmallerBatches
    <3> QED BY <2>2, <3>2, <3>4 DEF Work
  <2>5. CASE Evaluate(c)
    <3>1. /\ pc[c] = "parse" /\ pc'[c] \in {"publish", "write"}
          /\ alerts'[c] \subseteq batch[c]
      BY <1>1, <2>5 DEF Evaluate, TypeOK, Rows
    <3>2. Cardinality(rest[c]) \in 0 .. BatchSize /\ Cardinality(alerts'[c]) \in 0 .. BatchSize
      BY <2>1, <2>3, <3>1
    <3> QED BY <2>2, <3>1, <3>2 DEF Work
  <2>6. CASE Commit(c)
    <3>1. pc[c] = "write" /\ pc'[c] = "publish" /\ alerts'[c] = alerts[c]
      BY <1>1, <2>6 DEF Commit, TypeOK
    <3>2. Cardinality(alerts[c]) \in 0 .. BatchSize
      BY <2>1, <2>3
    <3> QED BY <2>2, <3>1, <3>2 DEF Work
  <2>7. CASE CommitFails(c)
    <3>1. pc[c] = "write" /\ pc'[c] = "deadletter" /\ rest'[c] = batch[c]
      BY <1>1, <2>7 DEF CommitFails, TypeOK
    <3>2. Cardinality(batch[c]) \in 0 .. BatchSize
      BY <2>3
    <3> QED BY <2>2, <3>1, <3>2 DEF Work
  <2>8. CASE DeadLetterEntry(c)
    <3>1. PICK m \in rest[c] : /\ rest' = [rest EXCEPT ![c] = rest[c] \ {m}]
                               /\ pc' = [pc EXCEPT ![c] = IF rest[c] = {m} THEN "publish" ELSE pc[c]]
      BY <2>8 DEF DeadLetterEntry
    <3>2. /\ pc[c] = "deadletter" /\ rest'[c] = rest[c] \ {m} /\ alerts'[c] = alerts[c]
          /\ pc'[c] \in {"publish", "deadletter"}
      BY <1>1, <2>8, <3>1 DEF DeadLetterEntry, TypeOK
    <3>3. /\ Cardinality(rest'[c]) < Cardinality(rest[c])
          /\ Cardinality(rest'[c]) \in Nat /\ Cardinality(rest[c]) \in Nat
      BY <2>1, <3>2, SmallerBatches
    <3>4. Cardinality(alerts[c]) \in 0 .. BatchSize
      BY <2>1, <2>3
    <3> QED BY <2>2, <3>2, <3>3, <3>4 DEF Work
  <2>9. CASE PublishAlert(c)
    <3>1. PICK a \in alerts[c] : alerts' = [alerts EXCEPT ![c] = alerts[c] \ {a}]
      BY <2>9 DEF PublishAlert
    <3>2. pc[c] = "publish" /\ pc'[c] = "publish" /\ alerts'[c] = alerts[c] \ {a}
      BY <1>1, <2>9, <3>1 DEF PublishAlert, TypeOK
    <3>3. /\ Cardinality(alerts'[c]) < Cardinality(alerts[c])
          /\ Cardinality(alerts'[c]) \in Nat /\ Cardinality(alerts[c]) \in Nat
      BY <2>1, <3>2, SmallerBatches
    <3> QED BY <3>2, <3>3 DEF Work
  <2>10. CASE Ack(c)
    <3>1. pc[c] = "publish" /\ pc'[c] = "idle"
      BY <1>1, <2>10 DEF Ack, TypeOK
    <3>2. Cardinality(alerts[c]) \in 0 .. BatchSize
      BY <2>1, <2>3
    <3> QED BY <3>1, <3>2 DEF Work
  <2>11. ~Read(c)
    BY <2>1 DEF Read
  <2> QED BY <1>1, <2>4, <2>5, <2>6, <2>7, <2>8, <2>9, <2>10, <2>11 DEF Step
<1>2. ASSUME TypeOK, Holding, Next, NEW c \in Consumer, Busy(c), ~Step(c)
      PROVE  pc'[c] = "down" \/ UNCHANGED <<pc[c], batch[c], rest[c], alerts[c]>>
  <2>1. ASSUME NEW r \in Record, PublishRaw(r)
        PROVE  UNCHANGED <<pc[c], batch[c], rest[c], alerts[c]>>
    BY <2>1 DEF PublishRaw, locals
  <2>2. ASSUME NEW d \in Consumer \ {c}, Step(d)
        PROVE  UNCHANGED <<pc[c], batch[c], rest[c], alerts[c]>>
    <3>1. CASE Read(d)
      BY <1>2, <2>2, <3>1 DEF Read, TypeOK
    <3>2. CASE DeadLetterUnparsed(d)
      BY <1>2, <2>2, <3>2 DEF DeadLetterUnparsed, TypeOK
    <3>3. CASE Evaluate(d)
      BY <1>2, <2>2, <3>3 DEF Evaluate, TypeOK
    <3>4. CASE Commit(d)
      BY <1>2, <2>2, <3>4 DEF Commit, TypeOK
    <3>5. CASE CommitFails(d)
      BY <1>2, <2>2, <3>5 DEF CommitFails, TypeOK
    <3>6. CASE DeadLetterEntry(d)
      BY <1>2, <2>2, <3>6 DEF DeadLetterEntry, TypeOK
    <3>7. CASE PublishAlert(d)
      BY <1>2, <2>2, <3>7 DEF PublishAlert, TypeOK
    <3>8. CASE Ack(d)
      BY <1>2, <2>2, <3>8 DEF Ack, TypeOK
    <3> QED BY <2>2, <3>1, <3>2, <3>3, <3>4, <3>5, <3>6, <3>7, <3>8 DEF Step
  <2>3. ASSUME NEW r \in Replica, Crash(r)
        PROVE  pc'[c] = "down" \/ UNCHANGED <<pc[c], batch[c], rest[c], alerts[c]>>
    BY <2>3 DEF Crash
  <2>4. ASSUME NEW r \in Replica, Restart(r), Home[c] # r
        PROVE  UNCHANGED <<pc[c], batch[c], rest[c], alerts[c]>>
    BY <2>4 DEF Restart
  <2>5. ASSUME NEW r \in Replica, Restart(r), Home[c] = r PROVE FALSE
    BY <1>2, <2>5 DEF Restart, Holding, Busy
  <2> QED BY <1>2, <2>1, <2>2, <2>3, <2>4, <2>5 DEF Next
<1>3. TypeOK /\ Holding /\ Sized /\ [Next]_vars => [\A c \in Consumer : Ends(c)]_vars
  BY <1>1, <1>2
<1>4. BatchesEnd <=> [][\A c \in Consumer : Ends(c)]_vars
  BY PTL DEF BatchesEnd
<1> HIDE DEF Ends
<1> QED BY <1>3, <1>4, Sizes, PTL DEF Spec
=============================================================================
