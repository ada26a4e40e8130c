--------------------------- MODULE DispatchProofs ---------------------------
(***************************************************************************)
(* Proofs about Dispatch, for every number of consumers, alerts and        *)
(* crashes.  Working (who works on which entry) is inductive together with *)
(* TypeOK; Sending (what was sent of an entry) and Logging (what was       *)
(* recorded of it) each relative to both.                                  *)
(***************************************************************************)
EXTENDS Dispatch, FiniteSetTheorems, WellFoundedInduction, TLAPS

(* An entry is delivered once; a consumer holds entries exactly while it   *)
(* is busy, and outcomes of the entry it is at.                            *)
Working ==
    /\ pending \cup acked \subseteq 1 .. last
    /\ pending \cap acked = {}
    /\ \A c \in Consumer :
         /\ queue[c] \subseteq pending
         /\ queue[c] = {} <=> pc[c] \in {"idle", "down"}
         /\ queue[c] = {} => outcome[c] = {}
    /\ \A c, d \in Consumer :
         /\ c # d => queue[c] \cap queue[d] = {}
         /\ pc[c] = "down" => pc[d] = "down"    \* the container dies as a whole

(* The entry a consumer is at is the oldest of its queue.                  *)
LEMMA CurrentIsOldest ==
    ASSUME NEW c \in Consumer, queue[c] \in SUBSET Msg, queue[c] # {}
    PROVE  /\ Current(c) \in queue[c] /\ Current(c) \in Msg
           /\ \A n \in queue[c] : Current(c) <= n
<1>1. queue[c] \subseteq Nat
  BY DEF Msg
<1>2. PICK m \in queue[c] : \A n \in queue[c] : ~(<<n, m>> \in OpToRel(<, Nat))
  BY <1>1, NatLessThanWellFounded, WFMin, Zenon
<1>3. \A n \in queue[c] : m <= n
  <2> SUFFICES ASSUME NEW n \in queue[c] PROVE m <= n
    OBVIOUS
  <2>1. <<n, m>> \in Nat \X Nat
    BY <1>1
  <2>2. ~(n < m)
    BY <2>1, <1>2 DEF OpToRel
  <2> QED BY <2>2, <1>1
<1> QED BY <1>3 DEF Current

LEMMA ReadInterval ==
    ASSUME TypeOK, Oldest <= Len(alert)
    PROVE  /\ Oldest \in Nat /\ Newest \in Nat
           /\ last < Oldest /\ Oldest <= Newest /\ Newest <= Len(alert)
           /\ Oldest .. Newest \subseteq Msg
BY DispatchAssumption DEF TypeOK, Oldest, Newest, Msg

----------------------------------------------------------------------------
LEMMA TypeInit == Init => TypeOK /\ Working
BY DispatchAssumption DEF Init, TypeOK, Working, Phase, Msg

(* What the three ways to finish an entry have in common.                  *)
LEMMA NextEntryType ==
    ASSUME TypeOK, NEW c \in Consumer, NextEntry(c)
    PROVE  /\ queue' \in [Consumer -> SUBSET Msg]
           /\ outcome' \in [Consumer -> SUBSET (Channel \X Status)]
           /\ pc' \in [Consumer -> Phase]
BY DEF TypeOK, NextEntry, Phase

LEMMA SendOutcomeStatus == \A o \in SendOutcomes : o[1] \in Status
<1> SUFFICES ASSUME NEW o \in SendOutcomes PROVE o[1] \in Status
  OBVIOUS
<1>1. CASE o = <<"sent", TRUE>>
  BY <1>1 DEF Status
<1>2. CASE o = <<"failed", TRUE>>
  BY <1>2 DEF Status
<1>3. CASE o = <<"failed", FALSE>>
  BY <1>3 DEF Status
<1> QED BY <1>1, <1>2, <1>3, Zenon DEF SendOutcomes

LEMMA TypeStep == TypeOK /\ Working /\ [Next]_vars => TypeOK'
<1> SUFFICES ASSUME TypeOK, Working, [Next]_vars PROVE TypeOK'
  OBVIOUS
<1> USE DispatchAssumption
<1>0. ASSUME NEW c \in Consumer, pc[c] \in {"sending", "stamp", "ack"}
      PROVE  Current(c) \in queue[c] /\ Current(c) \in Msg
  BY <1>0, CurrentIsOldest DEF Working, TypeOK
<1>1. ASSUME NEW a \in Alert, Publish(a) PROVE TypeOK'
  <2>1. alert' \in Seq(Alert) /\ Len(alert') = Len(alert) + 1 /\ Len(alert') <= MaxMsgs
    BY <1>1 DEF TypeOK, Publish
  <2>2. first' \in Nat \ {0} /\ last' \in 0 .. Len(alert')
    BY <1>1, <2>1 DEF TypeOK, Publish
  <2> QED BY <1>1, <2>1, <2>2 DEF TypeOK, Publish, locals, world, lake
<1>2. ASSUME NEW c \in Consumer, Read(c) PROVE TypeOK'
  BY <1>2, ReadInterval DEF TypeOK, Read, Phase, world, lake
<1>3. ASSUME NEW c \in Consumer, ReadLost(c) PROVE TypeOK'
  BY <1>3, ReadInterval DEF TypeOK, ReadLost, locals, world, lake
<1>4. ASSUME NEW c \in Consumer, Send(c) PROVE TypeOK'
  <2>0. PICK ch \in Channel : \E o \in SendOutcomes :
          /\ outcome' = [outcome EXCEPT ![c] = @ \cup {<<ch, o[1]>>}]
          /\ tries' = [tries EXCEPT ![<<Current(c), ch>>] = @ + 1]
          /\ delivered' = IF o[2] THEN delivered \cup {<<Current(c), ch>>} ELSE delivered
    <3>1. Route(alert[Current(c)]) \subseteq Channel
      BY DEF Route, Channel
    <3> HIDE DEF Channel
    <3> QED BY <1>4, <3>1, Zenon DEF Send
  <2>1. PICK o \in SendOutcomes :
          /\ outcome' = [outcome EXCEPT ![c] = @ \cup {<<ch, o[1]>>}]
          /\ tries' = [tries EXCEPT ![<<Current(c), ch>>] = @ + 1]
          /\ delivered' = IF o[2] THEN delivered \cup {<<Current(c), ch>>} ELSE delivered
    BY <2>0
  <2>2. Current(c) \in Msg
    BY <1>0, <1>4 DEF Send
  <2>3. o[1] \in Status
    BY SendOutcomeStatus
  <2>4. outcome' \in [Consumer -> SUBSET (Channel \X Status)]
    BY <2>1, <2>3 DEF TypeOK
  <2>5. tries' \in [Msg \X Channel -> Nat]
    BY <2>1, <2>2 DEF TypeOK
  <2>6. delivered' \in SUBSET (Msg \X Channel)
    BY <2>1, <2>2 DEF TypeOK
  <2> QED BY <1>4, <2>4, <2>5, <2>6 DEF TypeOK, Send, stream, lake
<1>5. ASSUME NEW c \in Consumer, Gathered(c) PROVE LogRows(c) \subseteq Msg \X Channel \X Status
  BY <1>5, <1>0 DEF Gathered, LogRows, TypeOK
<1>6. ASSUME NEW c \in Consumer, RecordDispatch(c) PROVE TypeOK'
  BY <1>5, <1>6 DEF TypeOK, RecordDispatch, Phase, stream, world
<1>7. ASSUME NEW c \in Consumer, RecordDispatchFails(c) PROVE TypeOK'
  BY <1>5, <1>7 DEF TypeOK, RecordDispatchFails, Phase, stream, world
<1>8. ASSUME NEW c \in Consumer, Stamp(c) PROVE TypeOK'
  BY <1>0, <1>8 DEF TypeOK, Stamp, Phase, stream, world
<1>9. ASSUME NEW c \in Consumer, Ack(c) PROVE TypeOK'
  BY <1>0, <1>9, NextEntryType DEF TypeOK, Ack, world, lake
<1>10. ASSUME NEW c \in Consumer, AckFails(c) PROVE TypeOK'
  BY <1>0, <1>10, NextEntryType DEF TypeOK, AckFails, world, lake
<1>11. ASSUME Crash PROVE TypeOK'
  BY <1>11 DEF TypeOK, Crash, Phase, stream, world, lake
<1>12. ASSUME Restart PROVE TypeOK'
  BY <1>12 DEF TypeOK, Restart, Phase, stream, world, lake
<1>13. CASE UNCHANGED vars
  BY <1>13 DEF TypeOK, vars, stream, locals, world, lake
<1> QED
  BY <1>1, <1>2, <1>3, <1>4, <1>6, <1>7, <1>8, <1>9, <1>10, <1>11, <1>12, <1>13
  DEF Next, Step

LEMMA WorkingStep == TypeOK /\ Working /\ [Next]_vars => Working'
<1> SUFFICES ASSUME TypeOK, Working, [Next]_vars PROVE Working'
  OBVIOUS
<1> USE DEF Working
<1>0. ASSUME NEW c \in Consumer, pc[c] \in {"sending", "stamp", "ack"}
      PROVE  Current(c) \in queue[c] /\ Current(c) \in Msg
  BY <1>0, CurrentIsOldest DEF TypeOK
<1>1. ASSUME NEW a \in Alert, Publish(a) PROVE Working'
  BY <1>1 DEF Publish, locals
<1>2. ASSUME NEW c \in Consumer, Read(c) PROVE Working'
  <2> DEFINE fresh == Oldest .. Newest
  <2>1. last < Oldest /\ Oldest <= Newest /\ Oldest \in Nat /\ Newest \in Nat
    BY <1>2, ReadInterval DEF Read
  <2>2. fresh \cap (pending \cup acked) = {} /\ fresh # {}
    <3>1. Oldest \in fresh
      BY <2>1
    <3>2. \A n \in pending \cup acked : n <= last /\ last \in Int /\ n \in Int
      BY DEF TypeOK
    <3> QED BY <2>1, <3>1, <3>2
  <2>3. (pending \cup acked)' \subseteq 1 .. last'
    BY <1>2, <2>1 DEF Read, TypeOK
  <2>4. /\ pending' = pending \cup fresh /\ acked' = acked /\ outcome' = outcome
        /\ queue' = [queue EXCEPT ![c] = fresh] /\ pc[c] = "idle"
        /\ pc' = [pc EXCEPT ![c] = "sending"]
    BY <1>2 DEF Read
  <2> HIDE DEF fresh
  <2>5. (pending \cap acked)' = {}
    BY <2>2, <2>4
  <2>6. ASSUME NEW d \in Consumer
        PROVE  /\ queue'[d] \subseteq pending'
               /\ queue'[d] = {} <=> pc'[d] \in {"idle", "down"}
               /\ queue'[d] = {} => outcome'[d] = {}
    BY <2>2, <2>4, <2>6 DEF TypeOK
  <2>7. ASSUME NEW d \in Consumer, NEW e \in Consumer
        PROVE  /\ d # e => queue'[d] \cap queue'[e] = {}
               /\ pc'[d] = "down" => pc'[e] = "down"
    BY <2>2, <2>4, <2>7 DEF TypeOK
  <2> QED BY <2>3, <2>5, <2>6, <2>7
<1>3. ASSUME NEW c \in Consumer, ReadLost(c) PROVE Working'
  BY <1>3, ReadInterval DEF ReadLost, locals, TypeOK
<1>4. ASSUME NEW c \in Consumer, Send(c) PROVE Working'
  <2>1. /\ UNCHANGED <<stream, pc, queue>>
        /\ pc[c] = "sending"
        /\ \A d \in Consumer : d # c => outcome'[d] = outcome[d]
    BY <1>4 DEF Send, TypeOK
  <2> QED BY <2>1 DEF stream
<1>5. ASSUME NEW c \in Consumer, RecordDispatch(c) PROVE Working'
  BY <1>5 DEF RecordDispatch, Gathered, stream, TypeOK
<1>6. ASSUME NEW c \in Consumer, RecordDispatchFails(c) PROVE Working'
  BY <1>6 DEF RecordDispatchFails, Gathered, stream, TypeOK
<1>7. ASSUME NEW c \in Consumer, Stamp(c) PROVE Working'
  BY <1>7 DEF Stamp, stream, TypeOK
<1>8. ASSUME NEW c \in Consumer, pc[c] = "ack", NextEntry(c), UNCHANGED last,
             \/ UNCHANGED <<pending, acked>>
             \/ /\ pending' = pending \ {Current(c)}
                /\ acked' = acked \cup {Current(c)}
      PROVE  Working'
  <2> DEFINE m == Current(c)
  <2>1. m \in queue[c] /\ m \in pending
    BY <1>0, <1>8
  <2>2. /\ queue' = [queue EXCEPT ![c] = queue[c] \ {m}]
        /\ outcome' = [outcome EXCEPT ![c] = {}]
        /\ pc' = [pc EXCEPT ![c] = IF queue[c] = {m} THEN "idle" ELSE "sending"]
    BY <1>8 DEF NextEntry
  <2>3. /\ \/ UNCHANGED <<pending, acked>>
           \/ pending' = pending \ {m} /\ acked' = acked \cup {m}
        /\ last' = last /\ pc[c] = "ack"
    BY <1>8
  <2> HIDE DEF m
  <2>4. (pending \cap acked = {} /\ pending \cup acked \subseteq 1 .. last)'
    BY <2>1, <2>3
  <2>5. ASSUME NEW d \in Consumer
        PROVE  /\ queue'[d] \subseteq pending'
               /\ queue'[d] = {} <=> pc'[d] \in {"idle", "down"}
               /\ queue'[d] = {} => outcome'[d] = {}
    <3>1. CASE d = c
      BY <2>1, <2>2, <2>3, <3>1 DEF TypeOK
    <3>2. CASE d # c
      <4>1. queue'[d] = queue[d] /\ pc'[d] = pc[d] /\ outcome'[d] = outcome[d]
        BY <2>2, <3>2 DEF TypeOK
      <4>2. m \notin queue[d]
        BY <2>1, <3>2, Zenon
      <4> QED BY <2>3, <4>1, <4>2
    <3> QED BY <3>1, <3>2
  <2>6. ASSUME NEW d \in Consumer, NEW e \in Consumer
        PROVE  /\ d # e => queue'[d] \cap queue'[e] = {}
               /\ pc'[d] = "down" => pc'[e] = "down"
    BY <2>2, <2>3, <2>6 DEF TypeOK
  <2> QED BY <2>4, <2>5, <2>6
<1>9. ASSUME NEW c \in Consumer, Ack(c) \/ AckFails(c) PROVE Working'
  BY <1>8, <1>9 DEF Ack, AckFails
<1>10. ASSUME Crash PROVE Working'
  BY <1>10 DEF Crash, stream, TypeOK
<1>11. ASSUME Restart PROVE Working'
  <2>1. \A c \in Consumer : queue[c] = {}
    BY <1>11 DEF Restart
  <2> QED BY <1>11 DEF Restart, stream, TypeOK
<1>12. CASE UNCHANGED vars
  BY <1>12 DEF vars, stream, locals
<1> QED
  BY <1>1, <1>2, <1>3, <1>4, <1>5, <1>6, <1>7, <1>9, <1>10, <1>11, <1>12
  DEF Next, Step

(* Every state of the dispatch service is well typed.                      *)
THEOREM Typing == Spec => []TypeOK
BY TypeInit, TypeStep, WorkingStep, PTL DEF Spec
(* Who works on which entry, in every state: no entry is in the hands of   *)
(* two consumers, and none is acknowledged while in hand.                  *)
THEOREM WorkingHolds == Spec => []Working
BY TypeInit, TypeStep, WorkingStep, PTL DEF Spec

----------------------------------------------------------------------------
(* What was sent of each entry: nothing beyond the cursor or behind the    *)
(* current entry of a consumer; of the current entry what has an outcome,  *)
(* and all of its route once its outcomes were gathered; of an             *)
(* acknowledged entry all of its route.                                    *)
SentOf(m) ==
    \A ch \in Channel :
        /\ tries[<<m, ch>>] \in {0, 1}
        /\ m > last => tries[<<m, ch>>] = 0
        /\ m \in acked /\ ch \in Route(alert[m]) => tries[<<m, ch>>] = 1

AtWork(c) ==
    /\ \A m \in queue[c], ch \in Channel :
         tries[<<m, ch>>] = IF m = Current(c) /\ ch \in Attempted(c) THEN 1 ELSE 0
    /\ queue[c] # {} => Attempted(c) \subseteq Route(alert[Current(c)])
    /\ pc[c] \in {"stamp", "ack"} => Attempted(c) = Route(alert[Current(c)])

Sending == (\A m \in Msg : SentOf(m)) /\ (\A c \in Consumer : AtWork(c))

LEMMA SendingImpliesSentOnce == Sending => SentOnceBeforeAck
<1> SUFFICES ASSUME Sending, NEW m \in Msg, NEW ch \in Channel
             PROVE  /\ tries[<<m, ch>>] <= 1
                    /\ m \in acked /\ ch \in Route(alert[m]) => tries[<<m, ch>>] = 1
  BY DEF SentOnceBeforeAck
<1>1. SentOf(m)
  BY DEF Sending
<1>2. tries[<<m, ch>>] = 0 \/ tries[<<m, ch>>] = 1
  BY <1>1, Zenon DEF SentOf
<1>3. tries[<<m, ch>>] <= 1
  BY <1>2
<1> QED BY <1>1, <1>3, Zenon DEF SentOf

LEMMA SendingInit == Init => Sending
BY DEF Init, Sending, SentOf, AtWork, Msg

(* A consumer whose queue and outcomes a step leaves alone is at the same  *)
(* entry with the same channels attempted.                                 *)
Least(S) == CHOOSE m \in S : \A n \in S : m <= n
Channels(O) == {o[1] : o \in O}

LEMMA ChannelsOfOneMore ==
    ASSUME NEW O, NEW ch, NEW st
    PROVE  Channels(O \cup {<<ch, st>>}) = Channels(O) \cup {ch}
<1>1. <<ch, st>>[1] = ch
  OBVIOUS
<1> QED BY <1>1, Zenon DEF Channels

LEMMA SameWork ==
    ASSUME NEW c \in Consumer
    PROVE  /\ queue'[c] = queue[c] => Current(c)' = Current(c)
           /\ outcome'[c] = outcome[c] => Attempted(c)' = Attempted(c)
<1>1. Current(c) = Least(queue[c]) /\ Current(c)' = Least(queue'[c])
  BY Zenon DEF Current, Least
<1>2. Attempted(c) = Channels(outcome[c]) /\ Attempted(c)' = Channels(outcome'[c])
  BY Zenon DEF Attempted, Channels
<1> QED BY <1>1, <1>2, Zenon

(* Steps that send nothing, hand out nothing and settle nothing.           *)
LEMMA QuietWork ==
    ASSUME NEW c \in Consumer, AtWork(c),
           queue'[c] = queue[c], outcome'[c] = outcome[c], UNCHANGED <<alert, tries>>,
           pc'[c] \in {"stamp", "ack"} =>
               pc[c] \in {"stamp", "ack"} \/ Attempted(c) = Route(alert[Current(c)])
    PROVE  AtWork(c)'
<1>1. Current(c)' = Current(c) /\ Attempted(c)' = Attempted(c)
  BY SameWork
<1>2. Route(alert[Current(c)])' = Route(alert[Current(c)])
  BY <1>1, Zenon
<1> QED BY <1>1, <1>2 DEF AtWork

LEMMA SendingStep == TypeOK /\ Working /\ Sending /\ [Next]_vars => Sending'
<1> SUFFICES ASSUME TypeOK, Working, Sending, [Next]_vars PROVE Sending'
  OBVIOUS
<1>0. /\ \A m \in Msg : SentOf(m)
      /\ \A c \in Consumer : AtWork(c)
  BY DEF Sending
<1>a. ASSUME NEW c \in Consumer, pc[c] \in {"sending", "stamp", "ack"}
      PROVE  Current(c) \in queue[c] /\ Current(c) \in Msg /\ Current(c) <= last
  BY <1>a, CurrentIsOldest DEF TypeOK, Working
<1>b. ASSUME UNCHANGED <<alert, last, acked, tries>>, NEW m \in Msg PROVE SentOf(m)'
  BY <1>0, <1>b DEF SentOf
<1>c. ASSUME UNCHANGED <<alert, acked, tries>>, last' \in Nat, last < last', NEW m \in Msg
      PROVE  SentOf(m)'
  <2>1. m > last' => m > last
    BY <1>c DEF TypeOK, Msg
  <2> QED BY <1>0, <1>c, <2>1 DEF SentOf
(* Publish appends, so that the entries delivered keep their alerts.       *)
<1>1. ASSUME NEW a \in Alert, Publish(a) PROVE Sending'
  <2>1. \A m \in 1 .. Len(alert) : alert'[m] = alert[m]
    BY <1>1 DEF Publish, TypeOK
  <2>2. UNCHANGED <<last, pending, acked, pc, queue, outcome, tries>>
    BY <1>1 DEF Publish, locals, world
  <2>3. ASSUME NEW m \in Msg PROVE SentOf(m)'
    <3>1. m \in acked => alert'[m] = alert[m]
      BY <2>1 DEF Working, TypeOK
    <3> QED BY <1>0, <2>2, <3>1 DEF SentOf, Route
  <2>4. ASSUME NEW c \in Consumer PROVE AtWork(c)'
    <3>1. Current(c)' = Current(c) /\ Attempted(c)' = Attempted(c)
      BY <2>2, SameWork
    <3>2. ASSUME queue[c] # {} PROVE alert'[Current(c)] = alert[Current(c)]
      <4>1. Current(c) \in queue[c]
        BY <3>2, CurrentIsOldest DEF TypeOK
      <4>2. Current(c) \in 1 .. Len(alert)
        BY <4>1 DEF Working, TypeOK
      <4> QED BY <4>2, <2>1
    <3>3. queue[c] # {} => Route(alert[Current(c)])' = Route(alert[Current(c)])
      BY <3>1, <3>2, Zenon
    <3>4. pc[c] \in {"stamp", "ack"} => queue[c] # {}
      BY DEF Working
    <3> QED BY <1>0, <2>2, <3>1, <3>3, <3>4 DEF AtWork
  <2> QED BY <2>3, <2>4 DEF Sending
(* A batch read is of entries beyond the cursor, which were never sent.    *)
<1>2. ASSUME NEW c \in Consumer, Read(c) PROVE Sending'
  <2>1. /\ last < Oldest /\ Oldest .. Newest \subseteq Msg /\ last' = Newest
        /\ Oldest \in Nat /\ Newest \in Nat /\ Oldest <= Newest /\ last < last'
        /\ UNCHANGED <<alert, acked, outcome, tries>> /\ outcome[c] = {}
        /\ queue' = [queue EXCEPT ![c] = Oldest .. Newest]
        /\ pc' = [pc EXCEPT ![c] = "sending"]
    BY <1>2, ReadInterval DEF Read, world, Working, TypeOK
  <2>2. \A m \in Msg : SentOf(m)'
    BY <1>c, <2>1 DEF TypeOK
  <2>3. AtWork(c)'
    <3>1. Attempted(c)' = {}
      BY <2>1 DEF Attempted
    <3>2. ASSUME NEW m \in queue'[c], NEW ch \in Channel PROVE tries'[<<m, ch>>] = 0
      <4>1. m \in Msg /\ m > last
        BY <2>1 DEF TypeOK
      <4> QED BY <1>0, <2>1, <4>1 DEF SentOf
    <3>3. pc'[c] = "sending"
      BY <2>1 DEF TypeOK
    <3> QED BY <3>1, <3>2, <3>3 DEF AtWork
  <2>4. ASSUME NEW d \in Consumer, d # c PROVE AtWork(d)'
    BY <1>0, <2>1, <2>4, QuietWork DEF TypeOK
  <2> QED BY <2>2, <2>3, <2>4 DEF Sending
<1>3. ASSUME NEW c \in Consumer, ReadLost(c) PROVE Sending'
  <2>1. /\ last < Newest /\ last' = Newest /\ Newest \in Nat
        /\ UNCHANGED <<alert, acked, pc, queue, outcome, tries>>
    BY <1>3, ReadInterval DEF ReadLost, locals, world, TypeOK
  <2>2. \A m \in Msg : SentOf(m)'
    BY <1>c, <2>1 DEF TypeOK
  <2> QED BY <1>0, <2>1, <2>2, QuietWork DEF Sending
(* A channel is sent over only if it has no outcome yet.                   *)
<1>4. ASSUME NEW c \in Consumer, Send(c) PROVE Sending'
  <2> DEFINE m == Current(c)
  <2>1. PICK ch \in Route(alert[m]) \ Attempted(c) : \E o \in SendOutcomes :
          /\ outcome' = [outcome EXCEPT ![c] = @ \cup {<<ch, o[1]>>}]
          /\ tries' = [tries EXCEPT ![<<m, ch>>] = @ + 1]
    BY <1>4, Zenon DEF Send
  <2>2. PICK st :
          /\ outcome' = [outcome EXCEPT ![c] = @ \cup {<<ch, st>>}]
          /\ tries' = [tries EXCEPT ![<<m, ch>>] = @ + 1]
    BY <2>1, Zenon
  <2>3. m \in queue[c] /\ m \in Msg /\ m <= last /\ ch \in Channel /\ m \notin acked
    BY <1>4, <1>a, <2>1 DEF Send, Route, Channel, Working
  <2>4. UNCHANGED <<alert, last, acked, pc, queue>> /\ pc[c] = "sending"
    BY <1>4 DEF Send, stream
  <2>5. tries[<<m, ch>>] = 0
    BY <1>0, <2>1, <2>3 DEF AtWork
  <2>6. /\ tries'[<<m, ch>>] = 1
        /\ \A n \in Msg, k \in Channel :
              n # m \/ k # ch => tries'[<<n, k>>] = tries[<<n, k>>]
    BY <2>2, <2>3, <2>5 DEF TypeOK
  <2>7. Current(c)' = m /\ Attempted(c)' = Attempted(c) \cup {ch}
    <3>1. outcome'[c] = outcome[c] \cup {<<ch, st>>}
      BY <2>2 DEF TypeOK
    <3>2. Channels(outcome[c] \cup {<<ch, st>>}) = Channels(outcome[c]) \cup {ch}
      BY ChannelsOfOneMore
    <3>3. Channels(outcome'[c]) = Channels(outcome[c]) \cup {ch}
      BY <3>1, <3>2, Zenon
    <3> QED BY <2>4, <3>3, SameWork DEF Attempted, Channels
  <2> HIDE DEF m
  <2>8. ASSUME NEW n \in Msg PROVE SentOf(n)'
    <3>1. CASE n = m
      <4>1. ~(n > last') /\ n \notin acked'
        BY <2>3, <2>4, <3>1 DEF TypeOK, Msg
      <4> QED BY <1>0, <2>6, <3>1, <4>1 DEF SentOf
    <3>2. CASE n # m
      BY <1>0, <2>4, <2>6, <3>2 DEF SentOf
    <3> QED BY <3>1, <3>2
  <2>9. AtWork(c)'
    <3>1. queue[c] \subseteq Msg
      BY DEF TypeOK
    <3>2. Attempted(c) \subseteq Route(alert[m])
      BY <1>0, <2>3 DEF AtWork, m
    <3>3. ASSUME NEW n \in queue[c], NEW k \in Channel
          PROVE  tries'[<<n, k>>] = IF n = m /\ k \in Attempted(c) \cup {ch} THEN 1 ELSE 0
      <4>1. tries[<<n, k>>] = IF n = m /\ k \in Attempted(c) THEN 1 ELSE 0
        BY <1>0 DEF AtWork, m
      <4> QED BY <2>6, <3>1, <4>1
    <3>4. Route(alert[Current(c)])' = Route(alert[m])
      BY <2>4, <2>7, Zenon
    <3> QED BY <2>1, <2>4, <2>7, <3>2, <3>3, <3>4 DEF AtWork
  <2>10. ASSUME NEW d \in Consumer, d # c PROVE AtWork(d)'
    <3>1. queue'[d] = queue[d] /\ outcome'[d] = outcome[d] /\ pc'[d] = pc[d]
      BY <2>2, <2>4, <2>10 DEF TypeOK
    <3>2. Current(d)' = Current(d) /\ Attempted(d)' = Attempted(d)
      BY <3>1, SameWork
    <3>3. m \notin queue[d] /\ queue[d] \subseteq Msg
      BY <2>3, <2>10 DEF Working, TypeOK
    <3>4. Route(alert[Current(d)])' = Route(alert[Current(d)])
      BY <2>4, <3>2, Zenon
    <3> QED BY <1>0, <2>6, <3>1, <3>2, <3>3, <3>4 DEF AtWork
  <2> QED BY <2>8, <2>9, <2>10 DEF Sending
(* Recording and stamping send nothing.                                    *)
<1>5. ASSUME NEW c \in Consumer,
             RecordDispatch(c) \/ RecordDispatchFails(c) \/ Stamp(c)
      PROVE  Sending'
  <2>1. /\ UNCHANGED <<alert, last, acked, queue, outcome, tries>>
        /\ \A d \in Consumer : d # c => pc'[d] = pc[d]
        /\ pc[c] \in {"stamp", "ack"} \/ Attempted(c) = Route(alert[Current(c)])
    BY <1>5 DEF RecordDispatch, RecordDispatchFails, Stamp, Gathered, stream, world, TypeOK
  <2>2. ASSUME NEW d \in Consumer PROVE AtWork(d)'
    BY <1>0, <2>1, QuietWork
  <2> QED BY <1>b, <2>1, <2>2 DEF Sending
(* An acknowledged entry was sent over its whole route, and the entry the  *)
(* consumer goes on to over none of it.                                    *)
<1>6. ASSUME NEW c \in Consumer, Ack(c) \/ AckFails(c) PROVE Sending'
  <2> DEFINE m == Current(c)
  <2>1. /\ UNCHANGED <<alert, last, tries>>
        /\ acked' \subseteq acked \cup {m}
        /\ queue' = [queue EXCEPT ![c] = queue[c] \ {m}]
        /\ outcome' = [outcome EXCEPT ![c] = {}]
        /\ pc[c] = "ack"
        /\ pc' = [pc EXCEPT ![c] = IF queue[c] = {m} THEN "idle" ELSE "sending"]
    BY <1>6 DEF Ack, AckFails, NextEntry, world
  <2>2. m \in queue[c] /\ m \in Msg
    BY <1>a, <2>1
  <2>3. \A ch \in Route(alert[m]) : tries[<<m, ch>>] = 1
    <3>1. Attempted(c) = Route(alert[m]) /\ Route(alert[m]) \subseteq Channel
      BY <1>0, <2>1 DEF AtWork, Route, Channel
    <3> QED BY <1>0, <2>2, <3>1 DEF AtWork
  <2>4. ASSUME NEW n \in Msg PROVE SentOf(n)'
    BY <1>0, <2>1, <2>3 DEF SentOf
  <2>5. AtWork(c)'
    <3>1. queue'[c] = queue[c] \ {m} /\ outcome'[c] = {} /\ pc'[c] \notin {"stamp", "ack"}
      BY <2>1 DEF TypeOK
    <3>2. Attempted(c)' = {}
      BY <3>1 DEF Attempted
    <3>3. \A n \in queue'[c], ch \in Channel : tries'[<<n, ch>>] = 0
      BY <1>0, <2>1, <3>1 DEF AtWork
    <3> QED BY <3>1, <3>2, <3>3 DEF AtWork
  <2>6. ASSUME NEW d \in Consumer, d # c PROVE AtWork(d)'
    <3>1. queue'[d] = queue[d] /\ outcome'[d] = outcome[d] /\ pc'[d] = pc[d]
      BY <2>1, <2>6 DEF TypeOK
    <3> QED BY <1>0, <2>1, <3>1, QuietWork
  <2> QED BY <2>4, <2>5, <2>6 DEF Sending
<1>7. ASSUME Crash \/ Restart PROVE Sending'
  <2>1. /\ UNCHANGED <<alert, last, acked, tries>>
        /\ \A d \in Consumer : queue'[d] = {} /\ pc'[d] \in {"idle", "down"}
    <3>1. Restart => \A c \in Consumer : queue[c] = {}
      BY DEF Restart, Working
    <3> QED BY <1>7, <3>1 DEF Crash, Restart, stream, world
  <2>2. ASSUME NEW d \in Consumer PROVE AtWork(d)'
    BY <2>1 DEF AtWork
  <2> QED BY <1>b, <2>1, <2>2 DEF Sending
<1>8. CASE UNCHANGED vars
  <2>1. UNCHANGED <<alert, last, acked, pc, queue, outcome, tries>>
    BY <1>8 DEF vars, stream, locals, world
  <2>2. ASSUME NEW d \in Consumer PROVE AtWork(d)'
    BY <1>0, <2>1, QuietWork
  <2> QED BY <1>b, <2>1, <2>2 DEF Sending
<1> QED BY <1>1, <1>2, <1>3, <1>4, <1>5, <1>6, <1>7, <1>8 DEF Next, Step

(* Nobody is sent an alert twice over a channel, and what the bus forgets  *)
(* was sent over its whole route.                                          *)
THEOREM SentOnce == Spec => []SentOnceBeforeAck
BY TypeInit, TypeStep, WorkingStep, SendingInit, SendingStep, SendingImpliesSentOnce,
   PTL DEF Spec

----------------------------------------------------------------------------
(* What was recorded of each entry: nothing beyond the cursor, behind the  *)
(* current entry of a consumer or before its outcomes were gathered; and   *)
(* the outcomes at hand are those that are about to be recorded.           *)
LoggedIn(L, m) == {r[2] : r \in {s \in L : s[1] = m}}

LoggedOf(m) ==
    /\ LoggedIn(log, m) \in {{}, Route(alert[m])}
    /\ m \in stamped => LoggedIn(log, m) # {}

RowsFit(L) ==
    /\ \A r \in L : r[3] = "sent" => <<r[1], r[2]>> \in delivered
    /\ \A r, s \in L : s[1] = r[1] /\ s[2] = r[2] => s = r

OutcomesFit(c) ==
    /\ \A o \in outcome[c] : o[2] = "sent" => <<Current(c), o[1]>> \in delivered
    /\ \A o, q \in outcome[c] : q[1] = o[1] => q = o

Unlogged(c) ==
    /\ \A m \in queue[c] : m # Current(c) \/ pc[c] = "sending" => LoggedIn(log, m) = {}
    /\ pc[c] = "stamp" => LoggedIn(log, Current(c)) # {}

Logging ==
    /\ RowsFit(log)
    /\ \A m \in 1 .. Len(alert) : LoggedOf(m)
    /\ \A m \in Msg : m > last => LoggedIn(log, m) = {} /\ m \notin stamped
    /\ \A c \in Consumer : OutcomesFit(c) /\ Unlogged(c)

LEMMA LoggingImpliesTruthful == Logging => LogIsTruthful
BY DEF Logging, RowsFit, LogIsTruthful

LEMMA LoggingImpliesComplete == Logging => LogIsComplete
BY DEF Logging, LoggedOf, LoggedIn, LogIsComplete

LEMMA LoggingInit == Init => Logging
BY DEF Init, Logging, RowsFit, LoggedOf, LoggedIn, OutcomesFit, Unlogged

(* The rows of one entry are of its outcomes' channels, and leave those of *)
(* other entries alone.                                                    *)
RowsOf(m, O) == {<<m, o[1], o[2]>> : o \in O}

LEMMA RowsOfOneEntry ==
    ASSUME NEW L, NEW m, NEW O
    PROVE  LoggedIn(L \cup RowsOf(m, O), m) = LoggedIn(L, m) \cup Channels(O)
<1> DEFINE rows == RowsOf(m, O)
<1>1. \A r \in rows : r[1] = m
  BY DEF RowsOf
<1>2. \A o \in O : <<m, o[1], o[2]>>[2] = o[1]
  OBVIOUS
<1>3. {r[2] : r \in rows} = Channels(O)
  BY <1>2, Zenon DEF Channels, RowsOf
<1> HIDE DEF rows
<1>4. {s \in L \cup rows : s[1] = m} = {s \in L : s[1] = m} \cup rows
  BY <1>1
<1>5. LoggedIn(L \cup rows, m) = LoggedIn(L, m) \cup {r[2] : r \in rows}
  BY <1>4, Zenon DEF LoggedIn
<1> QED BY <1>3, <1>5, Zenon DEF rows

LEMMA RowsOfOthers ==
    ASSUME NEW L, NEW m, NEW O, NEW n, n # m
    PROVE  LoggedIn(L \cup RowsOf(m, O), n) = LoggedIn(L, n)
<1>1. \A r \in RowsOf(m, O) : r[1] = m
  BY DEF RowsOf
<1>2. {s \in L \cup RowsOf(m, O) : s[1] = n} = {s \in L : s[1] = n}
  BY <1>1
<1> QED BY <1>2, Zenon DEF LoggedIn

LEMMA SentArrives == \A o \in SendOutcomes : o[1] = "sent" => o[2] = TRUE
<1>1. <<"sent", TRUE>>[2] = TRUE
  OBVIOUS
<1>2. <<"failed", TRUE>>[1] = "failed" /\ <<"failed", FALSE>>[1] = "failed"
  OBVIOUS
<1> QED BY <1>1, <1>2 DEF SendOutcomes

(* A consumer whose entry, outcomes and rows a step leaves alone.          *)
LEMMA QuietLog ==
    ASSUME NEW c \in Consumer, OutcomesFit(c), Unlogged(c),
           queue'[c] = queue[c], outcome'[c] = outcome[c], pc'[c] = pc[c],
           delivered \subseteq delivered',
           \A m \in queue[c] : LoggedIn(log, m)' = LoggedIn(log, m),
           pc[c] = "stamp" => Current(c) \in queue[c]
    PROVE  OutcomesFit(c)' /\ Unlogged(c)'
<1>1. Current(c)' = Current(c)
  BY SameWork
<1>2. OutcomesFit(c)'
  BY <1>1 DEF OutcomesFit
<1>3. Unlogged(c)'
  BY <1>1, Zenon DEF Unlogged
<1> QED BY <1>2, <1>3

LEMMA LoggingStep == TypeOK /\ Working /\ Logging /\ [Next]_vars => Logging'
<1> SUFFICES ASSUME TypeOK, Working, Logging, [Next]_vars PROVE Logging'
  OBVIOUS
<1>0. /\ RowsFit(log)
      /\ \A m \in 1 .. Len(alert) : LoggedOf(m)
      /\ \A m \in Msg : m > last => LoggedIn(log, m) = {} /\ m \notin stamped
      /\ \A c \in Consumer : OutcomesFit(c) /\ Unlogged(c)
  BY DEF Logging
<1>a. ASSUME NEW c \in Consumer, pc[c] \in {"sending", "stamp", "ack"}
      PROVE  /\ Current(c) \in queue[c] /\ Current(c) \in Msg
             /\ Current(c) <= last /\ Current(c) \in 1 .. Len(alert)
  BY <1>a, CurrentIsOldest DEF TypeOK, Working
(* Steps that record nothing keep the rows and the history of each alert.  *)
<1>b. ASSUME UNCHANGED log, delivered \subseteq delivered' PROVE RowsFit(log)'
  BY <1>0, <1>b DEF RowsFit
<1>c. ASSUME UNCHANGED <<alert, log, stamped>>
      PROVE  \A m \in 1 .. Len(alert') : LoggedOf(m)'
  BY <1>0, <1>c DEF LoggedOf
<1>d. ASSUME UNCHANGED <<log, stamped>>, last' \in Nat, last <= last'
      PROVE  \A m \in Msg : m > last' => LoggedIn(log', m) = {} /\ m \notin stamped'
  BY <1>0, <1>d DEF TypeOK, Msg
<1>e. ASSUME NEW c \in Consumer, UNCHANGED log, delivered \subseteq delivered',
             queue'[c] = queue[c], outcome'[c] = outcome[c], pc'[c] = pc[c]
      PROVE  OutcomesFit(c)' /\ Unlogged(c)'
  BY <1>0, <1>a, <1>e, QuietLog
<1>1. ASSUME NEW a \in Alert, Publish(a) PROVE Logging'
  <2>1. UNCHANGED <<last, pc, queue, outcome, delivered, log, stamped>>
    BY <1>1 DEF Publish, locals, world, lake
  <2>2. ASSUME NEW m \in 1 .. Len(alert') PROVE LoggedOf(m)'
    <3>1. CASE m \in 1 .. Len(alert)
      <4>1. alert'[m] = alert[m]
        BY <1>1, <3>1 DEF Publish, TypeOK
      <4> QED BY <1>0, <2>1, <3>1, <4>1 DEF LoggedOf
    <3>2. CASE m \notin 1 .. Len(alert)
      <4>1. m = Len(alert) + 1 /\ m <= MaxMsgs
        <5>1. Len(alert') = Len(alert) + 1 /\ Len(alert) < MaxMsgs /\ Len(alert) \in Nat
          BY <1>1 DEF Publish, TypeOK
        <5> QED BY <3>2, <5>1, DispatchAssumption
      <4>2. m \in Msg /\ m > last
        BY <4>1, DispatchAssumption DEF TypeOK, Msg
      <4> QED BY <1>0, <2>1, <4>2 DEF LoggedOf
    <3> QED BY <3>1, <3>2
  <2> QED BY <1>b, <1>d, <1>e, <2>1, <2>2 DEF Logging, TypeOK
<1>2. ASSUME NEW c \in Consumer, Read(c) PROVE Logging'
  <2>1. /\ last < Oldest /\ Oldest .. Newest \subseteq Msg /\ last' = Newest
        /\ Oldest \in Nat /\ Newest \in Nat /\ Oldest <= Newest /\ last <= last'
        /\ UNCHANGED <<alert, outcome, delivered, log, stamped>> /\ outcome[c] = {}
        /\ queue' = [queue EXCEPT ![c] = Oldest .. Newest]
        /\ pc' = [pc EXCEPT ![c] = "sending"]
    <3>1. /\ last < Oldest /\ Oldest .. Newest \subseteq Msg
          /\ Oldest \in Nat /\ Newest \in Nat /\ Oldest <= Newest
      BY <1>2, ReadInterval DEF Read
    <3>2. last' = Newest /\ last <= last'
      BY <1>2, <3>1 DEF Read, TypeOK
    <3>3. outcome[c] = {}
      BY <1>2 DEF Read, Working
    <3> QED BY <1>2, <3>1, <3>2, <3>3 DEF Read, world, lake
  <2>2. OutcomesFit(c)' /\ Unlogged(c)'
    <3>1. ASSUME NEW m \in queue'[c] PROVE LoggedIn(log', m) = {}
      <4>1. m \in Msg /\ m > last
        BY <2>1 DEF TypeOK
      <4> QED BY <1>0, <2>1, <4>1
    <3>2. pc'[c] = "sending" /\ outcome'[c] = {}
      BY <2>1 DEF TypeOK
    <3> QED BY <3>1, <3>2 DEF OutcomesFit, Unlogged
  <2>3. ASSUME NEW d \in Consumer, d # c PROVE OutcomesFit(d)' /\ Unlogged(d)'
    BY <1>e, <2>1, <2>3 DEF TypeOK
  <2> QED BY <1>b, <1>c, <1>d, <2>1, <2>2, <2>3 DEF Logging
<1>3. ASSUME NEW c \in Consumer, ReadLost(c) PROVE Logging'
  <2>1. /\ last <= last' /\ last' \in Nat
        /\ UNCHANGED <<alert, pc, queue, outcome, delivered, log, stamped>>
    BY <1>3, ReadInterval DEF ReadLost, locals, world, lake, TypeOK
  <2> QED BY <1>b, <1>c, <1>d, <1>e, <2>1 DEF Logging
(* An outcome says "sent" only of what arrived, and there is one of a      *)
(* channel.                                                                *)
<1>4. ASSUME NEW c \in Consumer, Send(c) PROVE Logging'
  <2> DEFINE m == Current(c)
  <2>1. PICK ch \in Route(alert[m]) \ Attempted(c) : \E o \in SendOutcomes :
          /\ outcome' = [outcome EXCEPT ![c] = @ \cup {<<ch, o[1]>>}]
          /\ delivered' = IF o[2] THEN delivered \cup {<<m, ch>>} ELSE delivered
    BY <1>4, Zenon DEF Send
  <2>2. PICK o \in SendOutcomes :
          /\ outcome' = [outcome EXCEPT ![c] = @ \cup {<<ch, o[1]>>}]
          /\ delivered' = IF o[2] THEN delivered \cup {<<m, ch>>} ELSE delivered
    BY <2>1
  <2>3. delivered \subseteq delivered' /\ (o[1] = "sent" => <<m, ch>> \in delivered')
    BY <2>2, SentArrives
  <2>4. UNCHANGED <<alert, last, pc, queue, log, stamped>> /\ pc[c] = "sending"
    BY <1>4 DEF Send, stream, lake
  <2>5. Current(c)' = m
    BY <2>4, SameWork
  <2>6. \A q \in outcome[c] : q[1] # ch
    BY <2>1 DEF Attempted
  <2>7. outcome'[c] = outcome[c] \cup {<<ch, o[1]>>}
    BY <2>2 DEF TypeOK
  <2> HIDE DEF m
  <2>8. OutcomesFit(c)'
    <3>1. ASSUME NEW q \in outcome'[c], q[2] = "sent" PROVE <<m, q[1]>> \in delivered'
      <4>1. CASE q \in outcome[c]
        BY <1>0, <2>3, <3>1, <4>1 DEF OutcomesFit, m
      <4>2. CASE q = <<ch, o[1]>>
        BY <2>3, <3>1, <4>2
      <4> QED BY <2>7, <4>1, <4>2
    <3>2. ASSUME NEW q \in outcome'[c], NEW r \in outcome'[c], r[1] = q[1] PROVE r = q
      <4>1. \A x \in outcome'[c] : x \in outcome[c] \/ x = <<ch, o[1]>>
        BY <2>7
      <4>2. <<ch, o[1]>>[1] = ch
        OBVIOUS
      <4> QED BY <1>0, <2>6, <3>2, <4>1, <4>2, Zenon DEF OutcomesFit
    <3> QED BY <2>5, <3>1, <3>2 DEF OutcomesFit
  <2>9. Unlogged(c)'
    BY <1>0, <2>4, <2>5 DEF Unlogged, m
  <2>10. ASSUME NEW d \in Consumer, d # c PROVE OutcomesFit(d)' /\ Unlogged(d)'
    BY <1>e, <2>2, <2>3, <2>4, <2>10 DEF TypeOK
  <2>11. last' \in Nat /\ last <= last'
    BY <2>4 DEF TypeOK
  <2> QED BY <1>b, <1>c, <1>d, <2>3, <2>4, <2>8, <2>9, <2>10, <2>11 DEF Logging
(* Gathered outcomes become rows of an entry that had none.                *)
<1>5. ASSUME NEW c \in Consumer, Gathered(c), UNCHANGED <<alert, last, queue, outcome, delivered, stamped>>,
             pc' = [pc EXCEPT ![c] = "ack"] \/ pc' = [pc EXCEPT ![c] = "stamp"],
             log' = log \cup LogRows(c)
      PROVE  Logging'
  <2> DEFINE m == Current(c)
  <2>1. /\ m \in queue[c] /\ m \in Msg /\ m <= last /\ m \in 1 .. Len(alert)
        /\ Attempted(c) = Route(alert[m]) /\ pc[c] = "sending"
    BY <1>5, <1>a DEF Gathered
  <2>2. Current(c)' = m
    BY <1>5, SameWork
  <2>3. LoggedIn(log, m) = {}
    BY <1>0, <2>1 DEF Unlogged
  <2>4. \A n : LoggedIn(log', n) = IF n = m THEN Route(alert[m]) ELSE LoggedIn(log, n)
    <3>1. Channels(outcome[c]) = Route(alert[m])
      BY <2>1, Zenon DEF Attempted, Channels
    <3>2. log' = log \cup RowsOf(m, outcome[c])
      BY <1>5, Zenon DEF LogRows, RowsOf
    <3>3. LoggedIn(log', m) = LoggedIn(log, m) \cup Channels(outcome[c])
      BY <3>2, RowsOfOneEntry, Zenon
    <3>4. ASSUME NEW n, n # m PROVE LoggedIn(log', n) = LoggedIn(log, n)
      <4>1. LoggedIn(log \cup RowsOf(m, outcome[c]), n) = LoggedIn(log, n)
        BY <3>4, RowsOfOthers
      <4> QED BY <3>2, <4>1, Zenon
    <3> QED BY <2>3, <3>1, <3>3, <3>4
  <2>5. Route(alert[m]) # {}
    <3>1. alert[m] \in Alert
      BY <2>1 DEF TypeOK
    <3>2. "teams" \in Route(alert[m])
      BY <3>1, DispatchAssumption DEF Route
    <3> QED BY <3>2
  <2>6. RowsFit(log)'
    <3>1. \A r \in log' : r \in log \/ \E o \in outcome[c] : r = <<m, o[1], o[2]>>
      BY <1>5 DEF LogRows
    <3>2. \A r \in log : r[1] # m
      BY <2>3 DEF LoggedIn
    <3>3. ASSUME NEW r \in log', r[3] = "sent" PROVE <<r[1], r[2]>> \in delivered'
      <4>1. CASE r \in log
        BY <1>0, <1>5, <3>3, <4>1 DEF RowsFit
      <4>2. ASSUME NEW o \in outcome[c], r = <<m, o[1], o[2]>>
            PROVE  <<r[1], r[2]>> \in delivered'
        <5>1. r[1] = m /\ r[2] = o[1] /\ r[3] = o[2]
          BY <4>2
        <5> QED BY <1>0, <1>5, <3>3, <5>1 DEF OutcomesFit
      <4> QED BY <3>1, <4>1, <4>2
    <3>4. ASSUME NEW r \in log', NEW s \in log', s[1] = r[1], s[2] = r[2] PROVE s = r
      <4>1. CASE r \in log /\ s \in log
        BY <1>0, <3>4, <4>1 DEF RowsFit
      <4>2. ASSUME NEW o \in outcome[c], r = <<m, o[1], o[2]>> PROVE s = r
        <5>1. s \notin log
          BY <3>2, <3>4, <4>2
        <5>2. PICK q \in outcome[c] : s = <<m, q[1], q[2]>>
          BY <3>1, <5>1
        <5>3. q[1] = o[1]
          BY <3>4, <4>2, <5>2
        <5>4. q = o
          BY <1>0, <5>3 DEF OutcomesFit
        <5> QED BY <4>2, <5>2, <5>4
      <4>3. ASSUME NEW o \in outcome[c], s = <<m, o[1], o[2]>>, r \in log PROVE s = r
        BY <3>2, <3>4, <4>3
      <4> QED BY <3>1, <4>1, <4>2, <4>3
    <3> QED BY <3>3, <3>4 DEF RowsFit
  <2>7. ASSUME NEW n \in 1 .. Len(alert') PROVE LoggedOf(n)'
    BY <1>0, <1>5, <2>4, <2>5 DEF LoggedOf
  <2>8. ASSUME NEW n \in Msg, n > last' PROVE LoggedIn(log', n) = {} /\ n \notin stamped'
    <3>1. n # m /\ n > last
      BY <1>5, <2>1, <2>8 DEF TypeOK, Msg
    <3> QED BY <1>0, <1>5, <2>4, <3>1
  <2>9. OutcomesFit(c)' /\ Unlogged(c)'
    <3>1. OutcomesFit(c)'
      BY <1>0, <1>5, <2>2 DEF OutcomesFit
    <3>2. pc'[c] \in {"stamp", "ack"}
      BY <1>5 DEF TypeOK
    <3>3. \A n \in queue[c] : n # m => LoggedIn(log', n) = {}
      BY <1>0, <2>4 DEF Unlogged
    <3>4. LoggedIn(log', m) # {}
      BY <2>4, <2>5
    <3> QED BY <1>5, <2>2, <3>1, <3>2, <3>3, <3>4 DEF Unlogged
  <2>10. ASSUME NEW d \in Consumer, d # c PROVE OutcomesFit(d)' /\ Unlogged(d)'
    <3>1. queue'[d] = queue[d] /\ outcome'[d] = outcome[d] /\ pc'[d] = pc[d]
      BY <1>5, <2>10 DEF TypeOK
    <3>2. \A n \in queue[d] : LoggedIn(log, n)' = LoggedIn(log, n)
      BY <2>1, <2>4, <2>10 DEF Working
    <3> QED BY <1>0, <1>5, <1>a, <3>1, <3>2, QuietLog
  <2> QED BY <2>6, <2>7, <2>8, <2>9, <2>10 DEF Logging
<1>6. ASSUME NEW c \in Consumer, RecordDispatch(c) PROVE Logging'
  BY <1>5, <1>6 DEF RecordDispatch, Gathered, stream, world
(* Recording fails before or after the commit took effect; a stamp is only *)
(* attempted after a commit that answered.                                 *)
<1>7. ASSUME NEW c \in Consumer, UNCHANGED <<alert, last, queue, outcome, delivered, log>>,
             pc' = [pc EXCEPT ![c] = "ack"], pc[c] \in {"sending", "stamp"},
             stamped' \subseteq stamped \cup (IF pc[c] = "stamp" THEN {Current(c)} ELSE {})
      PROVE  Logging'
  <2>1. Current(c) \in 1 .. Len(alert) /\ Current(c) <= last /\ Current(c) \in queue[c]
    BY <1>7, <1>a
  <2>2. Current(c)' = Current(c)
    BY <1>7, SameWork
  <2>3. ASSUME NEW n \in 1 .. Len(alert') PROVE LoggedOf(n)'
    BY <1>0, <1>7, <2>1 DEF LoggedOf, Unlogged
  <2>4. ASSUME NEW n \in Msg, n > last' PROVE LoggedIn(log', n) = {} /\ n \notin stamped'
    <3>1. n # Current(c)
      BY <1>7, <2>1, <2>4 DEF TypeOK, Msg
    <3> QED BY <1>0, <1>7, <2>4, <3>1
  <2>5. OutcomesFit(c)' /\ Unlogged(c)'
    <3>1. pc'[c] = "ack"
      BY <1>7 DEF TypeOK
    <3> QED BY <1>0, <1>7, <2>2, <3>1 DEF OutcomesFit, Unlogged
  <2>6. ASSUME NEW d \in Consumer, d # c PROVE OutcomesFit(d)' /\ Unlogged(d)'
    BY <1>e, <1>7, <2>6 DEF TypeOK
  <2> QED BY <1>b, <1>7, <2>3, <2>4, <2>5, <2>6 DEF Logging
<1>8. ASSUME NEW c \in Consumer, RecordDispatchFails(c) PROVE Logging'
  <2>1. CASE log' = log
    BY <1>7, <1>8, <2>1 DEF RecordDispatchFails, Gathered, stream, world
  <2>2. CASE log' = log \cup LogRows(c)
    BY <1>5, <1>8, <2>2 DEF RecordDispatchFails, stream, world
  <2> QED BY <1>8, <2>1, <2>2 DEF RecordDispatchFails
<1>9. ASSUME NEW c \in Consumer, Stamp(c) PROVE Logging'
  BY <1>7, <1>9 DEF Stamp, stream, world
(* The entry a consumer goes on to has no rows yet.                        *)
<1>10. ASSUME NEW c \in Consumer, Ack(c) \/ AckFails(c) PROVE Logging'
  <2> DEFINE m == Current(c)
  <2>1. /\ UNCHANGED <<alert, last, delivered, log, stamped>>
        /\ queue' = [queue EXCEPT ![c] = queue[c] \ {m}]
        /\ outcome' = [outcome EXCEPT ![c] = {}]
        /\ pc' = [pc EXCEPT ![c] = IF queue[c] = {m} THEN "idle" ELSE "sending"]
    BY <1>10 DEF Ack, AckFails, NextEntry, world, lake
  <2>2. OutcomesFit(c)' /\ Unlogged(c)'
    <3>1. queue'[c] = queue[c] \ {m} /\ outcome'[c] = {} /\ pc'[c] \in {"idle", "sending"}
      BY <2>1 DEF TypeOK
    <3>2. \A n \in queue'[c] : LoggedIn(log', n) = {}
      BY <1>0, <2>1, <3>1 DEF Unlogged
    <3> QED BY <3>1, <3>2 DEF OutcomesFit, Unlogged
  <2>3. ASSUME NEW d \in Consumer, d # c PROVE OutcomesFit(d)' /\ Unlogged(d)'
    BY <1>e, <2>1, <2>3 DEF TypeOK
  <2>4. last' \in Nat /\ last <= last'
    BY <2>1 DEF TypeOK
  <2> QED BY <1>b, <1>c, <1>d, <2>1, <2>2, <2>3, <2>4 DEF Logging
<1>11. ASSUME Crash \/ Restart PROVE Logging'
  <2>1. /\ UNCHANGED <<alert, last, delivered, log, stamped>>
        /\ \A d \in Consumer : queue'[d] = {} /\ outcome'[d] = {} /\ pc'[d] # "stamp"
    <3>1. Restart => \A d \in Consumer : queue[d] = {} /\ outcome[d] = {}
      BY DEF Restart, Working
    <3> QED BY <1>11, <3>1 DEF Crash, Restart, stream, world, lake
  <2>2. ASSUME NEW d \in Consumer PROVE OutcomesFit(d)' /\ Unlogged(d)'
    BY <2>1 DEF OutcomesFit, Unlogged
  <2>3. last' \in Nat /\ last <= last'
    BY <2>1 DEF TypeOK
  <2> QED BY <1>b, <1>c, <1>d, <2>1, <2>2, <2>3 DEF Logging
<1>12. CASE UNCHANGED vars
  <2>1. UNCHANGED <<alert, last, pc, queue, outcome, delivered, log, stamped>>
    BY <1>12 DEF vars, stream, locals, world, lake
  <2>2. last' \in Nat /\ last <= last'
    BY <2>1 DEF TypeOK
  <2> QED BY <1>b, <1>c, <1>d, <1>e, <2>1, <2>2 DEF Logging
<1> QED
  BY <1>1, <1>2, <1>3, <1>4, <1>6, <1>8, <1>9, <1>10, <1>11, <1>12 DEF Next, Step

(* The dispatch history never claims a delivery that did not happen, and   *)
(* has one row of a channel.                                               *)
THEOREM HistoryIsTruthful == Spec => []LogIsTruthful
BY TypeInit, TypeStep, WorkingStep, LoggingInit, LoggingStep,
   LoggingImpliesTruthful, PTL DEF Spec

(* It has a row of every channel of an alert or none, and every one of an  *)
(* alert that is marked as dispatched.                                     *)
THEOREM HistoryIsComplete == Spec => []LogIsComplete
BY TypeInit, TypeStep, WorkingStep, LoggingInit, LoggingStep,
   LoggingImpliesComplete, PTL DEF Spec
----------------------------------------------------------------------------
(* Progress.  What a consumer has before it until it reads again, in steps *)
(* of its own: an alert takes six at most, one per channel, the record,    *)
(* the stamp and the acknowledgement.                                      *)
Busy(c) == pc[c] \notin {"idle", "down"}

Ahead(c) ==
    CASE pc[c] = "sending" -> 6 - Cardinality(Attempted(c))
      [] pc[c] = "stamp"   -> 2
      [] pc[c] = "ack"     -> 1
      [] OTHER -> 0

Work(c) == IF Busy(c) THEN 6 * (Cardinality(queue[c]) - 1) + Ahead(c) ELSE 0

(* The guard of one of a busy consumer's steps holds.                      *)
Ready(c) ==
    \/ /\ pc[c] = "sending"
       /\ \/ Gathered(c)
          \/ Route(alert[Current(c)]) \ Attempted(c) # {}
    \/ pc[c] \in {"stamp", "ack"}

(* No consumer wedges: while it has entries in hand it can take a step,    *)
(* whatever the adapters, the database and Redis answered, and it has only *)
(* so many before it.                                                      *)
NeverWedged ==
    \A c \in Consumer : Busy(c) => Ready(c) /\ Work(c) \in 1 .. 6 * BatchSize

(* Each step a busy consumer takes brings it nearer to the end of its      *)
(* batch, and nobody else adds to its work: others leave it alone or take  *)
(* the container down.                                                     *)
BatchesEnd ==
    [][\A c \in Consumer : Busy(c) =>
          IF Step(c) THEN Work(c)' < Work(c)
          ELSE pc'[c] = "down" \/ UNCHANGED <<pc[c], queue[c], outcome[c]>>]_vars

(* A batch has BatchSize entries at most.                                  *)
Sized == \A c \in Consumer : Cardinality(queue[c]) <= BatchSize

LEMMA FiniteQueues ==
    ASSUME NEW S \in SUBSET Msg
    PROVE  IsFiniteSet(S) /\ Cardinality(S) \in Nat /\ (S # {} => Cardinality(S) > 0)
<1>1. IsFiniteSet(Msg)
  BY FS_Interval, DispatchAssumption DEF Msg
<1> QED BY <1>1, FS_Subset, FS_CardinalityType, FS_EmptySet

LEMMA FewChannels ==
    ASSUME NEW S \in SUBSET Channel
    PROVE  IsFiniteSet(S) /\ Cardinality(S) \in 0 .. 3
<1>1. IsFiniteSet({"email"}) /\ Cardinality({"email"}) = 1
  BY FS_Singleton
<1>2. /\ IsFiniteSet({"email"} \cup {"teams"})
      /\ Cardinality({"email"} \cup {"teams"}) = 2
  BY <1>1, FS_AddElement
<1>3. /\ IsFiniteSet({"email"} \cup {"teams"} \cup {"pagerduty"})
      /\ Cardinality({"email"} \cup {"teams"} \cup {"pagerduty"}) = 3
  BY <1>2, FS_AddElement
<1>4. Channel = {"email"} \cup {"teams"} \cup {"pagerduty"}
  BY DEF Channel
<1>5. IsFiniteSet(Channel) /\ Cardinality(Channel) = 3
  BY <1>3, <1>4
<1>6. /\ IsFiniteSet(S) /\ Cardinality(S) \in Nat
      /\ Cardinality(S) <= Cardinality(Channel)
  BY <1>5, FS_Subset, FS_CardinalityType
<1> QED BY <1>5, <1>6

(* A busy consumer has something in its queue, and the channels it has     *)
(* attempted are ones there are.                                           *)
LEMMA BusyQueues ==
    ASSUME TypeOK, Working, Sized, NEW c \in Consumer
    PROVE  /\ queue[c] \in SUBSET Msg /\ Attempted(c) \in SUBSET Channel
           /\ Cardinality(queue[c]) \in 0 .. BatchSize
           /\ Busy(c) => /\ pc[c] \in {"sending", "stamp", "ack"}
                         /\ Current(c) \in queue[c] /\ Cardinality(queue[c]) > 0
<1>1. /\ queue[c] \in SUBSET Msg /\ outcome[c] \in SUBSET (Channel \X Status)
      /\ pc[c] \in Phase
  BY DEF TypeOK
<1>2. Attempted(c) \in SUBSET Channel
  BY <1>1 DEF Attempted
<1>3. Cardinality(queue[c]) \in 0 .. BatchSize
  BY <1>1, FiniteQueues, DispatchAssumption DEF Sized
<1>4. ASSUME Busy(c)
      PROVE  /\ pc[c] \in {"sending", "stamp", "ack"}
             /\ Current(c) \in queue[c] /\ Cardinality(queue[c]) > 0
  <2>1. pc[c] \in {"sending", "stamp", "ack"} /\ queue[c] # {}
    BY <1>1, <1>4 DEF Busy, Phase, Working
  <2> QED BY <1>1, <2>1, CurrentIsOldest, FiniteQueues
<1> QED BY <1>1, <1>2, <1>3, <1>4

LEMMA SizedInit == Init => Sized
BY FS_EmptySet, DispatchAssumption DEF Init, Sized

(* What finishing an entry leaves of the queue.                            *)
LEMMA QueueShrinks ==
    ASSUME TypeOK, Working, Sized, NEW c \in Consumer, Busy(c), NextEntry(c)
    PROVE  /\ Cardinality(queue'[c]) = Cardinality(queue[c]) - 1
           /\ outcome'[c] = {} /\ pc'[c] \in {"idle", "sending"}
           /\ pc'[c] = "sending" => Cardinality(queue'[c]) > 0
           /\ \A d \in Consumer \ {c} :
                UNCHANGED <<pc[d], queue[d], outcome[d]>>
<1>1. /\ queue[c] \in SUBSET Msg /\ Current(c) \in queue[c]
      /\ Cardinality(queue[c]) \in 0 .. BatchSize
  BY BusyQueues
<1>2. /\ queue'[c] = queue[c] \ {Current(c)} /\ outcome'[c] = {}
      /\ pc'[c] = IF queue[c] = {Current(c)} THEN "idle" ELSE "sending"
      /\ \A d \in Consumer \ {c} : UNCHANGED <<pc[d], queue[d], outcome[d]>>
  <2> HIDE DEF Current
  <2> QED BY DEF NextEntry, TypeOK
<1>3. Cardinality(queue'[c]) = Cardinality(queue[c]) - 1
  BY <1>1, <1>2, FiniteQueues, FS_RemoveElement
<1>4. pc'[c] = "sending" => Cardinality(queue'[c]) > 0
  <2>1. pc'[c] = "sending" => queue'[c] # {}
    BY <1>1, <1>2
  <2>2. queue'[c] \in SUBSET Msg
    BY <1>1, <1>2
  <2> QED BY <2>1, <2>2, FiniteQueues
<1> QED BY <1>2, <1>3, <1>4

LEMMA SizedStep == TypeOK /\ Working /\ Sized /\ [Next]_vars => Sized'
<1> SUFFICES ASSUME TypeOK, Working, Sized, [Next]_vars PROVE Sized'
  OBVIOUS
<1>a. ASSUME UNCHANGED queue PROVE Sized'
  BY <1>a DEF Sized
<1>b. Cardinality({}) = 0 /\ BatchSize \in Nat \ {0}
  BY FS_EmptySet, DispatchAssumption
<1>1. ASSUME NEW a \in Alert, Publish(a) PROVE Sized'
  BY <1>1, <1>a DEF Publish, locals
<1>2. ASSUME NEW c \in Consumer, Read(c) PROVE Sized'
  <2>1. /\ Oldest \in Int /\ Newest \in Int /\ Oldest <= Newest
        /\ Newest <= Oldest + BatchSize - 1
    BY <1>2, <1>b, ReadInterval DEF Read, Newest, TypeOK
  <2>2. Cardinality(Oldest .. Newest) <= BatchSize
    <3>1. Cardinality(Oldest .. Newest) = Newest - Oldest + 1
      BY <2>1, FS_Interval
    <3> QED BY <2>1, <3>1, <1>b
  <2>3. queue' = [queue EXCEPT ![c] = Oldest .. Newest]
    BY <1>2 DEF Read
  <2> HIDE DEF Oldest, Newest
  <2> QED BY <2>2, <2>3 DEF Sized, TypeOK
<1>3. ASSUME NEW c \in Consumer, ReadLost(c) PROVE Sized'
  BY <1>3, <1>a DEF ReadLost, locals
<1>4. ASSUME NEW c \in Consumer,
             Send(c) \/ RecordDispatch(c) \/ RecordDispatchFails(c) \/ Stamp(c)
      PROVE  Sized'
  BY <1>4, <1>a DEF Send, RecordDispatch, RecordDispatchFails, Stamp
<1>5. ASSUME NEW c \in Consumer, Ack(c) \/ AckFails(c) PROVE Sized'
  <2>1. Busy(c) /\ NextEntry(c)
    BY <1>5 DEF Ack, AckFails, Busy
  <2>2. Cardinality(queue[c]) \in 0 .. BatchSize
    BY BusyQueues
  <2>3. /\ Cardinality(queue'[c]) = Cardinality(queue[c]) - 1
        /\ \A d \in Consumer \ {c} : queue'[d] = queue[d]
    BY <2>1, QueueShrinks
  <2> QED BY <1>b, <2>2, <2>3 DEF Sized
<1>6. ASSUME Crash PROVE Sized'
  BY <1>6, <1>b DEF Crash, Sized
<1>7. ASSUME Restart PROVE Sized'
  BY <1>7, <1>a DEF Restart
<1>8. CASE UNCHANGED vars
  BY <1>8, <1>a DEF vars, locals
<1> QED BY <1>1, <1>2, <1>3, <1>4, <1>5, <1>6, <1>7, <1>8 DEF Next, Step

LEMMA Sizes == Spec => [](TypeOK /\ Working /\ Sending /\ Sized)
BY TypeInit, TypeStep, WorkingStep, SendingInit, SendingStep, SizedInit, SizedStep, PTL
   DEF Spec

(* NeverWedged: an alert that cannot be sent, recorded, stamped or         *)
(* acknowledged never holds its consumer up.                               *)
THEOREM ConsumersProceed == Spec => []NeverWedged
<1>1. ASSUME TypeOK, Working, Sending, Sized, NEW c \in Consumer, Busy(c)
      PROVE  Ready(c) /\ Work(c) \in 1 .. 6 * BatchSize
  <2>1. /\ queue[c] \in SUBSET Msg /\ Attempted(c) \in SUBSET Channel
        /\ Cardinality(queue[c]) \in 1 .. BatchSize
        /\ pc[c] \in {"sending", "stamp", "ack"} /\ queue[c] # {}
    BY <1>1, BusyQueues
  <2>2. Attempted(c) \subseteq Route(alert[Current(c)])
    BY <1>1, <2>1 DEF Sending, AtWork
  <2>3. Ready(c)
    BY <2>1, <2>2, Zenon DEF Ready, Gathered
  <2>4. Cardinality(Attempted(c)) \in 0 .. 3
    BY <2>1, FewChannels
  <2>5. Ahead(c) \in 1 .. 6
    BY <2>1, <2>4 DEF Ahead
  <2>6. Work(c) = 6 * (Cardinality(queue[c]) - 1) + Ahead(c)
    BY <1>1 DEF Work
  <2> QED BY <2>1, <2>3, <2>5, <2>6, DispatchAssumption
<1>2. TypeOK /\ Working /\ Sending /\ Sized => NeverWedged
  BY <1>1 DEF NeverWedged
<1> QED BY <1>2, Sizes, PTL

(* BatchesEnd: with ConsumersProceed, all of EventuallySettled but that a  *)
(* consumer that can take a step takes one.                                *)
THEOREM BatchesAreFinite == Spec => BatchesEnd
<1> DEFINE Ends(c) == Busy(c) =>
              IF Step(c) THEN Work(c)' < Work(c)
              ELSE pc'[c] = "down" \/ UNCHANGED <<pc[c], queue[c], outcome[c]>>
<1>1. ASSUME TypeOK, Working, Sized, NEW c \in Consumer, Busy(c), Step(c)
      PROVE  Work(c)' < Work(c)
  <2>0. /\ Attempted(c) \in SUBSET Channel /\ pc[c] # "idle"
        /\ Cardinality(queue[c]) \in Nat /\ Cardinality(queue[c]) > 0
        /\ Cardinality(Attempted(c)) \in 0 .. 3 /\ IsFiniteSet(Attempted(c))
    BY <1>1, BusyQueues, FewChannels, DispatchAssumption DEF Busy
  <2>a. Work(c) = 6 * (Cardinality(queue[c]) - 1) + Ahead(c)
    BY <1>1 DEF Work
  <2>b. ASSUME queue'[c] = queue[c], pc'[c] \notin {"idle", "down"}
        PROVE  Work(c)' = 6 * (Cardinality(queue[c]) - 1) + Ahead(c)'
    BY <2>b DEF Work, Busy
  <2>1. CASE Send(c)
    <3>1. PICK ch \in Route(alert[Current(c)]) \ Attempted(c), o \in SendOutcomes :
            outcome' = [outcome EXCEPT ![c] = @ \cup {<<ch, o[1]>>}]
      BY <2>1, Zenon DEF Send
    <3>2. outcome'[c] = outcome[c] \cup {<<ch, o[1]>>}
      BY <1>1, <3>1 DEF TypeOK
    <3>3. Attempted(c)' = Attempted(c) \cup {ch}
      <4>1. Attempted(c) = Channels(outcome[c]) /\ Attempted(c)' = Channels(outcome'[c])
        BY Zenon DEF Attempted, Channels
      <4>2. Channels(outcome[c] \cup {<<ch, o[1]>>}) = Channels(outcome[c]) \cup {ch}
        BY ChannelsOfOneMore
      <4>3. Channels(outcome'[c]) = Channels(outcome[c]) \cup {ch}
        BY <3>2, <4>2, Zenon
      <4> QED BY <4>1, <4>3, Zenon
    <3>4. Cardinality(Attempted(c)') = Cardinality(Attempted(c)) + 1
      BY <2>0, <3>1, <3>3, FS_AddElement
    <3>5. pc[c] = "sending" /\ pc'[c] = "sending" /\ queue'[c] = queue[c]
      BY <2>1 DEF Send
    <3>6. Ahead(c)' = Ahead(c) - 1 /\ Ahead(c) \in Int
      BY <2>0, <3>4, <3>5 DEF Ahead
    <3> QED BY <2>0, <2>a, <2>b, <3>5, <3>6
  <2>2. CASE RecordDispatch(c) \/ RecordDispatchFails(c)
    <3>1. /\ pc[c] = "sending" /\ pc'[c] \in {"stamp", "ack"} /\ queue'[c] = queue[c]
      BY <1>1, <2>2 DEF RecordDispatch, RecordDispatchFails, Gathered, TypeOK
    <3>2. Ahead(c)' \in 1 .. 2 /\ Ahead(c) \in 3 .. 6
      BY <2>0, <3>1 DEF Ahead
    <3> QED BY <2>0, <2>a, <2>b, <3>1, <3>2
  <2>3. CASE Stamp(c)
    <3>1. pc[c] = "stamp" /\ pc'[c] = "ack" /\ queue'[c] = queue[c]
      BY <1>1, <2>3 DEF Stamp, TypeOK
    <3>2. Ahead(c)' = 1 /\ Ahead(c) = 2
      BY <3>1 DEF Ahead
    <3> QED BY <2>0, <2>a, <2>b, <3>1, <3>2
  <2>4. CASE Ack(c) \/ AckFails(c)
    <3>1. pc[c] = "ack" /\ NextEntry(c)
      BY <2>4 DEF Ack, AckFails
    <3>2. /\ Cardinality(queue'[c]) = Cardinality(queue[c]) - 1
          /\ outcome'[c] = {} /\ pc'[c] \in {"idle", "sending"}
      BY <1>1, <3>1, QueueShrinks
    <3>3. Ahead(c) = 1
      BY <3>1 DEF Ahead
    <3>4. CASE pc'[c] = "idle"
      BY <2>0, <2>a, <3>3, <3>4 DEF Work, Busy
    <3>5. CASE pc'[c] = "sending"
      <4>1. Cardinality(Attempted(c)') = 0
        BY <3>2, FS_EmptySet DEF Attempted
      <4>2. Ahead(c)' = 6
        BY <3>5, <4>1 DEF Ahead
      <4>3. Work(c)' = 6 * (Cardinality(queue'[c]) - 1) + Ahead(c)'
        BY <3>5 DEF Work, Busy
      <4> QED BY <2>0, <2>a, <3>2, <3>3, <4>2, <4>3
    <3> QED BY <3>2, <3>4, <3>5
  <2>5. ~Read(c) /\ ~ReadLost(c)
    BY <2>0 DEF Read, ReadLost
  <2> QED BY <1>1, <2>1, <2>2, <2>3, <2>4, <2>5 DEF Step
<1>2. ASSUME TypeOK, Working, Sized, Next, NEW c \in Consumer, Busy(c), ~Step(c)
      PROVE  pc'[c] = "down" \/ UNCHANGED <<pc[c], queue[c], outcome[c]>>
  <2>1. ASSUME NEW a \in Alert, Publish(a)
        PROVE  UNCHANGED <<pc[c], queue[c], outcome[c]>>
    BY <2>1 DEF Publish, locals
  <2>2. ASSUME NEW d \in Consumer \ {c}, Step(d)
        PROVE  UNCHANGED <<pc[c], queue[c], outcome[c]>>
    <3>1. CASE Read(d)
      BY <2>2, <3>1 DEF Read, TypeOK
    <3>2. CASE ReadLost(d)
      BY <3>2 DEF ReadLost, locals
    <3>3. CASE Send(d)
      BY <2>2, <3>3 DEF Send, TypeOK
    <3>4. CASE RecordDispatch(d)
      BY <2>2, <3>4 DEF RecordDispatch, TypeOK
    <3>5. CASE RecordDispatchFails(d)
      BY <2>2, <3>5 DEF RecordDispatchFails, TypeOK
    <3>6. CASE Stamp(d)
      BY <2>2, <3>6 DEF Stamp, TypeOK
    <3>7. CASE Ack(d) \/ AckFails(d)
      <4>1. Busy(d) /\ NextEntry(d)
        BY <3>7 DEF Ack, AckFails, Busy
      <4> QED BY <1>2, <2>2, <4>1, QueueShrinks
    <3> QED BY <2>2, <3>1, <3>2, <3>3, <3>4, <3>5, <3>6, <3>7 DEF Step
  <2>3. ASSUME Crash PROVE pc'[c] = "down"
    BY <2>3 DEF Crash
  <2>4. ~Restart
    BY <1>2 DEF Restart, Working, Busy
  <2> QED BY <1>2, <2>1, <2>2, <2>3, <2>4 DEF Next
<1>3. TypeOK /\ Working /\ Sized /\ [Next]_vars => [\A c \in Consumer : Ends(c)]_vars
  BY <1>1, <1>2
<1>4. BatchesEnd <=> [][\A c \in Consumer : Ends(c)]_vars
  BY PTL DEF BatchesEnd
<1> HIDE DEF Ends
<1> QED BY <1>3, <1>4, Sizes, PTL DEF Spec
=============================================================================
