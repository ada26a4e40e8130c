------------------------ MODULE ProcessingRefinement ------------------------
(***************************************************************************)
(* Processing implements ConsumerGroup, for every value of its constants.  *)
(***************************************************************************)
EXTENDS ProcessingProofs

(* Nothing up to last is forgotten: an entry the group has passed is       *)
(* pending, acknowledged or was trimmed before it could be read.           *)
Passed ==
    /\ first <= Len(raw) + 1
    /\ \A m \in 1 .. last : m < first \/ m \in pending \cup acked

Fate == [m \in Msg |-> FateOf(m)]

LEMMA PassedInit == Init => Passed
BY DEF Init, Passed

LEMMA PassedStep == TypeOK /\ Holding /\ Passed /\ [Next]_vars => Passed'
<1> SUFFICES ASSUME TypeOK, Holding, Passed, [Next]_vars PROVE Passed'
  OBVIOUS
<1>1. ASSUME NEW r \in Record, PublishRaw(r) PROVE Passed'
  <2>1. Len(raw') = Len(raw) + 1
    BY <1>1 DEF PublishRaw, TypeOK
  <2>2. first' \in Nat /\ first <= first' /\ first' <= Len(raw) + 1
    BY <1>1 DEF PublishRaw, TypeOK, Passed
  <2> QED BY <1>1, <2>1, <2>2 DEF PublishRaw, TypeOK, Passed
<1>2. ASSUME NEW c \in Consumer, Read(c) PROVE Passed'
  <2>1. ASSUME NEW m \in 1 .. last', m >= first PROVE m \in pending' \cup acked'
    BY <1>2, <2>1, ReadInterval DEF Read, TypeOK, Passed, Oldest
  <2> QED BY <1>2, <2>1, ReadInterval DEF Read, TypeOK, Passed
<1>3. ASSUME UNCHANGED stream PROVE Passed'
  BY <1>3 DEF stream, Passed
<1>4. ASSUME NEW c \in Consumer, Ack(c) PROVE Passed'
  BY <1>4 DEF Ack, Passed
<1>5. CASE UNCHANGED vars
  BY <1>5, <1>3 DEF vars
<1> QED
  BY <1>1, <1>2, <1>3, <1>4, <1>5
  DEF Next, Step, DeadLetterUnparsed, Evaluate, Commit, CommitFails,
      DeadLetterEntry, PublishAlert, Crash, Restart

----------------------------------------------------------------------------
(* An entry's fate depends on the stream and on who holds it.              *)
LEMMA FateSame ==
    ASSUME UNCHANGED <<stream, batch>>
    PROVE  Fate' = Fate
BY DEF stream, Fate, FateOf, Stranded, Trimmed

(* XADD appends one entry, and may trim queued ones.                       *)
LEMMA PublishImplements ==
    ASSUME TypeOK, Holding, Passed, NEW r \in Record, PublishRaw(r)
    PROVE  \E m \in Msg : Group!Publish(m)
<1> DEFINE m == Len(raw) + 1
<1> USE ProcessingAssumption
<1>1. m \in Msg /\ Len(raw') = m
  BY DEF PublishRaw, TypeOK, Msg
<1>2. first' \in Nat /\ first <= first' /\ first' <= m
  BY DEF PublishRaw, TypeOK, Passed
<1>3. pending \cup acked \subseteq 1 .. Len(raw)
  BY DEF Holding, TypeOK
<1>4. UNCHANGED <<last, pending, acked, batch>>
  BY DEF PublishRaw, locals
<1>5. Fate[m] = "unpublished" /\ \A n \in Msg : n < m => Fate[n] # "unpublished"
  BY <1>1 DEF Fate, FateOf, TypeOK, Msg
<1>6. Fate'[m] = "queued"
  BY <1>1, <1>2, <1>3, <1>4 DEF Fate, FateOf, Stranded, Trimmed, TypeOK, Msg
<1>7. ASSUME NEW n \in Msg \ {m}
      PROVE  Fate'[n] = Fate[n] \/ (Fate[n] = "queued" /\ Fate'[n] = "trimmed")
  <2>1. n > Len(raw') <=> n > Len(raw)
    <3>1. n \in Int /\ n # m /\ Len(raw) \in Nat
      BY DEF TypeOK, Msg
    <3> QED BY <3>1, <1>1
  <2>2. Stranded(n)' <=> Stranded(n)
    BY <1>4 DEF Stranded
  <2>3. Trimmed(n) => Trimmed(n)'
    BY <1>2, <1>4 DEF Trimmed, TypeOK, Msg
  <2> QED BY <1>4, <2>1, <2>2, <2>3 DEF Fate, FateOf
<1>8. Fate' \in [Msg -> Group!Fates]
  BY DEF Fate, FateOf, Group!Fates
<1> QED BY <1>1, <1>5, <1>6, <1>7, <1>8 DEF Group!Publish, Fate

(* A read delivers the oldest entries that nobody was given before.        *)
LEMMA ReadImplements ==
    ASSUME TypeOK, Holding, Passed, Passed', TypeOK', NEW c \in Consumer, Read(c)
    PROVE  Group!Deliver
<1> DEFINE fresh == Oldest .. Newest
<1> USE ProcessingAssumption
<1>1. /\ Oldest \in Nat /\ Newest \in Nat /\ last < Oldest /\ Oldest <= Newest
      /\ Newest <= Len(raw) /\ fresh \subseteq Msg
  BY ReadInterval DEF Read
<1>2. /\ pending' = pending \cup fresh /\ last' = Newest
      /\ batch' = [batch EXCEPT ![c] = fresh] /\ batch[c] = {}
      /\ UNCHANGED <<raw, first, acked>>
  BY DEF Read, Holding
<1>3. \A m \in fresh : m >= first /\ m > last /\ m <= Len(raw) /\ m \notin pending \cup acked
  BY <1>1 DEF Holding, TypeOK, Oldest
<1>4. ASSUME NEW m \in fresh PROVE Fate[m] = "queued" /\ Fate'[m] = "held"
  <2>1. m \in Msg /\ m \in pending' /\ m \in batch'[c] /\ m \notin acked'
    BY <1>1, <1>2, <1>3 DEF TypeOK
  <2>2. ~(m > Len(raw)) /\ ~Trimmed(m) /\ ~Stranded(m) /\ ~Stranded(m)'
    BY <1>1, <1>2, <1>3, <2>1 DEF Trimmed, Stranded, TypeOK
  <2> QED BY <1>2, <1>3, <2>1, <2>2 DEF Fate, FateOf
<1>5. ASSUME NEW m \in Msg \ fresh PROVE Fate'[m] = Fate[m]
  <2>1. \A d \in Consumer : m \in batch'[d] <=> m \in batch[d]
    BY <1>2 DEF TypeOK
  <2>2. Stranded(m)' <=> Stranded(m)
    BY <1>2, <2>1 DEF Stranded
  <2>3. Trimmed(m)' <=> Trimmed(m)
    BY <1>2 DEF Trimmed
  <2> QED BY <1>2, <2>2, <2>3 DEF Fate, FateOf
<1>6. Fate' \in [Msg -> Group!Fates]
  BY DEF Fate, FateOf, Group!Fates
<1>7. ASSUME NEW m \in fresh, NEW n \in Msg, Fate'[n] = "queued" PROVE m < n
  <2>1. n \notin pending' /\ n \notin acked' /\ n <= Len(raw') /\ ~Trimmed(n)'
    BY <1>7 DEF Fate, FateOf, Stranded, TypeOK, Msg
  <2>2. n >= first'
    BY <2>1, <1>2 DEF Trimmed, TypeOK, Msg
  <2>3. ~(n <= last')
    BY <2>1, <2>2 DEF Passed, TypeOK, Msg
  <2> QED BY <2>3, <1>1, <1>2 DEF Msg
<1> HIDE DEF fresh
<1> QED BY <1>4, <1>5, <1>6, <1>7 DEF Group!Deliver, Group!HandOut, Group!Move, Fate

(* XACK settles what its consumer held.                                    *)
LEMMA AckImplements ==
    ASSUME TypeOK, Holding, NEW c \in Consumer, Ack(c)
    PROVE  Group!Acknowledge
<1>1. /\ pending' = pending \ batch[c] /\ acked' = acked \cup batch[c]
      /\ batch' = [batch EXCEPT ![c] = {}]
      /\ UNCHANGED <<raw, first, last>>
  BY DEF Ack
<1>2. ASSUME NEW m \in batch[c] PROVE m \in Msg /\ Fate[m] = "held" /\ Fate'[m] = "acked"
  <2>1. m \in pending /\ m \notin acked /\ m <= Len(raw) /\ m \in Msg /\ ~Stranded(m)
    BY ProcessingAssumption DEF Holding, OneHolder, TypeOK, Stranded, Msg
  <2>2. ~(m > Len(raw))
    BY <2>1, ProcessingAssumption DEF TypeOK, Msg
  <2> QED BY <1>1, <2>1, <2>2 DEF Fate, FateOf
<1>3. ASSUME NEW m \in Msg \ batch[c] PROVE Fate'[m] = Fate[m]
  <2>1. \A d \in Consumer : m \in batch'[d] <=> m \in batch[d]
    BY <1>1 DEF TypeOK
  <2>2. (Stranded(m)' <=> Stranded(m)) /\ (Trimmed(m)' <=> Trimmed(m))
    BY <1>1, <2>1 DEF Stranded, Trimmed
  <2> QED BY <1>1, <2>2 DEF Fate, FateOf
<1>4. Fate' \in [Msg -> Group!Fates]
  BY DEF Fate, FateOf, Group!Fates
<1> QED BY <1>2, <1>3, <1>4 DEF Group!Acknowledge, Group!Move, Fate

(* A dying container strands what its consumers held, and nothing else.    *)
LEMMA CrashImplements ==
    ASSUME TypeOK, Holding, NEW r \in Replica, Crash(r)
    PROVE  Group!Strand
<1> DEFINE lost == UNION {batch[c] : c \in {d \in Consumer : Home[d] = r}}
<1>1. /\ UNCHANGED stream
      /\ \A c \in Consumer : batch'[c] = IF Home[c] = r THEN {} ELSE batch[c]
  BY DEF Crash
<1>2. ASSUME NEW m \in lost PROVE m \in Msg /\ Fate[m] = "held" /\ Fate'[m] = "stranded"
  <2>1. PICK c \in Consumer : Home[c] = r /\ m \in batch[c]
    OBVIOUS
  <2>2. m \in pending /\ m \notin acked /\ m <= Len(raw) /\ m \in Msg /\ ~Stranded(m)
    BY <2>1, ProcessingAssumption DEF Holding, OneHolder, TypeOK, Stranded, Msg
  <2>3. \A d \in Consumer : d # c => m \notin batch[d]
    BY <2>1 DEF Holding, OneHolder
  <2>4. Stranded(m)'
    BY <1>1, <2>1, <2>2, <2>3 DEF Stranded, stream
  <2>5. ~(m > Len(raw))
    BY <2>2, ProcessingAssumption DEF TypeOK, Msg
  <2> QED BY <1>1, <2>2, <2>4, <2>5 DEF Fate, FateOf, stream
<1>3. ASSUME NEW m \in Msg \ lost PROVE Fate'[m] = Fate[m]
  <2>1. \A d \in Consumer : m \in batch'[d] <=> m \in batch[d]
    BY <1>1
  <2>2. (Stranded(m)' <=> Stranded(m)) /\ (Trimmed(m)' <=> Trimmed(m))
    BY <1>1, <2>1 DEF Stranded, Trimmed, stream
  <2> QED BY <1>1, <2>2 DEF Fate, FateOf, stream
<1>4. Fate' \in [Msg -> Group!Fates]
  BY DEF Fate, FateOf, Group!Fates
<1> HIDE DEF lost
<1> QED BY <1>2, <1>3, <1>4 DEF Group!Strand, Group!Move, Fate

----------------------------------------------------------------------------
LEMMA RefinementInit == Init => Group!Init
BY ProcessingAssumption DEF Init, Group!Init, FateOf, Msg

LEMMA RefinementStep ==
    TypeOK /\ Holding /\ Passed /\ TypeOK' /\ Passed' /\ [Next]_vars
      => [Group!Next]_Fate
<1> SUFFICES ASSUME TypeOK, Holding, Passed, TypeOK', Passed', [Next]_vars
             PROVE  [Group!Next]_Fate
  OBVIOUS
<1>1. ASSUME UNCHANGED <<stream, batch>> PROVE Fate' = Fate
  BY <1>1, FateSame
<1>2. ASSUME NEW r \in Record, PublishRaw(r) PROVE Group!Next
  BY <1>2, PublishImplements DEF Group!Next
<1>3. ASSUME NEW c \in Consumer, Read(c) PROVE Group!Next
  BY <1>3, ReadImplements DEF Group!Next
<1>4. ASSUME NEW c \in Consumer, Ack(c) PROVE Group!Next
  BY <1>4, AckImplements DEF Group!Next
<1>5. ASSUME NEW r \in Replica, Crash(r) PROVE Group!Next
  BY <1>5, CrashImplements DEF Group!Next
<1>6. ASSUME NEW c \in Consumer,
             \/ DeadLetterUnparsed(c) \/ Evaluate(c) \/ Commit(c)
             \/ CommitFails(c) \/ DeadLetterEntry(c) \/ PublishAlert(c)
      PROVE  UNCHANGED <<stream, batch>>
  BY <1>6 DEF DeadLetterUnparsed, Evaluate, Commit, CommitFails, DeadLetterEntry,
              PublishAlert
<1>7. ASSUME NEW r \in Replica, Restart(r) PROVE UNCHANGED <<stream, batch>>
  BY <1>7 DEF Restart
<1>8. CASE UNCHANGED vars
  BY <1>8, <1>1 DEF vars, locals
<1> QED
  BY <1>1, <1>2, <1>3, <1>4, <1>5, <1>6, <1>7, <1>8 DEF Next, Step

(* The service uses its consumer group as ConsumerGroup says: entries are  *)
(* delivered oldest first, each once and to one consumer, and one that is  *)
(* stranded or trimmed never comes back.                                   *)
THEOREM Refinement == Spec => ImplementsConsumerGroup
<1>1. Spec => [](TypeOK /\ Holding /\ Passed)
  BY Typing, HoldingInit, HoldingStep, PassedInit, PassedStep, PTL DEF Spec
<1>2. Fate = [m \in Msg |-> FateOf(m)]
  BY DEF Fate
<1> QED
  BY <1>1, <1>2, RefinementInit, RefinementStep, PTL
  DEF Spec, ImplementsConsumerGroup, Group!Spec, Fate
=============================================================================
