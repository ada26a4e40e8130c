------------------------- MODULE DispatchRefinement -------------------------
(***************************************************************************)
(* Dispatch implements ConsumerGroup too, for every value of its           *)
(* constants, in spite of lost reads and failing acknowledgements.         *)
(***************************************************************************)
EXTENDS DispatchProofs

(* Nothing up to last is forgotten: an entry the group has passed is       *)
(* pending, acknowledged or was trimmed before it could be read.           *)
Passed ==
    /\ first <= Len(alert) + 1
    /\ \A m \in 1 .. last : m < first \/ m \in pending \cup acked

Fate == [m \in Msg |-> FateOf(m)]

LEMMA PassedInit == Init => Passed
BY DEF Init, Passed

LEMMA PassedStep == TypeOK /\ Working /\ Passed /\ [Next]_vars => Passed'
<1> SUFFICES ASSUME TypeOK, Working, Passed, [Next]_vars PROVE Passed'
  OBVIOUS
<1>1. ASSUME NEW a \in Alert, Publish(a) PROVE Passed'
  <2>1. Len(alert') = Len(alert) + 1
    BY <1>1 DEF Publish, TypeOK
  <2>2. first' \in Nat /\ first <= first' /\ first' <= Len(alert) + 1
    BY <1>1 DEF Publish, TypeOK, Passed
  <2> QED BY <1>1, <2>1, <2>2 DEF Publish, TypeOK, Passed
<1>2. ASSUME NEW c \in Consumer, Read(c) \/ ReadLost(c) PROVE Passed'
  <2>1. /\ Oldest <= Len(alert) /\ last' = Newest
        /\ pending' = pending \cup (Oldest .. Newest)
        /\ UNCHANGED <<alert, first, acked>>
    BY <1>2 DEF Read, ReadLost
  <2>2. ASSUME NEW m \in 1 .. last', m >= first PROVE m \in pending' \cup acked'
    BY <2>1, <2>2, ReadInterval DEF TypeOK, Passed, Oldest
  <2> QED BY <2>1, <2>2, ReadInterval DEF TypeOK, Passed
<1>3. ASSUME UNCHANGED stream PROVE Passed'
  BY <1>3 DEF stream, Passed
<1>4. ASSUME NEW c \in Consumer, Ack(c) \/ AckFails(c) PROVE Passed'
  BY <1>4 DEF Ack, AckFails, Passed
<1>5. CASE UNCHANGED vars
  BY <1>5, <1>3 DEF vars
<1> QED
  BY <1>1, <1>2, <1>3, <1>4, <1>5
  DEF Next, Step, Send, RecordDispatch, RecordDispatchFails, Stamp, Crash, Restart

----------------------------------------------------------------------------
(* An entry's fate depends on the stream and on who holds it.              *)
LEMMA FateSame ==
    ASSUME UNCHANGED <<stream, queue>>
    PROVE  Fate' = Fate
BY DEF stream, Fate, FateOf, Stranded, Trimmed

(* XADD appends one entry, and may trim queued ones.                       *)
LEMMA PublishImplements ==
    ASSUME TypeOK, Working, Passed, NEW a \in Alert, Publish(a)
    PROVE  \E m \in Msg : Group!Publish(m)
<1> DEFINE m == Len(alert) + 1
<1> USE DispatchAssumption
<1>1. m \in Msg /\ Len(alert') = m
  BY DEF Publish, TypeOK, Msg
<1>2. first' \in Nat /\ first <= first' /\ first' <= m
  BY DEF Publish, TypeOK, Passed
<1>3. pending \cup acked \subseteq 1 .. Len(alert)
  BY DEF Working, TypeOK
<1>4. UNCHANGED <<last, pending, acked, queue>>
  BY DEF Publish, locals
<1>5. Fate[m] = "unpublished" /\ \A n \in Msg : n < m => Fate[n] # "unpublished"
  BY <1>1 DEF Fate, FateOf, TypeOK, Msg
<1>6. Fate'[m] = "queued"
  BY <1>1, <1>2, <1>3, <1>4 DEF Fate, FateOf, Stranded, Trimmed, TypeOK, Msg
<1>7. ASSUME NEW n \in Msg \ {m}
      PROVE  Fate'[n] = Fate[n] \/ (Fate[n] = "queued" /\ Fate'[n] = "trimmed")
  <2>1. n > Len(alert') <=> n > Len(alert)
    <3>1. n \in Int /\ n # m /\ Len(alert) \in Nat
      BY DEF TypeOK, Msg
    <3> QED BY <3>1, <1>1
  <2>2. Stranded(n)' <=> Stranded(n)
    BY <1>4 DEF Stranded
  <2>3. Trimmed(n) => Trimmed(n)'
    BY <1>2, <1>4 DEF Trimmed, TypeOK, Msg
  <2> QED BY <1>4, <2>1, <2>2, <2>3 DEF Fate, FateOf
<1>8. Fate' \in [Msg -> Group!Fates]
  BY DEF Fate, FateOf, Group!Fates
<1> QED BY <1>1, <1>5, <1>6, <1>7, <1>8 DEF Group!Publish, Fate

(* What a read moves to the pending entries list, answered or not: the     *)
(* oldest queued entries.                                                  *)
LEMMA ReadHandsOut ==
    ASSUME TypeOK, Working, Passed, Passed', TypeOK', Oldest <= Len(alert),
           last' = Newest, pending' = pending \cup (Oldest .. Newest),
           UNCHANGED <<alert, first, acked>>,
           NEW to \in {"held", "stranded"},
           \A m \in Oldest .. Newest :
               to = IF \E c \in Consumer : m \in queue'[c] THEN "held" ELSE "stranded",
           \A m \in Msg \ (Oldest .. Newest) :
               \A c \in Consumer : m \in queue'[c] <=> m \in queue[c]
    PROVE  Group!HandOut(to)
<1> DEFINE fresh == Oldest .. Newest
<1> USE DispatchAssumption
<1>1. /\ Oldest \in Nat /\ Newest \in Nat /\ last < Oldest /\ Oldest <= Newest
      /\ Newest <= Len(alert) /\ fresh \subseteq Msg
  BY ReadInterval
<1>2. \A m \in fresh : m >= first /\ m > last /\ m <= Len(alert) /\ m \notin pending \cup acked
  BY <1>1 DEF Working, TypeOK, Oldest
<1>3. ASSUME NEW m \in fresh PROVE Fate[m] = "queued" /\ Fate'[m] = to
  <2>1. m \in Msg /\ m \in pending' /\ m \notin acked'
    BY <1>1, <1>2
  <2>2. ~(m > Len(alert)) /\ ~Trimmed(m) /\ ~Stranded(m)
    BY <1>1, <1>2, <2>1 DEF Trimmed, Stranded, TypeOK
  <2>3. Stranded(m)' <=> to = "stranded"
    BY <2>1 DEF Stranded
  <2> QED BY <1>2, <2>1, <2>2, <2>3 DEF Fate, FateOf
<1>4. ASSUME NEW m \in Msg \ fresh PROVE Fate'[m] = Fate[m]
  <2>1. (Stranded(m)' <=> Stranded(m)) /\ (Trimmed(m)' <=> Trimmed(m))
    BY DEF Stranded, Trimmed
  <2> QED BY <2>1 DEF Fate, FateOf
<1>5. Fate' \in [Msg -> Group!Fates]
  BY DEF Fate, FateOf, Group!Fates
<1>6. ASSUME NEW m \in fresh, NEW n \in Msg, Fate'[n] = "queued" PROVE m < n
  <2>1. n \notin pending' /\ n \notin acked' /\ n <= Len(alert') /\ ~Trimmed(n)'
    BY <1>6 DEF Fate, FateOf, Stranded, TypeOK, Msg
  <2>2. n >= first'
    BY <2>1 DEF Trimmed, TypeOK, Msg
  <2>3. ~(n <= last')
    BY <2>1, <2>2 DEF Passed, TypeOK, Msg
  <2> QED BY <2>3, <1>1 DEF Msg
<1>7. ASSUME NEW m \in Msg, Fate[m] = "queued", Fate'[m] = to PROVE m \in fresh
  BY <1>4, <1>7
<1> HIDE DEF fresh
<1> QED BY <1>3, <1>4, <1>5, <1>6, <1>7 DEF Group!HandOut, Group!Move, Fate

LEMMA ReadImplements ==
    ASSUME TypeOK, Working, Passed, Passed', TypeOK', NEW c \in Consumer
    PROVE  (Read(c) => Group!Deliver) /\ (ReadLost(c) => Group!Lose)
<1>1. ASSUME Read(c) PROVE Group!Deliver
  <2>1. /\ queue' = [queue EXCEPT ![c] = Oldest .. Newest] /\ queue[c] = {}
        /\ Oldest <= Len(alert) /\ last' = Newest
        /\ pending' = pending \cup (Oldest .. Newest)
        /\ UNCHANGED <<alert, first, acked>>
    BY <1>1 DEF Read, Working
  <2>2. \A m \in Oldest .. Newest : m \in queue'[c]
    BY <2>1 DEF TypeOK
  <2>3. \A m \in Msg \ (Oldest .. Newest) :
          \A d \in Consumer : m \in queue'[d] <=> m \in queue[d]
    BY <2>1 DEF TypeOK
  <2> QED BY <2>1, <2>2, <2>3, ReadHandsOut DEF Group!Deliver
<1>2. ASSUME ReadLost(c) PROVE Group!Lose
  <2>1. /\ queue' = queue
        /\ Oldest <= Len(alert) /\ last' = Newest
        /\ pending' = pending \cup (Oldest .. Newest)
        /\ UNCHANGED <<alert, first, acked>>
    BY <1>2 DEF ReadLost, locals
  <2>2. \A m \in Oldest .. Newest, d \in Consumer : m \notin queue'[d]
    BY <2>1, ReadInterval DEF TypeOK, Working
  <2> QED BY <2>1, <2>2, ReadHandsOut DEF Group!Lose
<1> QED BY <1>1, <1>2

(* Finishing an entry acknowledges it or strands it, and no other.         *)
LEMMA AckImplements ==
    ASSUME TypeOK, Working, NEW c \in Consumer, Ack(c) \/ AckFails(c)
    PROVE  Group!Acknowledge \/ Group!Strand
<1> USE DispatchAssumption
<1>0. pc[c] = "ack" /\ Current(c) \in queue[c]
  BY CurrentIsOldest DEF Ack, AckFails, Working, TypeOK
<1>1. PICK m \in queue[c] : m = Current(c)
  BY <1>0
<1>2. /\ queue' = [queue EXCEPT ![c] = queue[c] \ {m}] /\ pc[c] = "ack"
      /\ UNCHANGED <<alert, first, last>>
      /\ \/ UNCHANGED <<pending, acked>>
         \/ pending' = pending \ {m} /\ acked' = acked \cup {m}
  BY <1>1 DEF Ack, AckFails, NextEntry
<1>3. /\ m \in Msg /\ m \in pending /\ m \notin acked /\ ~(m > Len(alert)) /\ ~Stranded(m)
      /\ \A d \in Consumer : m \notin queue'[d]
  <2>1. m \in pending /\ m \notin acked /\ m \in 1 .. last
    BY <1>1 DEF Working
  <2>2. \A d \in Consumer : m \notin queue'[d]
    BY <1>2, <1>1 DEF Working, TypeOK
  <2> QED BY <1>1, <2>1, <2>2 DEF TypeOK, Stranded, Msg
<1>4. Fate[m] = "held"
  BY <1>3 DEF Fate, FateOf
<1>5. ASSUME NEW n \in Msg \ {m} PROVE Fate'[n] = Fate[n]
  <2>1. \A d \in Consumer : n \in queue'[d] <=> n \in queue[d]
    BY <1>2 DEF TypeOK
  <2>2. (Stranded(n)' <=> Stranded(n)) /\ (Trimmed(n)' <=> Trimmed(n))
    BY <1>2, <2>1 DEF Stranded, Trimmed
  <2> QED BY <1>2, <2>2 DEF Fate, FateOf
<1>6. Fate' \in [Msg -> Group!Fates]
  BY DEF Fate, FateOf, Group!Fates
<1>7. CASE UNCHANGED <<pending, acked>>
  <2>1. Stranded(m)' /\ Fate'[m] = "stranded"
    BY <1>2, <1>3, <1>7 DEF Stranded, Fate, FateOf
  <2> QED BY <1>4, <1>5, <1>6, <2>1 DEF Group!Strand, Group!Move, Fate
<1>8. CASE pending' = pending \ {m} /\ acked' = acked \cup {m}
  <2>1. Fate'[m] = "acked"
    BY <1>2, <1>3, <1>8 DEF Fate, FateOf
  <2> QED BY <1>4, <1>5, <1>6, <2>1 DEF Group!Acknowledge, Group!Move, Fate
<1> QED BY <1>2, <1>7, <1>8

(* The dying container strands what its consumers held, and nothing else.  *)
LEMMA CrashImplements ==
    ASSUME TypeOK, Working, Crash
    PROVE  Group!Strand
<1> DEFINE lost == UNION {queue[c] : c \in Consumer}
<1>1. UNCHANGED stream /\ \A c \in Consumer : queue'[c] = {}
  BY DEF Crash
<1>2. ASSUME NEW m \in lost PROVE m \in Msg /\ Fate[m] = "held" /\ Fate'[m] = "stranded"
  <2>1. PICK c \in Consumer : m \in queue[c]
    OBVIOUS
  <2>2. m \in pending /\ m \notin acked /\ m \in 1 .. last /\ m \in Msg
    BY <2>1 DEF Working, TypeOK
  <2>3. Stranded(m)' /\ ~Stranded(m) /\ ~(m > Len(alert))
    BY <1>1, <2>1, <2>2 DEF Stranded, stream, TypeOK
  <2> QED BY <1>1, <2>2, <2>3 DEF Fate, FateOf, stream
<1>3. ASSUME NEW m \in Msg \ lost PROVE Fate'[m] = Fate[m]
  <2>1. \A c \in Consumer : m \notin queue[c] /\ m \notin queue'[c]
    BY <1>1
  <2>2. (Stranded(m)' <=> Stranded(m)) /\ (Trimmed(m)' <=> Trimmed(m))
    BY <1>1, <2>1 DEF Stranded, Trimmed, stream
  <2> QED BY <1>1, <2>2 DEF Fate, FateOf, stream
<1>4. Fate' \in [Msg -> Group!Fates]
  BY DEF Fate, FateOf, Group!Fates
<1> HIDE DEF lost
<1> QED BY <1>2, <1>3, <1>4 DEF Group!Strand, Group!Move, Fate

----------------------------------------------------------------------------
LEMMA RefinementInit == Init => Group!Init
BY DispatchAssumption DEF Init, Group!Init, FateOf, Msg

LEMMA RefinementStep ==
    TypeOK /\ Working /\ Passed /\ TypeOK' /\ Passed' /\ [Next]_vars
      => [Group!Next]_Fate
<1> SUFFICES ASSUME TypeOK, Working, Passed, TypeOK', Passed', [Next]_vars
             PROVE  [Group!Next]_Fate
  OBVIOUS
<1>1. ASSUME UNCHANGED <<stream, queue>> PROVE Fate' = Fate
  BY <1>1, FateSame
<1>2. ASSUME NEW a \in Alert, Publish(a) PROVE Group!Next
  BY <1>2, PublishImplements DEF Group!Next
<1>3. ASSUME NEW c \in Consumer, Read(c) \/ ReadLost(c) PROVE Group!Next
  BY <1>3, ReadImplements DEF Group!Next
<1>4. ASSUME NEW c \in Consumer, Ack(c) \/ AckFails(c) PROVE Group!Next
  BY <1>4, AckImplements DEF Group!Next
<1>5. ASSUME Crash PROVE Group!Next
  BY <1>5, CrashImplements DEF Group!Next
<1>6. ASSUME NEW c \in Consumer,
             Send(c) \/ RecordDispatch(c) \/ RecordDispatchFails(c) \/ Stamp(c)
      PROVE  UNCHANGED <<stream, queue>>
  BY <1>6 DEF Send, RecordDispatch, RecordDispatchFails, Stamp
<1>7. ASSUME Restart PROVE UNCHANGED <<stream, queue>>
  BY <1>7 DEF Restart
<1>8. CASE UNCHANGED vars
  BY <1>8, <1>1 DEF vars, locals
<1> QED
  BY <1>1, <1>2, <1>3, <1>4, <1>5, <1>6, <1>7, <1>8 DEF Next, Step

(* Dispatch uses its consumer group as ConsumerGroup says: an alert is     *)
(* handed to one consumer, once, and one that a lost answer, a failing     *)
(* acknowledgement or a crash strands is never delivered again.            *)
THEOREM Refinement == Spec => ImplementsConsumerGroup
<1>1. Spec => [](TypeOK /\ Working /\ Passed)
  BY Typing, WorkingHolds, PassedInit, PassedStep, PTL DEF Spec
<1>2. Fate = [m \in Msg |-> FateOf(m)]
  BY DEF Fate
<1> QED
  BY <1>1, <1>2, RefinementInit, RefinementStep, PTL
  DEF Spec, ImplementsConsumerGroup, Group!Spec, Fate
=============================================================================
