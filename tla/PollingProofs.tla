--------------------------- MODULE PollingProofs ----------------------------
(***************************************************************************)
(* Proofs about Polling, for every number of coroutines, attempts and      *)
(* probes and every threshold and timeout.                                 *)
(***************************************************************************)
EXTENDS Polling, TLAPS

Calling(p) == pc[p] \in {"attempt", "backoff", "paging"}

(* Polls of a connector do not overlap.                                    *)
Alone == \A p, q \in Poll : pc[p] # "idle" /\ pc[q] # "idle" => p = q

(* How far the publication of a poll has come.                             *)
Progress ==
    \A p \in Poll :
       /\ Calling(p) => sent[p] = 0
       /\ pc[p] = "publish" => sent[p] < size[p]
       /\ pc[p] = "health" => sent[p] = size[p]

(* What the breaker has counted: a closed one the streak itself, which has *)
(* not reached the threshold; a half-open one had a success unless its     *)
(* probe is under way; and while a call is, it is not open.                *)
Counting ==
    /\ breaker.state # "permanent_open"
    /\ breaker.state = "closed" => breaker.failures = streak /\ streak < FailureThreshold
    /\ breaker.state = "half_open" => streak = 0 \/ \E p \in Poll : Calling(p)
    /\ \A p \in Poll : Calling(p) => breaker.state # "open"

(* What a success has left behind, also while the next poll is under way:  *)
(* only a poll that is about to report an error can have changed the row.  *)
Complete ==
    last.how = "success" =>
       /\ last.sent = last.size
       /\ (\A p \in Poll : pc[p] # "error") => health = Healthy(last.size)

IInv == TypeOK /\ Alone /\ Progress /\ Counting /\ Complete

(* The breaker's operators stay within its type.                           *)
LEMMA BreakerType ==
    ASSUME NEW b \in Breaker
    PROVE  Admitted(b) \in Breaker /\ OnSuccess(b) \in Breaker /\ OnFailure(b) \in Breaker
<1>1. Admitted(b) \in Breaker
  <2>1. 0 \in 0 .. HalfOpenMaxAttempts - 1
    BY BreakerAssumption
  <2>2. QED BY <2>1 DEF Breaker, Admitted
<1>2. OnSuccess(b) \in Breaker
  BY BreakerAssumption DEF Breaker, OnSuccess, Closed
<1>3. OnFailure(b) \in Breaker
  <2> DEFINE n == IF b.failures < FailureThreshold THEN b.failures + 1 ELSE FailureThreshold
             st == IF b.state = "half_open" THEN "open"
                   ELSE IF n < FailureThreshold THEN b.state
                   ELSE IF b.state = "open" THEN "permanent_open" ELSE "open"
  <2>1. n \in 0 .. FailureThreshold
    BY BreakerAssumption DEF Breaker
  <2>2. st \in {"closed", "open", "half_open", "permanent_open"}
    BY DEF Breaker
  <2>3. OnFailure(b) = [b EXCEPT !.failures = n, !.state = st]
    BY DEF OnFailure, Breaker
  <2> HIDE DEF n, st
  <2>4. QED BY <2>1, <2>2, <2>3 DEF Breaker
<1>4. QED BY <1>1, <1>2, <1>3

LEMMA Starts == Init => IInv
<1> SUFFICES ASSUME Init PROVE IInv OBVIOUS
<1> USE BreakerAssumption, PollingAssumption DEF Init
<1>1. TypeOK
  BY DEF TypeOK, Breaker, Closed, Phase
<1>2. Alone /\ Progress /\ Complete
  BY DEF Alone, Progress, Complete, Calling
<1>3. Counting
  BY DEF Counting, Closed, Calling
<1>4. QED BY <1>1, <1>2, <1>3 DEF IInv

LEMMA Preserved == IInv /\ [Next]_vars => IInv'
<1> SUFFICES ASSUME IInv, [Next]_vars PROVE IInv' OBVIOUS
<1> USE BreakerAssumption, PollingAssumption
<1>1. ASSUME NEW p \in Poll, Start(p) PROVE IInv'
  <2>1. TypeOK'
    BY <1>1, BreakerType DEF IInv, TypeOK, Start, Phase
  <2>2. Alone' /\ Progress' /\ Complete'
    BY <1>1 DEF IInv, TypeOK, Start, Alone, Progress, Complete, Calling, Idle
  <2>3. Counting'
    <3>1. breaker \in Breaker /\ Calling(p)' /\ UNCHANGED streak
      BY <1>1 DEF IInv, TypeOK, Start, Calling
    <3>2. breaker.state # "permanent_open" /\ breaker' = Admitted(breaker)
      BY <1>1 DEF IInv, Start, Counting
    <3>3. QED BY <3>1, <3>2 DEF IInv, Counting, Admitted, Breaker, Calling
  <2>4. QED BY <2>1, <2>2, <2>3 DEF IInv
<1>2. ASSUME NEW p \in Poll, Refused(p) PROVE IInv'
  <2>1. TypeOK'
    BY <1>2 DEF IInv, TypeOK, Refused, Phase
  <2>2. Alone' /\ Progress' /\ Complete'
    BY <1>2 DEF IInv, TypeOK, Refused, Alone, Progress, Complete, Calling, Idle
  <2>3. Counting'
    BY <1>2 DEF IInv, TypeOK, Refused, Counting, Calling, Idle
  <2>4. QED BY <2>1, <2>2, <2>3 DEF IInv
<1>3. ASSUME NEW p \in Poll, AttemptSucceeds(p) \/ LastPage(p) PROVE IInv'
  <2>1. PICK n \in 0 .. MaxBatch : Returns(p, n)
    BY <1>3 DEF AttemptSucceeds, LastPage, IInv, TypeOK
  <2>2. /\ Calling(p) /\ breaker' = OnSuccess(breaker) /\ streak' = 0
        /\ size' = [size EXCEPT ![p] = n]
        /\ pc' = [pc EXCEPT ![p] = IF n = 0 THEN "health" ELSE "publish"]
        /\ UNCHANGED <<since, up, attempt, sent, missed, health, last>>
    BY <1>3, <2>1 DEF AttemptSucceeds, LastPage, Calling, Returns
  <2>3. TypeOK'
    BY <2>2, BreakerType DEF IInv, TypeOK, Phase
  <2>4. Alone' /\ Progress' /\ Complete'
    BY <2>2 DEF IInv, TypeOK, Alone, Progress, Complete, Calling
  <2>5. Counting'
    <3>1. breaker.state \in {"closed", "half_open"}
      BY <2>2 DEF IInv, TypeOK, Counting, Breaker
    <3>2. breaker'.state \in {"closed", "half_open"}
             /\ (breaker'.state = "closed" => breaker'.failures = 0)
      BY <2>2, <3>1 DEF IInv, TypeOK, OnSuccess, Breaker, Closed
    <3>3. QED BY <2>2, <3>2 DEF Counting
  <2>6. QED BY <2>3, <2>4, <2>5 DEF IInv
<1>4. ASSUME NEW p \in Poll, AttemptFails(p) PROVE IInv'
  <2>1. TypeOK'
    BY <1>4 DEF IInv, TypeOK, AttemptFails, Phase
  <2>2. Alone' /\ Progress' /\ Complete'
    BY <1>4 DEF IInv, TypeOK, AttemptFails, Alone, Progress, Complete, Calling
  <2>3. \A q \in Poll : Calling(q)' <=> Calling(q)
    BY <1>4 DEF IInv, TypeOK, AttemptFails, Calling
  <2>4. Counting'
    BY <1>4, <2>3 DEF IInv, AttemptFails, Counting
  <2>5. QED BY <2>1, <2>2, <2>4 DEF IInv
<1>5. ASSUME NEW p \in Poll, Retry(p) PROVE IInv'
  <2>1. TypeOK'
    BY <1>5 DEF IInv, TypeOK, Retry, Phase
  <2>2. Alone' /\ Progress' /\ Complete'
    BY <1>5 DEF IInv, TypeOK, Retry, Alone, Progress, Complete, Calling
  <2>3. \A q \in Poll : Calling(q)' <=> Calling(q)
    BY <1>5 DEF IInv, TypeOK, Retry, Calling
  <2>4. Counting'
    BY <1>5, <2>3 DEF IInv, Retry, Counting
  <2>5. QED BY <2>1, <2>2, <2>4 DEF IInv
<1>6. ASSUME NEW p \in Poll, CallFails(p) PROVE IInv'
  <2>1. TypeOK'
    BY <1>6, BreakerType DEF IInv, TypeOK, CallFails, Phase
  <2>2. Alone' /\ Progress' /\ Complete'
    BY <1>6 DEF IInv, TypeOK, CallFails, Alone, Progress, Complete, Calling
  <2>3. Counting'
    <3>1. breaker \in Breaker /\ breaker' = OnFailure(breaker) /\ streak \in 0 .. FailureThreshold
             /\ streak' = IF streak < FailureThreshold THEN streak + 1 ELSE streak
      BY <1>6 DEF IInv, TypeOK, CallFails
    <3>2. breaker.state \in {"closed", "half_open"}
      BY <1>6, <3>1 DEF IInv, Counting, CallFails, Calling, Breaker
    <3>3. \A q \in Poll : ~Calling(q)'
      BY <1>6 DEF IInv, TypeOK, Alone, CallFails, Calling
    <3>4. breaker.state = "closed" => breaker.failures = streak /\ streak < FailureThreshold
      BY DEF IInv, Counting
    <3>5. /\ breaker'.state \in {"closed", "open"}
          /\ breaker'.state = "closed" => breaker'.failures = streak' /\ streak' < FailureThreshold
      BY <3>1, <3>2, <3>4 DEF OnFailure, Breaker
    <3>6. QED BY <3>3, <3>5 DEF Counting
  <2>4. QED BY <2>1, <2>2, <2>3 DEF IInv
<1>7. ASSUME NEW p \in Poll, Publish(p) PROVE IInv'
  <2>1. TypeOK'
    BY <1>7 DEF IInv, TypeOK, Publish, Phase, Progress
  <2>2. Alone' /\ Progress' /\ Complete'
    BY <1>7 DEF IInv, TypeOK, Publish, Alone, Progress, Complete, Calling
  <2>3. Counting'
    BY <1>7 DEF IInv, TypeOK, Publish, Counting, Calling
  <2>4. QED BY <2>1, <2>2, <2>3 DEF IInv
<1>8. ASSUME NEW p \in Poll, PublishFails(p) \/ WriteHealthFails(p) PROVE IInv'
  <2>1. TypeOK'
    <3>1. CASE PublishFails(p)
      BY <3>1 DEF IInv, TypeOK, PublishFails, Phase
    <3>2. CASE WriteHealthFails(p)
      <4>1. Healthy(size[p]) \in [status : {"unknown", "healthy"}, records : 0 .. MaxBatch]
        BY DEF IInv, TypeOK, Healthy
      <4>2. QED BY <3>2, <4>1 DEF IInv, TypeOK, WriteHealthFails, Phase
    <3>3. QED BY <1>8, <3>1, <3>2
  <2>2. Alone' /\ Progress' /\ Complete'
    BY <1>8 DEF IInv, TypeOK, PublishFails, WriteHealthFails, Alone, Progress, Complete,
                Calling
  <2>3. Counting'
    BY <1>8 DEF IInv, TypeOK, PublishFails, WriteHealthFails, Counting, Calling
  <2>4. QED BY <2>1, <2>2, <2>3 DEF IInv
<1>9. ASSUME NEW p \in Poll, WriteHealth(p) \/ HandleError(p) PROVE IInv'
  <2>1. TypeOK'
    BY <1>9 DEF IInv, TypeOK, WriteHealth, HandleError, Healthy, Result, Phase
  <2>2. Alone' /\ Progress' /\ Complete'
    BY <1>9 DEF IInv, TypeOK, WriteHealth, HandleError, Result, Alone, Progress,
                Complete, Calling
  <2>3. Counting'
    BY <1>9 DEF IInv, TypeOK, WriteHealth, HandleError, Counting, Calling
  <2>4. QED BY <2>1, <2>2, <2>3 DEF IInv
<1>10. ASSUME Tick \/ VendorFlips \/ UNCHANGED vars PROVE IInv'
  <2>1. TypeOK'
    <3>1. CASE Tick
      <4>1. since' \in 0 .. RecoveryTimeout
        BY <3>1 DEF IInv, TypeOK, Tick
      <4>2. QED BY <3>1, <4>1 DEF IInv, TypeOK, Tick
    <3>2. CASE VendorFlips
      BY <3>2 DEF IInv, TypeOK, VendorFlips
    <3>3. CASE UNCHANGED vars
      BY <3>3 DEF IInv, TypeOK, vars
    <3>4. QED BY <1>10, <3>1, <3>2, <3>3
  <2>2. UNCHANGED <<breaker, streak, pc, size, sent, health, last>>
    BY <1>10 DEF Tick, VendorFlips, vars
  <2>3. QED BY <2>1, <2>2 DEF IInv, Alone, Progress, Counting, Complete, Calling
<1>11. ASSUME NEW p \in Poll, StartPaging(p) \/ PageArrives(p) \/ PageLost(p) PROVE IInv'
  <2>1. /\ Calling(p) /\ pc' \in {pc, [pc EXCEPT ![p] = "paging"]}
        /\ UNCHANGED <<breaker, since, up, streak, attempt, sent, health, last>>
    BY <1>11 DEF StartPaging, PageArrives, PageLost, Calling
  <2>2. TypeOK'
    <3>1. size' \in [Poll -> 0 .. MaxBatch]
      BY <1>11 DEF IInv, TypeOK, StartPaging, PageArrives, PageLost
    <3>2. missed' \in [Poll -> BOOLEAN]
      BY <1>11 DEF IInv, TypeOK, StartPaging, PageArrives, PageLost
    <3> QED BY <2>1, <3>1, <3>2 DEF IInv, TypeOK, Phase
  <2>3. pc' = [pc EXCEPT ![p] = "paging"] \/ pc' = pc
    BY <2>1
  <2>4. \A q \in Poll : /\ Calling(q)' <=> Calling(q)
                        /\ ~Calling(q) => pc'[q] = pc[q] /\ size'[q] = size[q]
    BY <1>11, <2>1, <2>3 DEF IInv, TypeOK, Calling, StartPaging, PageArrives, PageLost
  <2>5. Alone' /\ Progress' /\ Complete'
    BY <2>1, <2>4 DEF IInv, Alone, Progress, Complete, Calling
  <2>6. Counting'
    BY <2>1, <2>4 DEF IInv, Counting
  <2>7. QED BY <2>2, <2>5, <2>6 DEF IInv
<1>12. QED
  BY <1>1, <1>2, <1>3, <1>4, <1>5, <1>6, <1>7, <1>8, <1>9, <1>10, <1>11 DEF Next, Step

LEMMA Invariance == Spec => []IInv
BY Starts, Preserved, PTL DEF Spec

----------------------------------------------------------------------------
(* The variables stay within their types: in particular no poll publishes  *)
(* more records than it fetched, nor makes more attempts than allowed.     *)
THEOREM Typing == Spec => []TypeOK
<1>1. IInv => TypeOK BY DEF IInv
<1>2. QED BY <1>1, Invariance, PTL

(* Whatever the thresholds and however the vendor comes and goes, the      *)
(* breaker of a connector whose polls do not overlap never opens for good. *)
THEOREM BreakerRecovers == Spec => []NeverPermanentlyOpen
<1>1. IInv => NeverPermanentlyOpen BY DEF IInv, Counting, NeverPermanentlyOpen
<1>2. QED BY <1>1, Invariance, PTL

(* A poll that reports success has published every record it fetched.      *)
THEOREM SuccessesAreComplete == Spec => []SuccessIsComplete
<1>1. IInv => SuccessIsComplete BY DEF IInv, Complete, SuccessIsComplete, Idle
<1>2. QED BY <1>1, Invariance, PTL

(* A vendor whose failures reached the threshold is called again only once *)
(* the timeout has passed.                                                 *)
THEOREM VendorsAreLeftAlone == Spec => BacksOff
<1> DEFINE Held ==
      \A p \in Poll : pc[p] = "idle" /\ pc'[p] = "attempt" /\ streak = FailureThreshold
                        => since >= RecoveryTimeout
<1>1. ASSUME IInv, [Next]_vars PROVE [Held]_vars
  <2> SUFFICES ASSUME NEW p \in Poll, pc[p] = "idle", pc'[p] = "attempt",
                      streak = FailureThreshold
               PROVE  since >= RecoveryTimeout
    OBVIOUS
  <2>1. Start(p)
    <3>1. pc'[p] # pc[p]
      OBVIOUS
    <3>2. ASSUME NEW q \in Poll, Start(q) PROVE q = p
      BY <3>1, <3>2 DEF Start, IInv, TypeOK
    <3>3. ASSUME NEW q \in Poll, Refused(q) \/ Step(q) PROVE FALSE
      <4>1. PICK x \in Phase : pc' = [pc EXCEPT ![q] = x] /\ (pc[q] # "idle" \/ x # "attempt")
        <5>1. CASE Refused(q) BY <5>1 DEF Refused, Phase
        <5>2. CASE AttemptSucceeds(q) \/ LastPage(q)
          BY <5>2 DEF AttemptSucceeds, LastPage, Returns, Phase
        <5>6. CASE StartPaging(q) \/ PageArrives(q) \/ PageLost(q)
          <6>1. CASE StartPaging(q) BY <6>1 DEF StartPaging, Phase
          <6>2. CASE PageArrives(q) \/ PageLost(q)
            BY <6>2 DEF PageArrives, PageLost, IInv, TypeOK, Phase
          <6> QED BY <5>6, <6>1, <6>2
        <5>3. CASE AttemptFails(q) \/ Retry(q) \/ CallFails(q)
          BY <5>3 DEF AttemptFails, Retry, CallFails, Phase
        <5>4. CASE Publish(q) BY <5>4 DEF Publish, IInv, TypeOK, Phase
        <5>5. CASE PublishFails(q) \/ WriteHealth(q) \/ WriteHealthFails(q) \/ HandleError(q)
          BY <5>5 DEF PublishFails, WriteHealth, WriteHealthFails, HandleError, Phase
        <5>7. QED BY <3>3, <5>1, <5>2, <5>3, <5>4, <5>5, <5>6 DEF Step
      <4>2. pc \in [Poll -> Phase]
        BY <1>1 DEF IInv, TypeOK
      <4>3. QED BY <3>1, <4>1, <4>2
    <3>4. ~Tick /\ ~VendorFlips /\ ~UNCHANGED vars
      BY <3>1 DEF Tick, VendorFlips, vars
    <3>5. PICK q \in Poll : Start(q)
      BY <1>1, <3>3, <3>4 DEF Next
    <3>6. QED BY <3>2, <3>5
  <2>2. \A q \in Poll : ~Calling(q)
    BY <2>1 DEF Start, Idle, Calling
  <2>3. breaker.state \notin {"closed", "half_open"}
    BY <1>1, <2>2, BreakerAssumption DEF IInv, Counting
  <2>4. QED BY <2>1, <2>3 DEF Start, Admits
<1>2. QED BY <1>1, Invariance, PTL DEF Spec, BacksOff

(* A closed breaker opens only at the threshold's failure in a row.        *)
THEOREM OpenedByStreaks == Spec => OpensOnlyAfterStreak
<1> DEFINE Held == breaker.state = "closed" /\ breaker'.state # "closed" =>
                      streak' = FailureThreshold
<1>1. ASSUME IInv, [Next]_vars PROVE [Held]_vars
  <2> SUFFICES ASSUME breaker.state = "closed", breaker'.state # "closed"
               PROVE  streak' = FailureThreshold
    OBVIOUS
  <2>1. breaker \in Breaker /\ streak \in 0 .. FailureThreshold
           /\ breaker.failures = streak /\ streak < FailureThreshold
    BY <1>1 DEF IInv, TypeOK, Counting
  <2>2. Admitted(breaker).state = "closed" /\ OnSuccess(breaker).state = "closed"
    BY <2>1, BreakerAssumption DEF Admitted, OnSuccess, Breaker
  <2>3. PICK p \in Poll : CallFails(p)
    BY <1>1, <2>2 DEF Next, Step, Start, Refused, AttemptSucceeds, LastPage, Returns, StartPaging,
          PageArrives, PageLost, AttemptFails, Retry, Publish, PublishFails, WriteHealth, WriteHealthFails, HandleError, Tick, VendorFlips, vars
  <2>4. QED BY <2>1, <2>3, BreakerAssumption DEF CallFails, OnFailure, Breaker
<1>2. QED BY <1>1, Invariance, PTL DEF Spec, OpensOnlyAfterStreak
----------------------------------------------------------------------------
(* Progress.  What a poll has before it, in steps of its own: per attempt  *)
(* one and its backoff, the pages, the records it fetched, the health row, *)
(* the error path.                                                         *)
Left(p) ==
    CASE pc[p] = "attempt" -> 2 * MaxBatch + 4 + 2 * (MaxAttempts - attempt[p])
      [] pc[p] = "backoff" -> 2 * MaxBatch + 5 + 2 * (MaxAttempts - attempt[p])
      [] pc[p] = "paging"  -> 2 * MaxBatch + 3 - size[p]
      [] pc[p] = "publish" -> 2 + size[p] - sent[p]
      [] pc[p] = "health"  -> 2
      [] pc[p] = "error"   -> 1
      [] OTHER -> 0

(* The guard holds of a step that takes it further.                        *)
Ready(p) ==
    \/ pc[p] = "attempt" /\ (up \/ attempt[p] <= MaxAttempts)
    \/ pc[p] = "paging" /\ up
    \/ pc[p] \in {"backoff", "publish", "health", "error"}

(* A poll that hung would stop its connector for good, since fires are     *)
(* dropped while it runs.  It hangs in one place only: in the middle of    *)
(* its pages, for as long as the vendor is away.  Anywhere else it can go  *)
(* on, whether or not the vendor and Redis answer, and has so many steps   *)
(* before it.                                                              *)
HangsOnlyBetweenPages ==
    \A p \in Poll : pc[p] # "idle" =>
       /\ Left(p) \in 1 .. 2 * MaxBatch + 2 * MaxAttempts + 3
       /\ Ready(p) \/ (pc[p] = "paging" /\ ~up)

(* Each step of a poll but the loss of a page brings it nearer to its end, *)
(* and nothing else touches it: no other poll, no passing of time, no turn *)
(* of the vendor's.                                                        *)
PollsEnd ==
    [][\A p \in Poll : pc[p] # "idle" =>
          IF Step(p) THEN PageLost(p) \/ Left(p)' < Left(p)
          ELSE UNCHANGED <<pc[p], attempt[p], size[p], sent[p]>>]_vars

(* HangsOnlyBetweenPages: a connector's polls come to an end, whoever is   *)
(* down, but for the one that is between two pages of a vendor that went   *)
(* away; that one goes on when the vendor is back.                         *)
THEOREM PollsProceed == Spec => []HangsOnlyBetweenPages
<1>1. ASSUME IInv, NEW p \in Poll, pc[p] # "idle"
      PROVE  /\ Left(p) \in 1 .. 2 * MaxBatch + 2 * MaxAttempts + 3
             /\ Ready(p) \/ (pc[p] = "paging" /\ ~up)
  <2>1. /\ pc[p] \in Phase /\ attempt[p] \in 1 .. MaxAttempts
        /\ size[p] \in 0 .. MaxBatch /\ sent[p] \in 0 .. MaxBatch
        /\ pc[p] = "publish" => sent[p] < size[p]
    BY <1>1 DEF IInv, TypeOK, Progress
  <2>2. Ready(p) \/ (pc[p] = "paging" /\ ~up)
    BY <1>1, <2>1, PollingAssumption DEF Ready, Phase
  <2>3. Left(p) \in 1 .. 2 * MaxBatch + 2 * MaxAttempts + 3
    BY <1>1, <2>1, PollingAssumption DEF Left, Phase
  <2> QED BY <2>2, <2>3
<1>2. IInv => HangsOnlyBetweenPages
  BY <1>1 DEF HangsOnlyBetweenPages
<1> QED BY <1>2, Invariance, PTL

(* PollsEnd: no poll keeps its connector from the next one for ever, as    *)
(* long as its calls and sleeps end and it loses no more pages.            *)
THEOREM PollsAreFinite == Spec => PollsEnd
<1> DEFINE Ends(p) == pc[p] # "idle" =>
              IF Step(p) THEN PageLost(p) \/ Left(p)' < Left(p)
              ELSE UNCHANGED <<pc[p], attempt[p], size[p], sent[p]>>
<1>1. ASSUME IInv, NEW p \in Poll, Step(p) PROVE PageLost(p) \/ Left(p)' < Left(p)
  <2>1. /\ pc \in [Poll -> Phase] /\ attempt \in [Poll -> 1 .. MaxAttempts]
        /\ size \in [Poll -> 0 .. MaxBatch] /\ sent \in [Poll -> 0 .. MaxBatch]
        /\ pc[p] = "publish" => sent[p] < size[p]
        /\ Calling(p) => sent[p] = 0
        /\ MaxAttempts \in Nat /\ MaxBatch \in Nat
    BY <1>1, PollingAssumption DEF IInv, TypeOK, Progress
  <2>2. CASE AttemptSucceeds(p) \/ LastPage(p)
    <3>1. PICK n \in 0 .. MaxBatch : Returns(p, n)
      BY <2>1, <2>2 DEF AttemptSucceeds, LastPage
    <3>2. /\ pc[p] \in {"attempt", "paging"} /\ sent'[p] = 0 /\ size'[p] = n
          /\ pc'[p] = IF n = 0 THEN "health" ELSE "publish"
      BY <2>1, <2>2, <3>1 DEF AttemptSucceeds, LastPage, Returns, Calling
    <3>3. Left(p)' \in 2 .. MaxBatch + 2
      BY <2>1, <3>2 DEF Left
    <3>4. Left(p) \in Nat /\ Left(p) > MaxBatch + 2
      BY <2>1, <3>2 DEF Left
    <3> QED BY <2>1, <3>3, <3>4
  <2>9. CASE StartPaging(p)
    <3>1. pc[p] = "attempt" /\ pc'[p] = "paging" /\ size'[p] = 0
      BY <2>1, <2>9 DEF StartPaging
    <3> QED BY <2>1, <3>1 DEF Left
  <2>10. CASE PageArrives(p)
    <3>1. pc[p] = "paging" /\ pc'[p] = "paging" /\ size'[p] = size[p] + 1
      BY <2>1, <2>10 DEF PageArrives
    <3> QED BY <2>1, <3>1 DEF Left
  <2>3. CASE AttemptFails(p)
    <3>1. /\ pc[p] = "attempt" /\ pc'[p] = "backoff" /\ attempt'[p] = attempt[p] + 1
      BY <2>1, <2>3 DEF AttemptFails
    <3> QED BY <2>1, <3>1 DEF Left
  <2>4. CASE Retry(p)
    <3>1. /\ pc[p] = "backoff" /\ pc'[p] = "attempt" /\ attempt'[p] = attempt[p]
      BY <2>1, <2>4 DEF Retry
    <3> QED BY <2>1, <3>1 DEF Left
  <2>5. CASE CallFails(p)
    <3>1. pc[p] = "attempt" /\ pc'[p] = "error"
      BY <2>1, <2>5 DEF CallFails
    <3> QED BY <2>1, <3>1 DEF Left
  <2>6. CASE Publish(p)
    <3>1. /\ pc[p] = "publish" /\ sent'[p] = sent[p] + 1 /\ size'[p] = size[p]
          /\ pc'[p] = IF sent[p] + 1 = size[p] THEN "health" ELSE "publish"
      BY <2>1, <2>6 DEF Publish
    <3> QED BY <2>1, <3>1 DEF Left
  <2>7. CASE PublishFails(p)
    <3>1. pc[p] = "publish" /\ pc'[p] = "error"
      BY <2>1, <2>7 DEF PublishFails
    <3> QED BY <2>1, <3>1 DEF Left
  <2>8. CASE WriteHealth(p) \/ WriteHealthFails(p) \/ HandleError(p)
    <3>1. \/ pc[p] = "health" /\ pc'[p] \in {"idle", "error"}
          \/ pc[p] = "error" /\ pc'[p] = "idle"
      BY <2>1, <2>8 DEF WriteHealth, WriteHealthFails, HandleError
    <3> QED BY <3>1 DEF Left
  <2> QED BY <1>1, <2>2, <2>3, <2>4, <2>5, <2>6, <2>7, <2>8, <2>9, <2>10 DEF Step
<1>2. ASSUME IInv, Next, NEW p \in Poll, pc[p] # "idle", ~Step(p)
      PROVE  UNCHANGED <<pc[p], attempt[p], size[p], sent[p]>>
  <2>1. \A q \in Poll : ~Start(q) /\ ~Refused(q) /\ ~Step(q)
    <3>1. ASSUME NEW q \in Poll, Step(q) PROVE pc[q] # "idle"
      BY <3>1 DEF Step, AttemptSucceeds, StartPaging, PageArrives, LastPage, PageLost, AttemptFails,
                  Retry, CallFails, Publish, PublishFails, WriteHealth, WriteHealthFails, HandleError
    <3> QED BY <1>2, <3>1 DEF Start, Refused, Idle, IInv, Alone
  <2> QED BY <1>2, <2>1 DEF Next, Tick, VendorFlips
<1>3. IInv /\ [Next]_vars => [\A p \in Poll : Ends(p)]_vars
  BY <1>1, <1>2
<1>4. PollsEnd <=> [][\A p \in Poll : Ends(p)]_vars
  BY PTL DEF PollsEnd
<1> HIDE DEF Ends
<1> QED BY <1>3, <1>4, Invariance, PTL DEF Spec

(* How far the breaker is from closed: the probes that have to succeed,    *)
(* and, while it is open, the call that makes it half-open.                *)
Distance ==
    CASE breaker.state = "closed"    -> 0
      [] breaker.state = "half_open" -> HalfOpenMaxAttempts - breaker.successes
      [] OTHER -> HalfOpenMaxAttempts + 1

(* A breaker on its way back is set back by nothing but a call that        *)
(* failed, not by refused polls, lost publications or the errors of its    *)
(* own bookkeeping; and each call it lets through or that succeeds brings  *)
(* it nearer to closed, or finds it so.                                    *)
OnlyFailuresSetBack ==
    [][/\ Distance' > Distance => \E p \in Poll : CallFails(p)
       /\ \A p \in Poll : Start(p) /\ breaker.state = "open" => Distance' < Distance
       /\ \A p \in Poll : AttemptSucceeds(p) \/ LastPage(p)
                         => Distance' < Distance \/ Distance' = 0]_vars

(* OnlyFailuresSetBack: with PollsAreFinite and BreakerRecovers, what      *)
(* Recovers needs of the code beside fairness.                             *)
THEOREM OnlyFailuresDelay == Spec => OnlyFailuresSetBack
<1> DEFINE Held == /\ Distance' > Distance => \E p \in Poll : CallFails(p)
                   /\ \A p \in Poll : Start(p) /\ breaker.state = "open" => Distance' < Distance
                   /\ \A p \in Poll : AttemptSucceeds(p) \/ LastPage(p)
                         => Distance' < Distance \/ Distance' = 0
<1>1. ASSUME IInv, [Next]_vars PROVE [Held]_vars
  <2> SUFFICES ASSUME ~UNCHANGED vars PROVE Held
    OBVIOUS
  <2>1. /\ breaker \in Breaker /\ HalfOpenMaxAttempts \in Nat \ {0}
        /\ breaker.successes \in 0 .. HalfOpenMaxAttempts - 1
        /\ breaker.state \in {"closed", "open", "half_open"}
    BY <1>1, BreakerAssumption DEF IInv, TypeOK, Counting, Breaker
  <2>2. Distance \in Nat /\ Distance' \in Int
    <3>1. breaker' \in Breaker
      BY <1>1, Preserved DEF IInv, TypeOK
    <3> QED BY <2>1, <3>1 DEF Distance, Breaker
  <2>3. ASSUME UNCHANGED breaker PROVE Distance' = Distance
    BY <2>3 DEF Distance
  <2>4. ASSUME NEW p \in Poll, Start(p)
        PROVE  Distance' <= Distance /\ (breaker.state = "open" => Distance' < Distance)
    <3>1. breaker' = Admitted(breaker)
      BY <2>4 DEF Start
    <3>2. CASE breaker.state = "open"
      <4>1. breaker'.state = "half_open" /\ breaker'.successes = 0
        BY <2>1, <3>1, <3>2 DEF Admitted, Breaker
      <4> QED BY <2>1, <3>2, <4>1 DEF Distance
    <3>3. CASE breaker.state # "open"
      BY <2>2, <2>3, <3>1, <3>3 DEF Admitted
    <3> QED BY <3>2, <3>3
  <2>5. ASSUME NEW p \in Poll, AttemptSucceeds(p) \/ LastPage(p)
        PROVE  Distance' < Distance \/ Distance' = 0
    <3>1. breaker' = OnSuccess(breaker) /\ breaker.state \in {"closed", "half_open"}
      BY <1>1, <2>1, <2>5 DEF AttemptSucceeds, LastPage, Returns, IInv, Counting, Calling
    <3>2. CASE breaker'.state = "closed"
      BY <3>2 DEF Distance
    <3>3. CASE breaker'.state # "closed"
      <4>1. /\ breaker.state = "half_open" /\ breaker'.state = "half_open"
            /\ breaker'.successes = breaker.successes + 1
        BY <2>1, <3>1, <3>3 DEF OnSuccess, Breaker, Closed
      <4> QED BY <2>1, <4>1 DEF Distance
    <3> QED BY <3>2, <3>3
  <2>6. ASSUME \A p \in Poll : ~CallFails(p) PROVE Distance' <= Distance
    <3>1. CASE \E p \in Poll : Start(p)
      BY <2>4, <3>1
    <3>2. CASE \E p \in Poll : AttemptSucceeds(p) \/ LastPage(p)
      BY <2>2, <2>5, <3>2
    <3>3. CASE UNCHANGED breaker
      BY <2>2, <2>3, <3>3
    <3> QED
      BY <1>1, <2>6, <3>1, <3>2, <3>3
      DEF Next, Step, Refused, StartPaging, PageArrives, PageLost, AttemptFails, Retry, Publish,
          PublishFails, WriteHealth, WriteHealthFails, HandleError, Tick, VendorFlips
  <2>7. Distance' > Distance => \E p \in Poll : CallFails(p)
    BY <2>2, <2>6
  <2> QED BY <2>4, <2>5, <2>7
<1>2. IInv /\ [Next]_vars => [Held]_vars
  BY <1>1
<1>3. OnlyFailuresSetBack <=> [][Held]_vars
  BY PTL DEF OnlyFailuresSetBack
<1> HIDE DEF Held
<1> QED BY <1>2, <1>3, Invariance, PTL DEF Spec
=============================================================================
