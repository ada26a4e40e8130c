-------------------------- MODULE AnalyticsProofs ---------------------------
(***************************************************************************)
(* Proofs about the throttle and the aggregate rules job, for any number   *)
(* of processes and rows, and any window and limit.                        *)
(***************************************************************************)
EXTENDS Analytics, FiniteSetTheorems, TLAPS

(* An evaluation takes less than a window.                                 *)
Timely == \A e \in Evaluator : pc[e] # "idle" => now[e] \in Time /\ now[e] <= clock
                                                   /\ clock < now[e] + Window

(* Between its trim and its count an evaluator sees no alert that is older *)
(* than its window.                                                        *)
Trimmed == \A e \in Evaluator : pc[e] = "count" => \A t \in zset : t > now[e] - Window

(* Every alert let through is stored, in somebody's hands or lost; and     *)
(* what a run publishes it has stored.                                     *)
Traced ==
    /\ admitted \subseteq desk \cup lost \cup UNION {found[e] : e \in Evaluator}
    /\ \A e \in Evaluator : stage[e] = "publish" => found[e] \subseteq desk

IInv == JobTypeOK /\ Timely /\ Trimmed /\ Traced /\ SuppressedOnlyWhenFull /\ PagedIsOnTheDesk

(* A larger set of times has at least as many.                             *)
LEMMA MoreTimes ==
    ASSUME NEW A \in SUBSET Time, NEW B \in SUBSET Time, A \subseteq B
    PROVE  /\ IsFiniteSet(B) /\ Cardinality(A) \in Nat /\ Cardinality(B) \in Nat
           /\ Cardinality(A) <= Cardinality(B)
<1>1. IsFiniteSet(Time)
  BY FS_Interval, ThrottleAssumption DEF Time
<1>2. IsFiniteSet(A) /\ IsFiniteSet(B)
  BY <1>1, FS_Subset
<1>3. QED BY <1>2, FS_Subset, FS_CardinalityType

LEMMA Starts == JobInit => IInv
<1> SUFFICES ASSUME JobInit PROVE IInv OBVIOUS
<1>1. JobTypeOK
  BY ThrottleAssumption, AnalyticsAssumption DEF JobInit, Init, JobTypeOK, TypeOK, Phase, Stage, Time
<1>2. Timely /\ Trimmed /\ Traced /\ SuppressedOnlyWhenFull /\ PagedIsOnTheDesk
  BY DEF JobInit, Init, Timely, Trimmed, Traced, SuppressedOnlyWhenFull, PagedIsOnTheDesk
<1>3. QED BY <1>1, <1>2 DEF IInv

(* Types that the steps are about.                                         *)
LEMMA Typed ==
    ASSUME IInv
    PROVE  /\ clock \in Int /\ clock >= 0 /\ clock <= MaxTime
           /\ pc \in [Evaluator -> Phase] /\ now \in [Evaluator -> 0 .. MaxTime]
           /\ zset \subseteq admitted /\ admitted \subseteq Time /\ suppressed \subseteq Time
           /\ rows \in [Evaluator -> 0 .. MaxFound] /\ found \in [Evaluator -> SUBSET Time]
           /\ stage \in [Evaluator -> Stage]
           /\ desk \subseteq Time /\ paged \subseteq Time /\ lost \subseteq Time
           /\ Time \subseteq Int /\ Window \in Nat /\ MaxTime \in Nat /\ MaxFound \in Nat
BY ThrottleAssumption, AnalyticsAssumption DEF IInv, JobTypeOK, TypeOK, Time

(* No alert is let through: what was withheld had its reason.              *)
LEMMA ReasonsStay ==
    ASSUME IInv, suppressed' = suppressed, admitted \subseteq admitted', admitted' \subseteq Time
    PROVE  SuppressedOnlyWhenFull'
<1> SUFFICES ASSUME NEW t \in suppressed
             PROVE  Cardinality({u \in admitted' : u > t - Window}) >= MaxAlerts
  BY DEF SuppressedOnlyWhenFull
<1> DEFINE A == {u \in admitted : u > t - Window}
           B == {u \in admitted' : u > t - Window}
<1>1. A \subseteq B /\ A \in SUBSET Time /\ B \in SUBSET Time
  BY Typed
<1>2. Cardinality(A) >= MaxAlerts
  BY DEF IInv, SuppressedOnlyWhenFull
<1> HIDE DEF A, B
<1>3. Cardinality(A) <= Cardinality(B) /\ Cardinality(A) \in Nat /\ Cardinality(B) \in Nat
  BY <1>1, MoreTimes
<1>4. Cardinality(B) >= MaxAlerts
  BY <1>2, <1>3, ThrottleAssumption
<1>5. QED BY <1>4 DEF B

LEMMA Preserved == IInv /\ [JobNext]_allVars => IInv'
<1> SUFFICES ASSUME IInv, [JobNext]_allVars PROVE IInv' OBVIOUS
<1> USE Typed
<1>1. ASSUME NEW e \in Evaluator, NEW n \in 0 .. MaxFound, StartRun(e, n) PROVE IInv'
  <2>1. JobTypeOK'
    BY <1>1 DEF IInv, JobTypeOK, TypeOK, StartRun, vars, Stage
  <2>2. Timely' /\ Trimmed' /\ PagedIsOnTheDesk'
    BY <1>1 DEF IInv, StartRun, vars, Timely, Trimmed, PagedIsOnTheDesk
  <2>3. Traced'
    BY <1>1 DEF IInv, StartRun, vars, Traced
  <2>4. SuppressedOnlyWhenFull'
    BY <1>1, ReasonsStay DEF StartRun, vars
  <2>5. QED BY <2>1, <2>2, <2>3, <2>4 DEF IInv
<1>2. ASSUME NEW e \in Evaluator, Begin(e), UNCHANGED jobVars PROVE IInv'
  <2>1. /\ clock' = clock + 1 /\ clock < MaxTime
        /\ \A f \in Evaluator : pc[f] # "idle" => clock + 1 < now[f] + Window
        /\ now' = [now EXCEPT ![e] = clock + 1] /\ pc' = [pc EXCEPT ![e] = "trim"]
        /\ UNCHANGED <<zset, admitted, suppressed>>
    BY <1>2 DEF Begin, ClockAdvances
  <2>2. clock + 1 \in Time /\ clock + 1 \in 0 .. MaxTime
    BY <2>1 DEF Time
  <2>3. JobTypeOK'
    BY <1>2, <2>1, <2>2 DEF IInv, JobTypeOK, TypeOK, jobVars, Phase
  <2>4. Timely'
    BY <2>1, <2>2, ThrottleAssumption DEF IInv, Timely
  <2>5. Trimmed'
    BY <2>1 DEF IInv, Trimmed
  <2>6. Traced' /\ PagedIsOnTheDesk'
    BY <1>2, <2>1 DEF IInv, jobVars, Traced, PagedIsOnTheDesk
  <2>7. SuppressedOnlyWhenFull'
    BY <2>1, ReasonsStay
  <2>8. QED BY <2>3, <2>4, <2>5, <2>6, <2>7 DEF IInv
<1>3. ASSUME NEW e \in Evaluator, Trim(e) \/ Pass(e), UNCHANGED jobVars PROVE IInv'
  <2>1. JobTypeOK'
    BY <1>3 DEF IInv, JobTypeOK, TypeOK, jobVars, Trim, Pass, Phase
  <2>2. Timely'
    BY <1>3 DEF IInv, Timely, Trim, Pass
  <2>3. Trimmed'
    BY <1>3 DEF IInv, Trimmed, Trim, Pass
  <2>4. Traced' /\ PagedIsOnTheDesk'
    BY <1>3 DEF IInv, jobVars, Traced, PagedIsOnTheDesk, Trim, Pass
  <2>5. SuppressedOnlyWhenFull'
    BY <1>3, ReasonsStay DEF Trim, Pass
  <2>6. QED BY <2>1, <2>2, <2>3, <2>4, <2>5 DEF IInv
<1>4. ASSUME NEW e \in Evaluator, Withhold(e) PROVE IInv'
  <2>1. /\ pc[e] = "count" /\ Full /\ suppressed' = suppressed \cup {now[e]}
        /\ pc' = [pc EXCEPT ![e] = "idle"] /\ UNCHANGED <<clock, now, zset, admitted>>
        /\ rows[e] > 0 /\ rows' = [rows EXCEPT ![e] = @ - 1]
        /\ UNCHANGED <<found, stage, desk, paged, lost>>
    BY <1>4 DEF Withhold, Suppress, Evaluating
  <2>2. now[e] \in Time
    BY <2>1 DEF IInv, Timely
  <2>3. JobTypeOK'
    <3>1. rows' \in [Evaluator -> 0 .. MaxFound]
      BY <2>1
    <3>2. QED BY <2>1, <2>2, <3>1 DEF IInv, JobTypeOK, TypeOK, Phase
  <2>4. Timely' /\ Trimmed' /\ Traced' /\ PagedIsOnTheDesk'
    BY <2>1 DEF IInv, Timely, Trimmed, Traced, PagedIsOnTheDesk
  <2>5. Cardinality({u \in admitted : u > now[e] - Window}) >= MaxAlerts
    <3> DEFINE B == {u \in admitted : u > now[e] - Window}
    <3>1. zset \subseteq B /\ zset \in SUBSET Time /\ B \in SUBSET Time
      BY <2>1 DEF IInv, Trimmed
    <3>2. Cardinality(zset) >= MaxAlerts
      BY <2>1 DEF Full
    <3> HIDE DEF B
    <3>3. Cardinality(zset) <= Cardinality(B) /\ Cardinality(zset) \in Nat /\ Cardinality(B) \in Nat
      BY <3>1, MoreTimes
    <3>4. Cardinality(B) >= MaxAlerts
      BY <3>2, <3>3, ThrottleAssumption
    <3>5. QED BY <3>4 DEF B
  <2>6. SuppressedOnlyWhenFull'
    BY <2>1, <2>5 DEF IInv, SuppressedOnlyWhenFull
  <2>7. QED BY <2>3, <2>4, <2>6 DEF IInv
<1>5. ASSUME NEW e \in Evaluator, LetThrough(e) PROVE IInv'
  <2>1. /\ pc[e] = "add" /\ zset' = zset \cup {now[e]} /\ admitted' = admitted \cup {now[e]}
        /\ pc' = [pc EXCEPT ![e] = "idle"] /\ UNCHANGED <<clock, now, suppressed>>
        /\ rows[e] > 0 /\ rows' = [rows EXCEPT ![e] = @ - 1]
        /\ found' = [found EXCEPT ![e] = @ \cup {now[e]}] /\ stage[e] = "evaluate"
        /\ UNCHANGED <<stage, desk, paged, lost>>
    BY <1>5 DEF LetThrough, Add, Evaluating
  <2>2. now[e] \in Time
    BY <2>1 DEF IInv, Timely
  <2>3. JobTypeOK'
    <3>1. rows' \in [Evaluator -> 0 .. MaxFound]
      BY <2>1
    <3>2. found' \in [Evaluator -> SUBSET Time]
      BY <2>1, <2>2
    <3>3. QED BY <2>1, <2>2, <3>1, <3>2 DEF IInv, JobTypeOK, TypeOK, Phase
  <2>4. Timely' /\ PagedIsOnTheDesk'
    BY <2>1 DEF IInv, Timely, PagedIsOnTheDesk
  <2>5. Trimmed'
    <3> SUFFICES ASSUME NEW f \in Evaluator, pc'[f] = "count", NEW t \in zset'
                 PROVE  t > now[f] - Window
      BY <2>1 DEF Trimmed
    <3>1. f # e /\ pc[f] = "count"
      BY <2>1
    <3>2. CASE t \in zset
      BY <3>1, <3>2 DEF IInv, Trimmed
    <3>3. CASE t = now[e]
      <4>1. now[e] \in Int /\ now[f] \in Int /\ clock < now[e] + Window /\ now[f] <= clock
        BY <2>1, <3>1 DEF IInv, Timely
      <4>2. QED BY <3>3, <4>1
    <3>4. QED BY <2>1, <3>2, <3>3
  <2>6. Traced'
    <3>1. \A f \in Evaluator : found[f] \subseteq found'[f]
      BY <2>1
    <3>2. now[e] \in found'[e]
      BY <2>1
    <3> DEFINE before == UNION {found[f] : f \in Evaluator}
               after == UNION {found'[f] : f \in Evaluator}
    <3>3. before \cup {now[e]} \subseteq after
      <4>1. ASSUME NEW t \in before PROVE t \in after
        <5>1. PICK f \in Evaluator : t \in found[f]
          OBVIOUS
        <5>2. QED BY <3>1, <5>1
      <4>2. now[e] \in after
        BY <3>2
      <4> HIDE DEF before, after
      <4>3. QED BY <4>1, <4>2
    <3>4. \A f \in Evaluator : stage[f] = "publish" => found'[f] \subseteq desk
      BY <2>1 DEF IInv, Traced
    <3>5. admitted \subseteq desk \cup lost \cup before
      BY DEF IInv, Traced
    <3>6. admitted' \subseteq desk \cup lost \cup after
      <4> HIDE DEF before, after
      <4>1. QED BY <2>1, <3>3, <3>5
    <3>7. desk' = desk /\ lost' = lost /\ stage' = stage
      BY <2>1
    <3>8. QED BY <3>4, <3>6, <3>7 DEF Traced
  <2>7. SuppressedOnlyWhenFull'
    BY <2>1, <2>2, ReasonsStay
  <2>8. QED BY <2>3, <2>4, <2>5, <2>6, <2>7 DEF IInv
<1>6. ASSUME NEW e \in Evaluator, NothingFound(e) \/ Store(e) PROVE IInv'
  <2>1. JobTypeOK'
    BY <1>6 DEF IInv, JobTypeOK, TypeOK, NothingFound, Store, vars, Stage
  <2>2. Timely' /\ Trimmed' /\ PagedIsOnTheDesk'
    BY <1>6 DEF IInv, NothingFound, Store, vars, Timely, Trimmed, PagedIsOnTheDesk
  <2>3. Traced'
    BY <1>6 DEF IInv, NothingFound, Store, vars, Traced
  <2>4. SuppressedOnlyWhenFull'
    BY <1>6, ReasonsStay DEF NothingFound, Store, vars
  <2>5. QED BY <2>1, <2>2, <2>3, <2>4 DEF IInv
<1>7. ASSUME NEW e \in Evaluator, Publish(e) PROVE IInv'
  <2>1. /\ stage[e] = "publish" /\ found' = [found EXCEPT ![e] = {}]
        /\ stage' = [stage EXCEPT ![e] = "none"] /\ paged' \subseteq paged \cup found[e]
        /\ UNCHANGED <<clock, pc, now, zset, admitted, suppressed, rows, desk, lost>>
    BY <1>7 DEF Publish, vars
  <2>2. found[e] \subseteq desk
    BY <2>1 DEF IInv, Traced
  <2>3. JobTypeOK'
    BY <2>1 DEF IInv, JobTypeOK, TypeOK, Stage
  <2>4. Timely' /\ Trimmed'
    BY <2>1 DEF IInv, Timely, Trimmed
  <2>5. PagedIsOnTheDesk'
    BY <2>1, <2>2 DEF IInv, PagedIsOnTheDesk
  <2>6. Traced'
    <3>1. UNION {found[f] : f \in Evaluator} \subseteq found[e] \cup UNION {found'[f] : f \in Evaluator}
      BY <2>1
    <3>2. \A f \in Evaluator : stage'[f] = "publish" => found'[f] \subseteq desk
      BY <2>1 DEF IInv, Traced
    <3>3. QED BY <2>1, <2>2, <3>1, <3>2 DEF IInv, Traced
  <2>7. SuppressedOnlyWhenFull'
    BY <2>1, ReasonsStay
  <2>8. QED BY <2>3, <2>4, <2>5, <2>6, <2>7 DEF IInv
<1>8. ASSUME NEW e \in Evaluator, EndRun(e) PROVE IInv'
  <2>1. /\ found' = [found EXCEPT ![e] = {}] /\ stage' = [stage EXCEPT ![e] = "none"]
        /\ rows' = [rows EXCEPT ![e] = 0] /\ pc' = [pc EXCEPT ![e] = "idle"]
        /\ lost' = lost \cup (found[e] \ desk)
        /\ UNCHANGED <<clock, now, zset, admitted, suppressed, desk, paged>>
    BY <1>8 DEF EndRun
  <2>2. JobTypeOK'
    BY <2>1 DEF IInv, JobTypeOK, TypeOK, Stage, Phase
  <2>3. Timely' /\ Trimmed' /\ PagedIsOnTheDesk'
    BY <2>1 DEF IInv, Timely, Trimmed, PagedIsOnTheDesk
  <2>4. Traced'
    <3>1. UNION {found[f] : f \in Evaluator} \subseteq found[e] \cup UNION {found'[f] : f \in Evaluator}
      BY <2>1
    <3>2. \A f \in Evaluator : stage'[f] = "publish" => found'[f] \subseteq desk
      BY <2>1 DEF IInv, Traced
    <3>3. QED BY <2>1, <3>1, <3>2 DEF IInv, Traced
  <2>5. SuppressedOnlyWhenFull'
    BY <2>1, ReasonsStay
  <2>6. QED BY <2>2, <2>3, <2>4, <2>5 DEF IInv
<1>9. ASSUME Tick, UNCHANGED jobVars PROVE IInv'
  <2>1. /\ clock' = clock + 1 /\ clock < MaxTime
        /\ \A f \in Evaluator : pc[f] # "idle" => clock + 1 < now[f] + Window
        /\ UNCHANGED <<pc, now, zset, admitted, suppressed>>
    BY <1>9 DEF Tick, ClockAdvances
  <2>2. clock' \in 0 .. MaxTime
    BY <2>1
  <2>3. JobTypeOK'
    BY <1>9, <2>1, <2>2 DEF IInv, JobTypeOK, TypeOK, jobVars
  <2>4. Timely'
    BY <2>1 DEF IInv, Timely
  <2>5. Trimmed' /\ Traced' /\ PagedIsOnTheDesk'
    BY <1>9, <2>1 DEF IInv, jobVars, Trimmed, Traced, PagedIsOnTheDesk
  <2>6. SuppressedOnlyWhenFull'
    BY <2>1, ReasonsStay
  <2>7. QED BY <2>3, <2>4, <2>5, <2>6 DEF IInv
<1>10. ASSUME UNCHANGED allVars PROVE IInv'
  BY <1>10 DEF allVars, vars, jobVars, IInv, JobTypeOK, TypeOK, Timely, Trimmed, Traced,
                SuppressedOnlyWhenFull, PagedIsOnTheDesk
<1>11. QED
  BY <1>1, <1>2, <1>3, <1>4, <1>5, <1>6, <1>7, <1>8, <1>9, <1>10 DEF JobNext, Run, Ask

LEMMA Invariance == JobSpec => []IInv
BY Starts, Preserved, PTL DEF JobSpec

----------------------------------------------------------------------------
(* The variables of the job stay within their types; in particular what is *)
(* in the sorted set was let through.                                      *)
THEOREM Typing == JobSpec => []JobTypeOK
<1>1. IInv => JobTypeOK BY DEF IInv
<1>2. QED BY <1>1, Invariance, PTL

(* However many evaluators trim, count and add between each other's round  *)
(* trips, none is told that the set is full on account of expired alerts.  *)
THEOREM SuppressionIsJustified == JobSpec => []SuppressedOnlyWhenFull
<1>1. IInv => SuppressedOnlyWhenFull BY DEF IInv
<1>2. QED BY <1>1, Invariance, PTL

(* An alert that is paged has its row, wherever the run fails or dies.     *)
THEOREM PagesAreOnTheDesk == JobSpec => []PagedIsOnTheDesk
<1>1. IInv => PagedIsOnTheDesk BY DEF IInv
<1>2. QED BY <1>1, Invariance, PTL

(* A withheld alert is explained by alerts of its window on the desk, or   *)
(* in the hands of a run that has not finished, or lost with one.          *)
THEOREM SilenceIsExplained == JobSpec => []QuietHasACause
<1>1. ASSUME IInv PROVE QuietHasACause
  <2> DEFINE recent(t) == {u \in Time : u > t - Window}
             away == lost \cup UNION {found[e] : e \in Evaluator}
  <2> SUFFICES ASSUME NEW t \in suppressed, recent(t) \cap away = {}
               PROVE  Cardinality(desk \cap recent(t)) >= MaxAlerts
    BY DEF QuietHasACause
  <2> DEFINE A == {u \in admitted : u > t - Window}
             B == desk \cap recent(t)
  <2>1. admitted \subseteq desk \cup away /\ admitted \subseteq Time /\ desk \subseteq Time
    BY <1>1, Typed DEF IInv, Traced
  <2>2. A \subseteq B /\ A \in SUBSET Time /\ B \in SUBSET Time
    BY <2>1
  <2>3. Cardinality(A) >= MaxAlerts
    BY <1>1 DEF IInv, SuppressedOnlyWhenFull
  <2> HIDE DEF A, B
  <2>4. Cardinality(A) <= Cardinality(B) /\ Cardinality(A) \in Nat /\ Cardinality(B) \in Nat
    BY <2>2, MoreTimes
  <2>5. Cardinality(B) >= MaxAlerts
    BY <2>3, <2>4, ThrottleAssumption
  <2>6. QED BY <2>5 DEF B
<1>2. QED BY <1>1, Invariance, PTL

----------------------------------------------------------------------------
(* The overshoot.  Of the evaluations whose clock reading lies in the      *)
(* window that ends at t: those under way, and those past their count.     *)
Underway(t) == {e \in Evaluator : pc[e] # "idle" /\ t - Window < now[e] /\ now[e] <= t}

Passing(t) == {e \in Underway(t) : pc[e] = "add"}

(* Until an alert of the window is trimmed, a count sees all of them, and  *)
(* each evaluator adds one alert at most on the strength of a count that   *)
(* was in order.  Only an evaluator that read its clock after the window   *)
(* trims them; none of the window starts then, and each but the one that   *)
(* trimmed has one more to add at most.                                    *)
CountedAt(t) ==
    \/ /\ AdmittedInWindow(t) \subseteq zset
       /\ Cardinality(AdmittedInWindow(t)) + Cardinality(Passing(t))
             <= MaxAlerts - 1 + Cardinality(Evaluator)
    \/ /\ clock > t
       /\ Cardinality(AdmittedInWindow(t)) + Cardinality(Underway(t))
             <= MaxAlerts + 2 * (Cardinality(Evaluator) - 1)

Counted == \A t \in Time : CountedAt(t)

LEMMA Evaluators ==
    ASSUME NEW S \in SUBSET Evaluator
    PROVE  /\ IsFiniteSet(S) /\ Cardinality(S) \in Nat
           /\ Cardinality(S) <= Cardinality(Evaluator)
           /\ Cardinality(Evaluator) \in Nat \ {0}
<1>1. IsFiniteSet(Evaluator) /\ Evaluator # {}
  BY ThrottleAssumption
<1>2. IsFiniteSet(S) /\ Cardinality(S) <= Cardinality(Evaluator)
  BY <1>1, FS_Subset
<1>3. Cardinality(S) \in Nat /\ Cardinality(Evaluator) \in Nat
  BY <1>1, <1>2, FS_CardinalityType
<1>4. Cardinality(Evaluator) # 0
  BY <1>1, FS_EmptySet
<1>5. QED BY <1>2, <1>3, <1>4

(* Fewer are under way, and no alert is let through.                       *)
LEMMA FewerUnderway ==
    ASSUME IInv, NEW t \in Time, CountedAt(t),
           admitted' = admitted, zset' = zset, clock' \in Int, clock' >= clock,
           Passing(t)' \subseteq Passing(t), clock > t => Underway(t)' \subseteq Underway(t)
    PROVE  CountedAt(t)'
<1>1. AdmittedInWindow(t)' = AdmittedInWindow(t)
  BY DEF AdmittedInWindow
<1>2. /\ Passing(t) \in SUBSET Evaluator /\ Passing(t)' \in SUBSET Passing(t)
      /\ Underway(t) \in SUBSET Evaluator
  BY DEF Passing, Underway
<1>3. AdmittedInWindow(t) \in SUBSET Time
  BY Typed DEF AdmittedInWindow
<1>4. Cardinality(AdmittedInWindow(t)) \in Nat
  BY <1>3, MoreTimes
<1>5. Cardinality(Passing(t)') <= Cardinality(Passing(t)) /\ Cardinality(Passing(t)') \in Nat
      /\ Cardinality(Passing(t)) \in Nat /\ Cardinality(Evaluator) \in Nat
  BY <1>2, Evaluators, FS_Subset
<1>6. CASE /\ AdmittedInWindow(t) \subseteq zset
           /\ Cardinality(AdmittedInWindow(t)) + Cardinality(Passing(t))
                 <= MaxAlerts - 1 + Cardinality(Evaluator)
  <2>1. Cardinality(AdmittedInWindow(t)) + Cardinality(Passing(t)')
           <= MaxAlerts - 1 + Cardinality(Evaluator)
    BY <1>4, <1>5, <1>6, ThrottleAssumption
  <2>2. QED BY <1>1, <1>6, <2>1 DEF CountedAt
<1>7. CASE /\ clock > t
           /\ Cardinality(AdmittedInWindow(t)) + Cardinality(Underway(t))
                 <= MaxAlerts + 2 * (Cardinality(Evaluator) - 1)
  <2>1. Underway(t)' \in SUBSET Underway(t)
    BY <1>7
  <2>2. Cardinality(Underway(t)') <= Cardinality(Underway(t)) /\ Cardinality(Underway(t)') \in Nat
        /\ Cardinality(Underway(t)) \in Nat
    BY <1>2, <2>1, Evaluators, FS_Subset
  <2>3. Cardinality(AdmittedInWindow(t)) + Cardinality(Underway(t)')
           <= MaxAlerts + 2 * (Cardinality(Evaluator) - 1)
    BY <1>4, <1>5, <1>7, <2>2, ThrottleAssumption
  <2>4. clock' > t
    BY <1>7, Typed
  <2>5. QED BY <1>1, <2>3, <2>4 DEF CountedAt
<1>8. QED BY <1>6, <1>7 DEF CountedAt

LEMMA CountedStep == IInv /\ Counted /\ [Next]_vars => Counted'
<1> SUFFICES ASSUME IInv, [Next]_vars, NEW t \in Time, CountedAt(t)
             PROVE  CountedAt(t)'
  BY DEF Counted, Time
<1> USE Typed
<1> DEFINE A == AdmittedInWindow(t)
           N == Cardinality(Evaluator)
<1>0. /\ A \in SUBSET Time /\ Cardinality(A) \in Nat /\ IsFiniteSet(A)
      /\ N \in Nat \ {0} /\ MaxAlerts \in Nat \ {0} /\ t \in Int
  <2>1. A \in SUBSET Time
    BY DEF AdmittedInWindow
  <2>2. Cardinality(A) \in Nat /\ IsFiniteSet(A)
    BY <2>1, MoreTimes
  <2>3. N \in Nat \ {0}
    BY Evaluators
  <2>4. QED BY <2>1, <2>2, <2>3, ThrottleAssumption
<1>a. /\ Passing(t) \in SUBSET Evaluator /\ Underway(t) \in SUBSET Evaluator
      /\ Passing(t)' \in SUBSET Evaluator /\ Underway(t)' \in SUBSET Evaluator
  BY DEF Passing, Underway
<1>1. ASSUME NEW e \in Evaluator, Begin(e) PROVE CountedAt(t)'
  <2>1. /\ pc[e] = "idle" /\ clock' = clock + 1
        /\ now' = [now EXCEPT ![e] = clock + 1] /\ pc' = [pc EXCEPT ![e] = "trim"]
        /\ zset' = zset /\ admitted' = admitted
    BY <1>1 DEF Begin, ClockAdvances
  <2>2. Passing(t)' \subseteq Passing(t)
    BY <2>1 DEF Passing, Underway
  <2>3. clock > t => Underway(t)' \subseteq Underway(t)
    BY <2>1, <1>0 DEF Underway
  <2>4. QED BY <2>1, <2>2, <2>3, FewerUnderway
<1>2. ASSUME NEW e \in Evaluator, Trim(e) PROVE CountedAt(t)'
  <2>1. /\ pc[e] = "trim" /\ pc' = [pc EXCEPT ![e] = "count"]
        /\ zset' = {u \in zset : u > now[e] - Window}
        /\ now' = now /\ clock' = clock /\ admitted' = admitted
    BY <1>2 DEF Trim
  <2>2. Passing(t)' = Passing(t) /\ Underway(t)' = Underway(t)
    BY <2>1 DEF Passing, Underway
  <2>3. AdmittedInWindow(t)' = A
    BY <2>1 DEF AdmittedInWindow
  <2>4. CASE ~(A \subseteq zset)
    BY <2>1, <2>2, <2>3, <2>4 DEF CountedAt
  <2>5. CASE A \subseteq zset'
    BY <2>1, <2>2, <2>3, <2>5 DEF CountedAt
  <2>6. CASE A \subseteq zset /\ ~(A \subseteq zset')
    <3>1. PICK u \in A : ~(u > now[e] - Window)
      BY <2>1, <2>6
    <3>2. u \in Int /\ t - Window < u
      BY <1>0, <3>1 DEF AdmittedInWindow
    <3>3. now[e] \in Int /\ now[e] <= clock
      BY <2>1 DEF IInv, Timely
    <3>4. now[e] > t
      BY <1>0, <3>1, <3>2, <3>3
    <3>5. clock > t
      BY <1>0, <3>3, <3>4
    <3>6. Underway(t) \in SUBSET (Evaluator \ {e})
      BY <3>3, <3>4, <1>0 DEF Underway
    <3>7. IsFiniteSet(Evaluator \ {e}) /\ Cardinality(Evaluator \ {e}) = N - 1
      BY Evaluators, FS_RemoveElement
    <3>8. Cardinality(Underway(t)) <= N - 1 /\ Cardinality(Underway(t)) \in Nat
      BY <3>6, <3>7, <1>a, Evaluators, FS_Subset
    <3>9. Cardinality(A) <= MaxAlerts - 1 + N \/ Cardinality(A) + Cardinality(Underway(t)) <= MaxAlerts + 2 * (N - 1)
      <4>1. Cardinality(Passing(t)) \in Nat
        BY <1>a, Evaluators
      <4>2. \/ Cardinality(A) + Cardinality(Passing(t)) <= MaxAlerts - 1 + N
            \/ Cardinality(A) + Cardinality(Underway(t)) <= MaxAlerts + 2 * (N - 1)
        BY DEF CountedAt
      <4> HIDE DEF A, N
      <4>3. QED BY <4>1, <4>2, <1>0
    <3>10. Cardinality(A) + Cardinality(Underway(t)) <= MaxAlerts + 2 * (N - 1)
      <4> HIDE DEF A, N
      <4> QED BY <3>8, <3>9, <1>0
    <3>11. QED BY <2>1, <2>2, <2>3, <3>5, <3>10 DEF CountedAt
  <2>7. QED BY <2>4, <2>5, <2>6
<1>3. ASSUME NEW e \in Evaluator, Suppress(e) \/ Abandon(e) PROVE CountedAt(t)'
  <2>1. /\ pc' = [pc EXCEPT ![e] = "idle"]
        /\ now' = now /\ clock' = clock /\ admitted' = admitted /\ zset' = zset
    BY <1>3 DEF Suppress, Abandon
  <2>2. Passing(t)' \subseteq Passing(t) /\ Underway(t)' \subseteq Underway(t)
    BY <2>1 DEF Passing, Underway
  <2>3. QED BY <2>1, <2>2, FewerUnderway
<1>4. ASSUME NEW e \in Evaluator, Pass(e) PROVE CountedAt(t)'
  <2>1. /\ pc[e] = "count" /\ ~Full /\ pc' = [pc EXCEPT ![e] = "add"]
        /\ now' = now /\ clock' = clock /\ admitted' = admitted /\ zset' = zset
    BY <1>4 DEF Pass
  <2>2. Underway(t)' = Underway(t)
    BY <2>1 DEF Underway
  <2>3. AdmittedInWindow(t)' = A
    BY <2>1 DEF AdmittedInWindow
  <2>4. CASE ~(A \subseteq zset)
    BY <2>1, <2>2, <2>3, <2>4 DEF CountedAt
  <2>5. CASE A \subseteq zset
    <3>1. Cardinality(A) <= Cardinality(zset) /\ Cardinality(zset) \in Nat
      BY <1>0, <2>5, MoreTimes
    <3>2. Cardinality(zset) < MaxAlerts
      BY <2>1, <3>1, <1>0 DEF Full
    <3>3. Cardinality(Passing(t)') <= N /\ Cardinality(Passing(t)') \in Nat
      BY <1>a, Evaluators
    <3>4. Cardinality(A) + Cardinality(Passing(t)') <= MaxAlerts - 1 + N
      <4> HIDE DEF A, N
      <4> QED BY <3>1, <3>2, <3>3, <1>0
    <3>5. QED BY <2>1, <2>3, <2>5, <3>4 DEF CountedAt
  <2>6. QED BY <2>4, <2>5
<1>5. ASSUME NEW e \in Evaluator, Add(e) PROVE CountedAt(t)'
  <2>1. /\ pc[e] = "add" /\ zset' = zset \cup {now[e]} /\ admitted' = admitted \cup {now[e]}
        /\ pc' = [pc EXCEPT ![e] = "idle"] /\ now' = now /\ clock' = clock
    BY <1>5 DEF Add
  <2>2. CASE ~(t - Window < now[e] /\ now[e] <= t)
    <3>1. AdmittedInWindow(t)' = A
      BY <2>1, <2>2 DEF AdmittedInWindow
    <3>2. Passing(t)' = Passing(t) /\ Underway(t)' = Underway(t)
      BY <2>1, <2>2 DEF Passing, Underway
    <3>3. A \subseteq zset => A \subseteq zset'
      BY <2>1
    <3>4. QED BY <2>1, <3>1, <3>2, <3>3 DEF CountedAt
  <2>3. CASE t - Window < now[e] /\ now[e] <= t
    <3>1. AdmittedInWindow(t)' = A \cup {now[e]}
      BY <2>1, <2>3 DEF AdmittedInWindow
    <3>2. /\ e \in Passing(t) /\ e \in Underway(t)
          /\ Passing(t)' = Passing(t) \ {e} /\ Underway(t)' = Underway(t) \ {e}
      BY <2>1, <2>3 DEF Passing, Underway
    <3>3. Cardinality(A \cup {now[e]}) <= Cardinality(A) + 1 /\ Cardinality(A \cup {now[e]}) \in Nat
      <4>1. Cardinality(A \cup {now[e]}) = IF now[e] \in A THEN Cardinality(A) ELSE Cardinality(A) + 1
        BY <1>0, FS_AddElement
      <4> HIDE DEF A
      <4>2. QED BY <4>1, <1>0
    <3>4. /\ Cardinality(Passing(t)') = Cardinality(Passing(t)) - 1
          /\ Cardinality(Underway(t)') = Cardinality(Underway(t)) - 1
          /\ Cardinality(Passing(t)) \in Nat /\ Cardinality(Underway(t)) \in Nat
      BY <3>2, <1>a, Evaluators, FS_RemoveElement
    <3>5. A \subseteq zset => A \cup {now[e]} \subseteq zset'
      BY <2>1
    <3>6. CASE /\ A \subseteq zset
               /\ Cardinality(A) + Cardinality(Passing(t)) <= MaxAlerts - 1 + N
      <4>1. Cardinality(A \cup {now[e]}) + Cardinality(Passing(t)') <= MaxAlerts - 1 + N
        <5> HIDE DEF A, N
        <5> QED BY <3>3, <3>4, <3>6, <1>0
      <4>2. QED BY <3>1, <3>5, <3>6, <4>1 DEF CountedAt
    <3>7. CASE /\ clock > t
               /\ Cardinality(A) + Cardinality(Underway(t)) <= MaxAlerts + 2 * (N - 1)
      <4>1. Cardinality(A \cup {now[e]}) + Cardinality(Underway(t)') <= MaxAlerts + 2 * (N - 1)
        <5> HIDE DEF A, N
        <5> QED BY <3>3, <3>4, <3>7, <1>0
      <4>2. QED BY <2>1, <3>1, <3>7, <4>1 DEF CountedAt
    <3>8. QED BY <3>6, <3>7 DEF CountedAt
  <2>4. QED BY <2>2, <2>3
<1>6. ASSUME Tick PROVE CountedAt(t)'
  <2>1. /\ clock' = clock + 1 /\ pc' = pc /\ now' = now /\ zset' = zset /\ admitted' = admitted
    BY <1>6 DEF Tick, ClockAdvances
  <2>2. Passing(t)' = Passing(t) /\ Underway(t)' = Underway(t)
    BY <2>1 DEF Passing, Underway
  <2>3. QED BY <2>1, <2>2, FewerUnderway
<1>7. ASSUME UNCHANGED vars PROVE CountedAt(t)'
  BY <1>7 DEF vars, CountedAt, AdmittedInWindow, Passing, Underway
<1>8. QED BY <1>1, <1>2, <1>3, <1>4, <1>5, <1>6, <1>7 DEF Next

(* The job uses the throttle as AlertThrottle says: each of its steps is   *)
(* one of the throttle's or leaves it alone.                               *)
LEMMA JobSteps == IInv /\ [JobNext]_allVars => [Next]_vars
<1> SUFFICES ASSUME IInv, [JobNext]_allVars PROVE [Next]_vars OBVIOUS
<1>1. ASSUME NEW e \in Evaluator, Run(e) PROVE [Next]_vars
  <2>1. CASE \E n \in 0 .. MaxFound : StartRun(e, n)
    BY <2>1 DEF StartRun
  <2>2. CASE Ask(e)
    BY <2>2 DEF Ask, Next
  <2>3. CASE Withhold(e) \/ LetThrough(e)
    BY <2>3 DEF Withhold, LetThrough, Next
  <2>4. CASE NothingFound(e) \/ Store(e) \/ Publish(e)
    BY <2>4 DEF NothingFound, Store, Publish
  <2>5. CASE EndRun(e)
    <3>1. /\ pc' = [pc EXCEPT ![e] = "idle"]
          /\ UNCHANGED <<clock, now, zset, admitted, suppressed>>
      BY <2>5 DEF EndRun
    <3>2. CASE pc[e] = "idle"
      BY <3>1, <3>2, Typed DEF vars
    <3>3. CASE pc[e] # "idle"
      BY <3>1, <3>3 DEF Abandon, Next
    <3>4. QED BY <3>2, <3>3
  <2>6. QED BY <1>1, <2>1, <2>2, <2>3, <2>4, <2>5 DEF Run
<1>2. CASE Tick /\ UNCHANGED jobVars
  BY <1>2 DEF Next
<1>3. CASE UNCHANGED allVars
  BY <1>3 DEF allVars
<1>4. QED BY <1>1, <1>2, <1>3 DEF JobNext

(* So all that AlertThrottle promises holds of the job.                    *)
THEOREM JobUsesThrottle == JobSpec => Spec
<1>1. JobInit => Init BY DEF JobInit
<1>2. QED BY <1>1, JobSteps, Invariance, PTL DEF JobSpec, Spec

(* However many evaluators race, with n of them a window holds 2(n - 1)    *)
(* alerts more than the limit at most.                                     *)
THEOREM OvershootIsBounded == JobSpec => []OvershootBounded
<1>1. JobInit => Counted
  <2> SUFFICES ASSUME JobInit, NEW t \in Time PROVE CountedAt(t)
    BY DEF Counted
  <2>1. AdmittedInWindow(t) = {} /\ Passing(t) = {}
    BY DEF JobInit, Init, AdmittedInWindow, Passing, Underway
  <2>2. Cardinality({}) = 0
    BY FS_EmptySet
  <2>3. Cardinality(Evaluator) \in Nat
    BY Evaluators
  <2>4. 0 + 0 <= MaxAlerts - 1 + Cardinality(Evaluator)
    BY <2>3, ThrottleAssumption
  <2>5. QED BY <2>1, <2>2, <2>4 DEF CountedAt
<1>2. IInv /\ Counted => OvershootBounded
  <2> SUFFICES ASSUME IInv, NEW t \in Time, CountedAt(t)
               PROVE  Cardinality(AdmittedInWindow(t))
                         <= MaxAlerts + 2 * (Cardinality(Evaluator) - 1)
    BY DEF Counted, OvershootBounded
  <2>1. AdmittedInWindow(t) \in SUBSET Time
    BY Typed DEF AdmittedInWindow
  <2>2. Cardinality(AdmittedInWindow(t)) \in Nat
    BY <2>1, MoreTimes
  <2>3. Passing(t) \in SUBSET Evaluator /\ Underway(t) \in SUBSET Evaluator
    BY DEF Passing, Underway
  <2>4. /\ Cardinality(Passing(t)) \in Nat /\ Cardinality(Underway(t)) \in Nat
        /\ Cardinality(Evaluator) \in Nat \ {0}
    BY <2>3, Evaluators
  <2>5. QED BY <2>2, <2>4, ThrottleAssumption DEF CountedAt
<1>3. QED BY <1>1, <1>2, CountedStep, JobSteps, Invariance, PTL DEF JobSpec
=============================================================================
