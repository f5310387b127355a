-------------------------- MODULE CriticLoopProofs --------------------------
(* Theorems about CriticLoop, for any targets, any write-once target and   *)
(* any retry budget.                                                       *)
EXTENDS CriticLoop, FiniteSetTheorems, TLAPS

\* The reruns of t that a record s tells of.
RerunIndices(s, t) ==
    {i \in DOMAIN s : s[i].verdict = "iterate" /\ s[i].target = t}

LEMMA RerunIndicesFinite ==
    ASSUME NEW s \in Seq(Attempts), NEW t
    PROVE  /\ IsFiniteSet(RerunIndices(s, t))
           /\ Cardinality(RerunIndices(s, t)) \in Nat
<1>1. DOMAIN s = 1..Len(s) /\ Len(s) \in Nat
  OBVIOUS
<1>2. IsFiniteSet(1..Len(s))
  BY <1>1, FS_Interval
<1>3. RerunIndices(s, t) \in SUBSET (1..Len(s))
  BY <1>1 DEF RerunIndices
<1>4. IsFiniteSet(RerunIndices(s, t))
  BY <1>2, <1>3, FS_Subset
<1>5. QED BY <1>4, FS_CardinalityType

\* An attempt added to the record counts for its target if it is a rerun.
LEMMA AppendCounts ==
    ASSUME NEW s \in Seq(Attempts), NEW a \in Attempts, NEW t
    PROVE  Cardinality(RerunIndices(Append(s, a), t))
             = Cardinality(RerunIndices(s, t))
                 + IF a.verdict = "iterate" /\ a.target = t THEN 1 ELSE 0
<1> DEFINE n == Len(s) + 1
<1>1. /\ DOMAIN s = 1..Len(s)
      /\ DOMAIN Append(s, a) = 1..n
      /\ Len(s) \in Nat
      /\ Append(s, a)[n] = a
      /\ \A i \in 1..Len(s) : Append(s, a)[i] = s[i]
  OBVIOUS
<1>2. n \notin RerunIndices(s, t)
  BY <1>1 DEF RerunIndices
<1>3. IsFiniteSet(RerunIndices(s, t)) /\ Cardinality(RerunIndices(s, t)) \in Nat
  BY RerunIndicesFinite
<1>4. CASE a.verdict = "iterate" /\ a.target = t
  <2>1. RerunIndices(Append(s, a), t) = RerunIndices(s, t) \cup {n}
    BY <1>1, <1>4 DEF RerunIndices
  <2>2. QED BY <2>1, <1>2, <1>3, <1>4, FS_AddElement, ZenonT(40)
<1>5. CASE ~(a.verdict = "iterate" /\ a.target = t)
  <2>1. RerunIndices(Append(s, a), t) = RerunIndices(s, t)
    BY <1>1, <1>5 DEF RerunIndices
  <2>2. QED BY <2>1, <1>3, <1>5
<1>6. QED BY <1>4, <1>5

LEMMA RerunsAsIndices ==
    \A t : Reruns(t) = Cardinality(RerunIndices(attempts, t))
  BY DEF Reruns, RerunIndices

-----------------------------------------------------------------------------
(* The pigeonhole argument of the comment above max_total_cycles           *)

\* There are at most max_retries * |Targets| retries to grant.
LEMMA GrantsAreBounded ==
    ASSUME max_retries \in Int, max_retries >= 0,
           retry_counts \in [Targets -> Nat]
    PROVE  /\ IsFiniteSet(Granted)
           /\ Cardinality(Granted) \in Nat
           /\ Cardinality(Granted) <= Cardinality(Targets) * max_retries
<1>1. IsFiniteSet(Targets) /\ Cardinality(Targets) \in Nat
  BY TargetsAssumption, FS_CardinalityType
<1>2. /\ IsFiniteSet(0..(max_retries - 1))
      /\ Cardinality(0..(max_retries - 1)) = max_retries
  <2>1. max_retries - 1 \in Int
    OBVIOUS
  <2>2. QED BY <2>1, FS_Interval
<1>3. /\ IsFiniteSet(Targets \X (0..(max_retries - 1)))
      /\ Cardinality(Targets \X (0..(max_retries - 1)))
            = Cardinality(Targets) * max_retries
  BY <1>1, <1>2, FS_Product
<1>4. Granted \in SUBSET (Targets \X (0..(max_retries - 1)))
  BY DEF Granted
<1>5. IsFiniteSet(Granted)
      /\ Cardinality(Granted) <= Cardinality(Targets \X (0..(max_retries - 1)))
  BY <1>3, <1>4, FS_Subset
<1>6. QED BY <1>3, <1>5, FS_CardinalityType

\* Granting t its next retry adds one pair.
LEMMA GrantAddsOne ==
    ASSUME TypeOK, NEW t \in Targets, ~BudgetSpent(t), max_retries' = max_retries,
           retry_counts' = [retry_counts EXCEPT ![t] = @ + 1]
    PROVE  Cardinality(Granted') = Cardinality(Granted) + 1
<1>1. max_retries \in Int /\ retry_counts \in [Targets -> Nat]
  BY BudgetsAssumption DEF TypeOK
<1>2. retry_counts[t] \in Nat /\ retry_counts[t] < max_retries
  BY <1>1 DEF BudgetSpent
<1>3. retry_counts[t] \in 0..(max_retries - 1)
  BY <1>1, <1>2
<1>4. <<t, retry_counts[t]>> \notin Granted
  BY <1>2 DEF Granted
<1>5. Granted' = Granted \cup {<<t, retry_counts[t]>>}
  <2>1. ASSUME NEW u \in Targets, NEW k \in 0..(max_retries - 1)
        PROVE  k < retry_counts'[u]
                 <=> k < retry_counts[u] \/ (u = t /\ k = retry_counts[t])
    BY <1>1, <1>2
  <2>2. ASSUME NEW u \in Targets, NEW k \in 0..(max_retries - 1)
        PROVE  <<u, k>> \in Granted'
                 <=> <<u, k>> \in Granted \/ <<u, k>> = <<t, retry_counts[t]>>
    BY <2>1 DEF Granted
  <2>3. Granted' \subseteq Targets \X (0..(max_retries - 1))
    BY DEF Granted
  <2>4. Granted \cup {<<t, retry_counts[t]>>} \subseteq Targets \X (0..(max_retries - 1))
    BY <1>3 DEF Granted
  <2>5. QED BY <2>2, <2>3, <2>4
<1>6. IsFiniteSet(Granted) /\ Cardinality(Granted) \in Nat
  BY <1>1, <1>2, GrantsAreBounded
<1>7. QED BY <1>4, <1>5, <1>6, FS_AddElement

\* The loop is left before its cap.
LEMMA CapIsOutOfReach == TypeOK /\ CyclesAreGranted => CapUnreachable
<1> SUFFICES ASSUME TypeOK, CyclesAreGranted, max_retries >= 0, pc = "review"
             PROVE  cycle < MaxTotalCycles
  BY DEF CapUnreachable
<1>1. max_retries \in Int /\ retry_counts \in [Targets -> Nat] /\ cycle \in Nat
  BY BudgetsAssumption DEF TypeOK
<1>2. cycle <= Cardinality(Targets) * max_retries
  BY <1>1, GrantsAreBounded DEF CyclesAreGranted
<1>3. Cardinality(Targets) \in Nat /\ Cardinality(Targets) >= 1
  <2>1. Cardinality({Fallback}) = 1 /\ {Fallback} \in SUBSET Targets
    BY TargetsAssumption, FS_Singleton
  <2>2. QED BY <2>1, TargetsAssumption, FS_Subset, FS_CardinalityType
<1>4. \A n, m, c \in Nat : n >= 1 /\ c <= n * m => c < (m + 1) * n
  OBVIOUS
<1>5. QED BY <1>1, <1>2, <1>3, <1>4 DEF MaxTotalCycles

-----------------------------------------------------------------------------
(* The inductive invariant                                                 *)

LEMMA ReplyTypes ==
    ASSUME NEW reply \in Replies
    PROVE  Verdict(reply) \in {"pass", "iterate"} /\ Target(reply) \in Targets
  BY TargetsAssumption DEF Replies, Verdict, Target

\* What the record counts is a natural number.
LEMMA RerunsType == TypeOK => \A t : Reruns(t) \in Nat
  BY RerunsAsIndices, RerunIndicesFinite DEF TypeOK

\* The count of reruns after one more attempt.
LEMMA RerunsAfter ==
    ASSUME TypeOK, NEW a \in Attempts, attempts' = Append(attempts, a)
    PROVE  \A t : Reruns(t)' = Reruns(t)
                    + IF a.verdict = "iterate" /\ a.target = t THEN 1 ELSE 0
<1>1. \A t : Reruns(t)' = Cardinality(RerunIndices(attempts', t))
  BY DEF Reruns, RerunIndices
<1>2. \A t : Cardinality(RerunIndices(Append(attempts, a), t))
                = Cardinality(RerunIndices(attempts, t))
                    + IF a.verdict = "iterate" /\ a.target = t THEN 1 ELSE 0
  BY AppendCounts DEF TypeOK
<1>3. QED BY <1>1, <1>2, RerunsAsIndices

LEMMA InitInv == Init => IInv
<1> SUFFICES ASSUME Init PROVE IInv
  OBVIOUS
<1>1. TypeOK
  BY TargetsAssumption DEF Init, TypeOK, Pcs
<1>2. max_retries \in Int
  BY <1>1, BudgetsAssumption DEF TypeOK
<1>3. Granted = {}
  BY <1>2 DEF Granted, Init
<1>4. \A t : Reruns(t) = 0
  <2>1. \A t : RerunIndices(attempts, t) = {}
    BY DEF RerunIndices, Init
  <2>2. QED BY <2>1, RerunsAsIndices, FS_EmptySet
<1>5. CyclesAreGranted
  BY <1>2, <1>3, FS_EmptySet DEF CyclesAreGranted, Init
<1>6. LoopRecordsReruns /\ RecordIsConclusive /\ ReviewedLast
  BY DEF LoopRecordsReruns, RecordIsConclusive, ReviewedLast, Init
<1>7. RerunsAreCounted
  BY <1>4 DEF RerunsAreCounted, Init
<1>8. QED BY <1>1, <1>5, <1>6, <1>7 DEF IInv

\* Every way out of the loop ends the record: a is its only "pass".
LEMMA DecideInv ==
    ASSUME IInv, NEW a \in Attempts, Decide(a),
           pc \in {"review", "retry"}, a.verdict = "pass",
           a.frozen => a.forced /\ a.target = Frozen,
           a.forced /\ ~a.frozen => Reruns(a.target) >= max_retries,
           max_retries >= 0 => reviews' = cycle + 1, reviews' \in Nat,
           UNCHANGED <<max_retries, cycle, retry_counts, blamed>>
    PROVE  IInv'
<1>1. /\ attempts \in Seq(Attempts)
      /\ attempts' = Append(attempts, a)
      /\ pc' = "decided"
      /\ TypeOK
  BY DEF IInv, TypeOK, Decide
<1>2. TypeOK'
  BY <1>1 DEF TypeOK, Pcs
<1>3. /\ DOMAIN attempts = 1..Len(attempts)
      /\ Len(attempts) \in Nat
      /\ Len(attempts') = Len(attempts) + 1
      /\ attempts'[Len(attempts')] = a
      /\ \A i \in 1..Len(attempts) : attempts'[i] = attempts[i]
  BY <1>1
<1>4. \A t : Reruns(t)' = Reruns(t) /\ Reruns(t) \in Nat
  BY <1>1, RerunsAfter, RerunsType
<1>5. CyclesAreGranted'
  BY <1>1 DEF IInv, CyclesAreGranted
<1>6. LoopRecordsReruns' /\ ReviewedLast'
  BY <1>1 DEF LoopRecordsReruns, ReviewedLast
<1>7. RerunsAreCounted'
  <2>1. attempts' # <<>>
    BY <1>3
  <2>2. QED BY <1>1, <1>4, <2>1 DEF IInv, RerunsAreCounted
<1>8. RecordIsConclusive'
  <2>1. \A i \in 1..(Len(attempts') - 1) : attempts'[i].verdict = "iterate"
    BY <1>3 DEF IInv, LoopRecordsReruns
  <2>2. a.forced /\ ~a.frozen => Reruns(a.target)' >= max_retries'
    BY <1>4
  <2>3. QED BY <1>3, <2>1, <2>2 DEF RecordIsConclusive
<1>9. QED BY <1>2, <1>5, <1>6, <1>7, <1>8 DEF IInv

LEMMA StepInv == IInv /\ [Next]_vars => IInv'
<1> SUFFICES ASSUME IInv, [Next]_vars PROVE IInv'
  OBVIOUS
<1>1. /\ max_retries \in Int
      /\ retry_counts \in [Targets -> Nat]
      /\ cycle \in Nat /\ reviews \in Nat
      /\ blamed \in Targets
      /\ TypeOK
      /\ \A t : Reruns(t) \in Nat
  BY BudgetsAssumption, RerunsType DEF IInv, TypeOK
<1>2. ASSUME NEW reply \in Replies, ReviewPasses(reply) PROVE IInv'
  <2> DEFINE a == Attempt("pass", Target(reply), FALSE, FALSE)
  <2>1. a \in Attempts /\ a.verdict = "pass" /\ ~a.frozen /\ ~a.forced
    BY ReplyTypes DEF Attempt, Attempts
  <2>2. reviews' = cycle + 1 /\ pc = "review"
    BY <1>2 DEF ReviewPasses, Reviewed, IInv, LoopRecordsReruns
  <2>3. Decide(a) /\ UNCHANGED <<max_retries, cycle, retry_counts, blamed>>
    BY <1>2 DEF ReviewPasses
  <2> HIDE DEF a
  <2>4. QED BY <1>1, <2>1, <2>2, <2>3, DecideInv
<1>3. ASSUME NEW reply \in Replies, ReviewForced(reply) PROVE IInv'
  <2> DEFINE a == Attempt("pass", Target(reply), TRUE, FALSE)
  <2>1. a \in Attempts /\ a.verdict = "pass" /\ ~a.frozen /\ a.target = Target(reply)
    BY ReplyTypes DEF Attempt, Attempts
  <2>2. reviews' = cycle + 1 /\ pc = "review"
    BY <1>3 DEF ReviewForced, Reviewed, IInv, LoopRecordsReruns
  <2>3. Reruns(a.target) >= max_retries
    BY <1>3, <2>1, <2>2, ReplyTypes DEF ReviewForced, BudgetSpent, IInv, RerunsAreCounted
  <2>4. Decide(a) /\ UNCHANGED <<max_retries, cycle, retry_counts, blamed>>
    BY <1>3 DEF ReviewForced
  <2> HIDE DEF a
  <2>5. QED BY <1>1, <2>1, <2>2, <2>3, <2>4, DecideInv
<1>4. ASSUME NEW reply \in Replies, ReviewIterates(reply) PROVE IInv'
  <2> DEFINE t == Target(reply)
  <2>1. t \in Targets
    BY ReplyTypes
  <2> HIDE DEF t
  <2>2. /\ pc = "review" /\ pc' = "retry" /\ blamed' = t
        /\ reviews' = reviews + 1
        /\ ~BudgetSpent(t)
        /\ retry_counts' = [retry_counts EXCEPT ![t] = @ + 1]
        /\ UNCHANGED <<max_retries, cycle, attempts>>
    BY <1>4 DEF ReviewIterates, Reviewed, t
  <2>3. retry_counts[t] < max_retries
    BY <1>1, <2>1, <2>2 DEF BudgetSpent
  <2>4. /\ retry_counts' \in [Targets -> Nat]
        /\ \A u \in Targets :
              retry_counts'[u] = retry_counts[u] + IF u = t THEN 1 ELSE 0
    BY <1>1, <2>1, <2>2
  <2>5. TypeOK'
    BY <1>1, <2>1, <2>2, <2>4 DEF TypeOK, Pcs
  <2>6. \A u : Reruns(u)' = Reruns(u)
    BY <2>2 DEF Reruns
  <2>7. CyclesAreGranted'
    <3>1. Cardinality(Granted') = Cardinality(Granted) + 1
      BY <1>1, <2>1, <2>2, GrantAddsOne
    <3>2. cycle = Cardinality(Granted)
      BY <2>2 DEF IInv, CyclesAreGranted
    <3>3. \A u \in Targets : retry_counts'[u] <= IF max_retries > 0 THEN max_retries ELSE 0
      BY <1>1, <2>1, <2>3, <2>4 DEF IInv, CyclesAreGranted
    <3>4. QED BY <2>2, <3>1, <3>2, <3>3 DEF CyclesAreGranted
  <2>8. LoopRecordsReruns'
    BY <2>2 DEF IInv, LoopRecordsReruns
  <2>9. RerunsAreCounted'
    BY <1>1, <2>1, <2>2, <2>4, <2>6 DEF IInv, RerunsAreCounted
  <2>10. RecordIsConclusive' /\ ReviewedLast'
    BY <2>2 DEF RecordIsConclusive, ReviewedLast
  <2>11. QED BY <2>5, <2>7, <2>8, <2>9, <2>10 DEF IInv
<1>5. CASE RetrySucceeds
  <2> DEFINE a == Attempt("iterate", blamed, FALSE, FALSE)
  <2>1. a \in Attempts /\ a.verdict = "iterate" /\ a.target = blamed
    BY <1>1 DEF Attempt, Attempts
  <2>2. /\ pc = "retry" /\ pc' = "review" /\ cycle' = cycle + 1
        /\ attempts' = Append(attempts, a)
        /\ UNCHANGED <<max_retries, retry_counts, blamed, reviews>>
    BY <1>5 DEF RetrySucceeds
  <2> HIDE DEF a
  <2>3. attempts \in Seq(Attempts)
    BY DEF IInv, TypeOK
  <2>4. TypeOK'
    BY <1>1, <2>1, <2>2, <2>3 DEF TypeOK, Pcs
  <2>5. \A t : Reruns(t)' = Reruns(t) + IF t = blamed THEN 1 ELSE 0
    BY <1>1, <2>1, <2>2, RerunsAfter
  <2>6. CyclesAreGranted'
    <3>1. Granted' = Granted
      BY <2>2 DEF Granted
    <3>2. QED BY <2>2, <3>1 DEF IInv, CyclesAreGranted
  <2>7. LoopRecordsReruns'
    <3>1. \A i \in DOMAIN attempts' :
             \/ i \in DOMAIN attempts /\ attempts'[i] = attempts[i]
             \/ attempts'[i] = a
      BY <2>1, <2>2, <2>3
    <3>2. QED BY <1>1, <2>1, <2>2, <3>1 DEF IInv, LoopRecordsReruns
  <2>8. RerunsAreCounted'
    BY <1>1, <2>2, <2>5 DEF IInv, RerunsAreCounted
  <2>9. RecordIsConclusive' /\ ReviewedLast'
    BY <2>2 DEF RecordIsConclusive, ReviewedLast
  <2>10. QED BY <2>4, <2>6, <2>7, <2>8, <2>9 DEF IInv
<1>6. CASE RetryFrozen
  <2> DEFINE a == Attempt("pass", blamed, TRUE, TRUE)
  <2>1. a \in Attempts /\ a.verdict = "pass" /\ a.frozen /\ a.forced /\ a.target = blamed
    BY <1>1 DEF Attempt, Attempts
  <2>2. /\ pc = "retry" /\ blamed = Frozen /\ Decide(a)
        /\ UNCHANGED <<max_retries, cycle, retry_counts, blamed, reviews>>
    BY <1>6 DEF RetryFrozen
  <2> HIDE DEF a
  <2>3. reviews' = cycle + 1
    BY <2>2 DEF IInv, LoopRecordsReruns
  <2>4. QED BY <1>1, <2>1, <2>2, <2>3, DecideInv
<1>7. CASE CapReached
  <2> DEFINE a == Attempt("pass", Fallback, TRUE, FALSE)
  <2>1. a \in Attempts /\ a.verdict = "pass" /\ ~a.frozen /\ a.target = Fallback
    BY TargetsAssumption DEF Attempt, Attempts
  <2>2. /\ pc = "review" /\ cycle >= MaxTotalCycles /\ Decide(a)
        /\ UNCHANGED <<max_retries, cycle, retry_counts, blamed, reviews>>
    BY <1>7 DEF CapReached
  <2> HIDE DEF a
  <2>3. MaxTotalCycles \in Int
    BY <1>1, TargetsAssumption, FS_CardinalityType DEF MaxTotalCycles
  <2>4. ~(max_retries >= 0)
    BY <1>1, <2>2, <2>3, CapIsOutOfReach DEF IInv, CapUnreachable
  <2>5. Reruns(a.target) >= max_retries
    BY <1>1, <2>4
  <2>6. QED BY <1>1, <2>1, <2>2, <2>4, <2>5, DecideInv
<1>8. CASE Raises
  <2>1. pc' = "raised" /\ UNCHANGED <<max_retries, cycle, retry_counts, blamed, reviews, attempts>>
    BY <1>8 DEF Raises
  <2>2. Granted' = Granted /\ \A t : Reruns(t)' = Reruns(t)
    BY <2>1 DEF Granted, Reruns
  <2>3. TypeOK'
    BY <2>1 DEF IInv, TypeOK, Pcs
  <2>4. CyclesAreGranted' /\ RerunsAreCounted'
    BY <2>1, <2>2 DEF IInv, CyclesAreGranted, RerunsAreCounted
  <2>5. LoopRecordsReruns' /\ RecordIsConclusive' /\ ReviewedLast'
    BY <2>1 DEF LoopRecordsReruns, RecordIsConclusive, ReviewedLast
  <2>6. QED BY <2>3, <2>4, <2>5 DEF IInv
<1>9. CASE WriteRecord
  <2>1. /\ pc = "decided" /\ pc' = "recorded"
        /\ UNCHANGED <<max_retries, cycle, retry_counts, blamed, reviews, attempts>>
    BY <1>9 DEF WriteRecord
  <2>2. Granted' = Granted /\ \A t : Reruns(t)' = Reruns(t)
    BY <2>1 DEF Granted, Reruns
  <2>3. TypeOK'
    BY <2>1 DEF IInv, TypeOK, Pcs
  <2>4. CyclesAreGranted' /\ RerunsAreCounted'
    BY <2>1, <2>2 DEF IInv, CyclesAreGranted, RerunsAreCounted
  <2>5. LoopRecordsReruns' /\ RecordIsConclusive' /\ ReviewedLast'
    BY <2>1, <2>2 DEF IInv, LoopRecordsReruns, RecordIsConclusive, ReviewedLast
  <2>6. QED BY <2>3, <2>4, <2>5 DEF IInv
<1>10. CASE UNCHANGED vars
  BY <1>10 DEF vars, IInv, TypeOK, CyclesAreGranted, Granted, LoopRecordsReruns,
               RerunsAreCounted, Reruns, RecordIsConclusive, ReviewedLast
<1>11. QED
  BY <1>2, <1>3, <1>4, <1>5, <1>6, <1>7, <1>8, <1>9, <1>10 DEF Next, Review

-----------------------------------------------------------------------------
(* The theorems                                                            *)

LEMMA Inductive == Spec => []IInv
  BY InitInv, StepInv, PTL DEF Spec

\* Type correctness of a critic call, for every budget the YAML may hold.
THEOREM TypeCorrect == Spec => []TypeOK
  BY Inductive, PTL DEF IInv

\* No target runs again more often than max_retries allows, and the record
\* counts every rerun.  The comment above max_total_cycles is right: the cap
\* never cuts a call short.
THEOREM BudgetsHold == Spec => []BudgetsEndCalls
<1>1. IInv => BudgetRespected
  <2> SUFFICES ASSUME IInv, NEW t \in Targets
               PROVE  /\ Reruns(t) <= IF max_retries > 0 THEN max_retries ELSE 0
                      /\ pc = "review" => Reruns(t) = retry_counts[t]
    BY DEF BudgetRespected
  <2>1. max_retries \in Int /\ retry_counts[t] \in Nat /\ Reruns(t) \in Nat
    BY BudgetsAssumption, RerunsType DEF IInv, TypeOK
  <2>2. QED BY <2>1 DEF IInv, CyclesAreGranted, RerunsAreCounted
<1>2. IInv => CapUnreachable
  BY CapIsOutOfReach DEF IInv
<1>3. IInv => BudgetsEndCalls
  BY <1>1, <1>2 DEF BudgetsEndCalls
<1>4. QED BY <1>3, Inductive, PTL

\* The record of a finished call ends in its only "pass" and says why, and the
\* last thing the call did was to review the last rerun.
THEOREM CallConcludes == Spec => []CallIsConclusive
<1>1. IInv => CallIsConclusive
  BY DEF IInv, CallIsConclusive
<1>2. QED BY <1>1, Inductive, PTL
=============================================================================
