---------------------------- MODULE RecordsProofs ----------------------------
(***************************************************************************)
(* Theorems about Records.  No action changes both the queue and the plan, *)
(* so each half has an inductive invariant of its own.                     *)
(***************************************************************************)
EXTENDS Records, FiniteSetTheorems, TLAPS

-----------------------------------------------------------------------------
(* The queue.                                                               *)

(* An execution of the background worker holds a row that has not settled, at
   most once, and such a row has attempts left. *)
RowOK(job) ==
  /\ job.held \in {0, 1}
  /\ job.held = 1 => backend = "memory"
  /\ job.status \in Terminal => job.held = 0
  /\ job.status \notin Terminal => job.attempts < MaxAttempts

(* Rows that stand for a key and callers about to insert one were once all
   callers about to insert: the look finds no row. *)
CrowdOK ==
  \A k \in Keys : Cardinality(LiveRows(k)) + Cardinality(Callers(k)) <= crowd[k]

QInv ==
  /\ QueueingOK
  /\ Len(jobs) <= MaxJobs
  /\ \A i \in Rows : RowOK(jobs[i])
  /\ backend = "memory" => \A c \in Clients : looked[c] = "none"
  /\ CrowdOK

(* Max, of the community modules, is the greater of two numbers. *)
LEMMA MaxOfTwo ==
  ASSUME NEW a \in Nat, NEW b \in Nat
  PROVE  Max({a, b}) \in Nat /\ Max({a, b}) >= a /\ Max({a, b}) >= b
  BY DEF Max

LEMMA SetsFinite ==
  ASSUME QueueingOK, NEW k \in Keys
  PROVE  /\ IsFiniteSet(LiveRows(k)) /\ IsFiniteSet(Callers(k))
         /\ Cardinality(LiveRows(k)) \in Nat /\ Cardinality(Callers(k)) \in Nat
  <1>1. LiveRows(k) \subseteq 1..Len(jobs) /\ Len(jobs) \in Nat
    BY DEF QueueingOK, LiveRows, Rows
  <1>2. Callers(k) \subseteq Clients /\ IsFiniteSet(Clients)
    BY RecordsAssumption DEF Callers
  <1>3. IsFiniteSet(1..Len(jobs))
    BY <1>1, FS_Interval
  <1>4. IsFiniteSet(LiveRows(k)) /\ IsFiniteSet(Callers(k))
    BY <1>1, <1>2, <1>3, FS_Subset
  <1> QED BY <1>4, FS_CardinalityType

(* A step after which every row is where it was, of the same key, and has not
   come back from a terminal status. *)
OnlySettles ==
  /\ DOMAIN jobs' = DOMAIN jobs
  /\ \A i \in Rows : jobs'[i].key = jobs[i].key
  /\ \A i \in Rows : jobs[i].status \in Terminal => jobs'[i].status = jobs[i].status

(* ... keeps the crowd large enough. *)
LEMMA SettlingKeepsCrowd ==
  ASSUME QInv, QueueingOK', OnlySettles, UNCHANGED <<looked, crowd>>
  PROVE  CrowdOK'
  <1> SUFFICES ASSUME NEW k \in Keys
               PROVE  Cardinality(LiveRows(k)') + Cardinality(Callers(k)') <= crowd'[k]
    BY DEF CrowdOK
  <1>1. LiveRows(k)' \subseteq LiveRows(k) /\ Callers(k)' = Callers(k)
    BY DEF OnlySettles, LiveRows, Callers, Rows
  <1>2. Cardinality(LiveRows(k)') <= Cardinality(LiveRows(k)) /\ Cardinality(LiveRows(k)') \in Nat
    BY <1>1, SetsFinite, FS_Subset, FS_CardinalityType DEF QInv
  <1> QED BY <1>1, <1>2, SetsFinite DEF QInv, CrowdOK, QueueingOK

(* A new row comes behind the rows there are, and is in order. *)
LEMMA RowAppended ==
  ASSUME QueueingOK, NEW k \in Keys, jobs' = Append(jobs, Row(k))
  PROVE  /\ jobs' \in Seq(Job)
         /\ Len(jobs) \in Nat /\ Len(jobs') = Len(jobs) + 1
         /\ DOMAIN jobs' = DOMAIN jobs \cup {Len(jobs) + 1}
         /\ Len(jobs) + 1 \notin DOMAIN jobs
         /\ \A i \in DOMAIN jobs : jobs'[i] = jobs[i]
         /\ \A i \in DOMAIN jobs' \ DOMAIN jobs : jobs'[i] = Row(k)
  <1>1. Row(k) \in Job
    BY RecordsAssumption DEF Row, Job, Terminal
  <1>2. jobs \in Seq(Job)
    BY DEF QueueingOK
  <1>3. jobs' \in Seq(Job) /\ Len(jobs) \in Nat /\ Len(jobs') = Len(jobs) + 1
    BY <1>1, <1>2
  <1>4. DOMAIN jobs' = 1..Len(jobs) + 1 /\ DOMAIN jobs = 1..Len(jobs)
    BY <1>2, <1>3
  <1>5. \A i \in 1..Len(jobs) : jobs'[i] = jobs[i]
    BY <1>1, <1>2
  <1>6. \A i \in 1..Len(jobs) + 1 : i \notin 1..Len(jobs) => jobs'[i] = Row(k)
    BY <1>1, <1>2
  <1> QED BY <1>3, <1>4, <1>5, <1>6

LEMMA NewRowOK ==
  ASSUME NEW k \in Keys
  PROVE  Row(k).held = 0 /\ RowOK(Row(k)) /\ RowOK(Row(k))'
         /\ Row(k).key = k /\ Row(k).status \notin Terminal
  <1>1. Row(k).held = 0 /\ Row(k).attempts = 0 /\ Row(k).status \notin Terminal /\ Row(k).key = k
    BY DEF Row, Terminal
  <1>2. 0 < MaxAttempts
    BY RecordsAssumption
  <1> QED BY <1>1, <1>2 DEF RowOK

(* Actions of the queue preserve its invariant. *)
LEMMA EnqueuePreserves ==
  ASSUME QInv, NEW k \in Keys, EnqueueAtOnce(k)
  PROVE  QInv'
  <1>1. QueueingOK /\ jobs' = Append(jobs, Row(k))
    BY DEF QInv, EnqueueAtOnce
  <1>2. /\ jobs' \in Seq(Job)
        /\ Len(jobs) \in Nat /\ Len(jobs') = Len(jobs) + 1
        /\ DOMAIN jobs' = DOMAIN jobs \cup {Len(jobs) + 1}
        /\ Len(jobs) + 1 \notin DOMAIN jobs
        /\ \A i \in DOMAIN jobs : jobs'[i] = jobs[i]
        /\ \A i \in DOMAIN jobs' \ DOMAIN jobs : jobs'[i] = Row(k)
    BY <1>1, RowAppended
  <1>3. crowd[k] \in Nat /\ Max({crowd[k], 1}) \in Nat
        /\ Max({crowd[k], 1}) >= 1
    BY MaxOfTwo DEF QInv, QueueingOK
  <1>4. QueueingOK'
    BY <1>2, <1>3 DEF QInv, QueueingOK, EnqueueAtOnce
  <1>5. Len(jobs') <= MaxJobs
    BY <1>2, <1>1, RecordsAssumption DEF QInv, EnqueueAtOnce
  <1>6. ASSUME NEW i \in Rows' PROVE RowOK(jobs[i])'
    <2>1. CASE i \in Rows
      BY <2>1, <1>2 DEF QInv, RowOK, Rows, EnqueueAtOnce
    <2>2. CASE i \notin Rows
      BY <2>2, <1>1, <1>2, <1>6, NewRowOK DEF Rows, RowOK
    <2> QED BY <2>1, <2>2
  <1>7. backend' = "memory" => \A c \in Clients : looked'[c] = "none"
    BY DEF QInv, EnqueueAtOnce
  <1>8. ASSUME NEW n \in Keys
        PROVE  Cardinality(LiveRows(n)') + Cardinality(Callers(n)') <= crowd'[n]
    <2>1. Callers(n)' = {} /\ Cardinality({}) = 0
      BY RecordsAssumption, FS_EmptySet DEF QInv, EnqueueAtOnce, Callers
    <2>2. CASE n # k
      <3>1. LiveRows(n)' = LiveRows(n) /\ Callers(n)' = Callers(n) /\ crowd'[n] = crowd[n]
        BY <1>2, <2>2 DEF QInv, EnqueueAtOnce, LiveRows, Rows, Row, Callers, QueueingOK
      <3> QED BY <3>1, <1>8 DEF QInv, CrowdOK
    <2>3. CASE n = k
      <3>1. LiveRows(n)' = {Len(jobs) + 1}
        BY <1>2, <2>3 DEF EnqueueAtOnce, Standing, LiveRows, Rows, Row, Terminal
      <3>2. Cardinality({Len(jobs) + 1}) = 1
        BY FS_Singleton
      <3> QED BY <3>1, <3>2, <2>1, <2>3, <1>3 DEF EnqueueAtOnce, QInv, QueueingOK
    <2> QED BY <2>2, <2>3
  <1> QED BY <1>4, <1>5, <1>6, <1>7, <1>8 DEF QInv, CrowdOK

LEMMA LookPreserves ==
  ASSUME QInv, NEW c \in Clients, NEW k \in Keys, Look(c, k)
  PROVE  QInv'
  <1>1. /\ Cardinality(LiveRows(k)) = 0
        /\ IsFiniteSet(Callers(k)) /\ Cardinality(Callers(k)) \in Nat
        /\ crowd[k] \in Nat
    BY SetsFinite, FS_EmptySet DEF QInv, QueueingOK, Look, Standing
  <1>2. Callers(k)' = Callers(k) \cup {c} /\ c \notin Callers(k)
    BY RecordsAssumption DEF Callers, Look, QInv, QueueingOK
  <1>3. Cardinality(Callers(k)') = Cardinality(Callers(k)) + 1
    BY <1>1, <1>2, FS_AddElement
  <1>4. QueueingOK'
    <2>1. Max({crowd[k], Cardinality(Callers(k)) + 1}) \in Nat
      BY <1>1, MaxOfTwo
    <2> QED BY <2>1 DEF QInv, QueueingOK, Look
  <1>5. ASSUME NEW n \in Keys
        PROVE  Cardinality(LiveRows(n)') + Cardinality(Callers(n)') <= crowd'[n]
    <2>1. LiveRows(n)' = LiveRows(n)
      BY DEF LiveRows, Rows, Look
    <2>2. CASE n # k
      <3>1. Callers(n)' = Callers(n) /\ crowd'[n] = crowd[n]
        BY <2>2, RecordsAssumption DEF Callers, Look, QInv, QueueingOK
      <3> QED BY <2>1, <3>1 DEF QInv, CrowdOK
    <2>3. CASE n = k
      <3>1. crowd'[k] = Max({crowd[k], Cardinality(Callers(k)) + 1})
        BY DEF Look, QInv, QueueingOK
      <3>2. crowd'[k] >= Cardinality(Callers(k)) + 1
        BY <3>1, <1>1, MaxOfTwo
      <3> QED BY <1>1, <1>3, <2>1, <2>3, <3>2, SetsFinite, <1>4 DEF QInv, QueueingOK
    <2> QED BY <2>2, <2>3
  <1> QED BY <1>4, <1>5 DEF QInv, CrowdOK, Look, RowOK, Rows

LEMMA InsertPreserves ==
  ASSUME QInv, NEW c \in Clients, Insert(c)
  PROVE  QInv'
  <1> DEFINE k == looked[c]
  <1>1. QueueingOK /\ k \in Keys /\ jobs' = Append(jobs, Row(k))
    BY DEF QInv, QueueingOK, Insert
  <1>2. /\ jobs' \in Seq(Job)
        /\ Len(jobs) \in Nat /\ Len(jobs') = Len(jobs) + 1
        /\ DOMAIN jobs' = DOMAIN jobs \cup {Len(jobs) + 1}
        /\ Len(jobs) + 1 \notin DOMAIN jobs
        /\ \A i \in DOMAIN jobs : jobs'[i] = jobs[i]
        /\ \A i \in DOMAIN jobs' \ DOMAIN jobs : jobs'[i] = Row(k)
    BY <1>1, RowAppended
  <1>3. backend = "postgres"
    BY DEF QInv, QueueingOK, Insert
  <1>4. QueueingOK'
    BY <1>2 DEF QInv, QueueingOK, Insert
  <1>5. Len(jobs') <= MaxJobs
    BY <1>2, <1>1, RecordsAssumption DEF QInv, Insert
  <1>6. ASSUME NEW i \in Rows' PROVE RowOK(jobs[i])'
    <2>1. CASE i \in Rows
      BY <2>1, <1>2 DEF QInv, RowOK, Rows, Insert
    <2>2. CASE i \notin Rows
      BY <2>2, <1>1, <1>2, <1>6, NewRowOK DEF Rows, RowOK
    <2> QED BY <2>1, <2>2
  <1>7. ASSUME NEW n \in Keys
        PROVE  Cardinality(LiveRows(n)') + Cardinality(Callers(n)') <= crowd'[n]
    <2>1. crowd'[n] = crowd[n]
          /\ Cardinality(LiveRows(n)) + Cardinality(Callers(n)) <= crowd[n]
      BY <1>7 DEF Insert, QInv, CrowdOK
    <2>2. CASE n # k
      <3>1. LiveRows(n)' = LiveRows(n)
        BY <1>1, <1>2, <2>2, NewRowOK DEF LiveRows, Rows
      <3>2. Callers(n)' = Callers(n)
        BY <2>2, RecordsAssumption DEF Insert, Callers, QInv, QueueingOK
      <3> QED BY <3>1, <3>2, <2>1
    <2>3. CASE n = k
      <3>1. LiveRows(n)' = LiveRows(n) \cup {Len(jobs) + 1} /\ Len(jobs) + 1 \notin LiveRows(n)
        BY <1>1, <1>2, <2>3, NewRowOK DEF LiveRows, Rows
      <3>2. Callers(n)' = Callers(n) \ {c} /\ c \in Callers(n)
        BY <2>3, RecordsAssumption DEF Insert, Callers, QInv, QueueingOK
      <3>3. Cardinality(LiveRows(n)') = Cardinality(LiveRows(n)) + 1
        BY <3>1, SetsFinite, FS_AddElement DEF QInv
      <3>4. Cardinality(Callers(n)') = Cardinality(Callers(n)) - 1
        BY <3>2, SetsFinite, FS_RemoveElement DEF QInv
      <3> QED BY <3>3, <3>4, <2>1, SetsFinite DEF QInv
    <2> QED BY <2>2, <2>3
  <1> QED BY <1>3, <1>4, <1>5, <1>6, <1>7 DEF QInv, CrowdOK, Insert

(* What the other actions of the queue have in common. *)
LEMMA SettlingPreserves ==
  ASSUME QInv, OnlySettles, jobs' \in Seq(Job), UNCHANGED <<backend, looked, crowd>>,
         \A i \in Rows : RowOK(jobs'[i])
  PROVE  QInv'
  <1>1. QueueingOK'
    BY DEF QInv, QueueingOK
  <1>2. Len(jobs') = Len(jobs)
    BY DEF OnlySettles, QInv, QueueingOK
  <1>3. CrowdOK'
    BY <1>1, SettlingKeepsCrowd
  <1> QED BY <1>1, <1>2, <1>3 DEF QInv, OnlySettles, Rows, RowOK

(* A step that changes one row, which has not settled, and keeps its key. *)
LEMMA OneRowPreserves ==
  ASSUME QInv, NEW i \in Rows, NEW r \in Job, jobs' = [jobs EXCEPT ![i] = r],
         r.key = jobs[i].key, jobs[i].status \notin Terminal, RowOK(r),
         UNCHANGED <<backend, looked, crowd>>
  PROVE  QInv' /\ OnlySettles
  <1>1. jobs \in Seq(Job) /\ i \in 1..Len(jobs) /\ DOMAIN jobs = 1..Len(jobs)
    BY DEF QInv, QueueingOK, Rows
  <1>2. jobs' \in Seq(Job) /\ DOMAIN jobs' = DOMAIN jobs
    BY <1>1
  <1>3. \A n \in Rows : jobs'[n] = IF n = i THEN r ELSE jobs[n]
    BY <1>1 DEF Rows
  <1>4. OnlySettles
    BY <1>2, <1>3 DEF OnlySettles
  <1>5. \A n \in Rows : RowOK(jobs'[n])
    BY <1>3 DEF QInv
  <1> QED BY <1>2, <1>4, <1>5, SettlingPreserves

LEMMA RowIsJob == ASSUME QInv, NEW i \in Rows PROVE jobs[i] \in Job /\ RowOK(jobs[i])
  BY DEF QInv, QueueingOK, Rows

LEMMA ProgressPreserves ==
  ASSUME QInv, NEW i \in Rows, Progress(i)
  PROVE  QInv' /\ OnlySettles
  <1>1. PICK s \in {"leased"} \cup Terminal : jobs' = [jobs EXCEPT ![i].status = s]
    BY DEF Progress
  <1> DEFINE r == [jobs[i] EXCEPT !.status = s]
  <1>2. jobs[i] \in Job /\ RowOK(jobs[i])
    BY RowIsJob
  <1>3. r \in Job /\ r.key = jobs[i].key /\ r.held = jobs[i].held
        /\ r.attempts = jobs[i].attempts
    BY <1>2 DEF Job, Terminal
  <1>4. RowOK(r)
    BY <1>2, <1>3 DEF RowOK, Progress
  <1>5. jobs' = [jobs EXCEPT ![i] = r]
    BY <1>1
  <1> HIDE DEF r
  <1> QED BY <1>3, <1>4, <1>5, OneRowPreserves DEF Progress

LEMMA FinishPreserves ==
  ASSUME QInv, NEW i \in Rows, Finish(i)
  PROVE  QInv' /\ OnlySettles
  <1> DEFINE r == [jobs[i] EXCEPT !.status = "completed", !.held = @ - 1, !.lapsed = FALSE]
  <1>1. jobs[i] \in Job /\ RowOK(jobs[i]) /\ jobs[i].held > 0
    BY RowIsJob DEF Finish
  <1>2. jobs[i].held = 1 /\ jobs[i].status \notin Terminal
    BY <1>1 DEF RowOK, Job
  <1>3. r \in Job /\ r.key = jobs[i].key /\ r.held = 0 /\ r.status = "completed"
    <2>1. r = [jobs[i] EXCEPT !.status = "completed", !.held = 0, !.lapsed = FALSE]
      BY <1>2
    <2> HIDE DEF r
    <2> QED BY <1>1, <2>1 DEF Job, Terminal
  <1>4. RowOK(r)
    BY <1>3 DEF RowOK, Terminal
  <1>5. jobs' = [jobs EXCEPT ![i] = r]
    BY DEF Finish
  <1> HIDE DEF r
  <1> QED BY <1>2, <1>3, <1>4, <1>5, OneRowPreserves DEF Finish

LEMMA FailPreserves ==
  ASSUME QInv, NEW i \in Rows, Fail(i)
  PROVE  QInv' /\ OnlySettles
  <1> DEFINE n == Counted(jobs[i].attempts)
             r == [jobs[i] EXCEPT !.status = IF HasAttempt(n) THEN "queued" ELSE "dead_letter",
                                  !.attempts = n, !.held = @ - 1, !.lapsed = FALSE]
  <1>1. jobs[i] \in Job /\ RowOK(jobs[i]) /\ jobs[i].held > 0
    BY RowIsJob DEF Fail
  <1>2. jobs[i].held = 1 /\ jobs[i].status \notin Terminal /\ jobs[i].attempts < MaxAttempts
    BY <1>1 DEF RowOK, Job
  <1>3. MaxAttempts \in Nat /\ n \in 0..MaxAttempts /\ (HasAttempt(n) => n < MaxAttempts)
    BY <1>1, <1>2, RecordsAssumption DEF Counted, HasAttempt, Job
  <1>4. r \in Job /\ r.key = jobs[i].key /\ r.held = 0 /\ r.attempts = n
        /\ r.status = IF HasAttempt(n) THEN "queued" ELSE "dead_letter"
    <2>1. r = [jobs[i] EXCEPT !.status = IF HasAttempt(n) THEN "queued" ELSE "dead_letter",
                              !.attempts = n, !.held = 0, !.lapsed = FALSE]
      BY <1>2
    <2> HIDE DEF r, n
    <2> QED BY <1>1, <1>3, <2>1 DEF Job, Terminal
  <1>5. RowOK(r)
    BY <1>3, <1>4 DEF RowOK, Terminal
  <1>6. jobs' = [jobs EXCEPT ![i] = r]
    BY DEF Fail
  <1> HIDE DEF r
  <1> QED BY <1>2, <1>4, <1>5, <1>6, OneRowPreserves DEF Fail

LEMMA LapsePreserves ==
  ASSUME QInv, NEW i \in Rows, Lapse(i)
  PROVE  QInv' /\ OnlySettles
  <1> DEFINE r == [jobs[i] EXCEPT !.lapsed = ~@]
  <1>1. jobs[i] \in Job /\ RowOK(jobs[i]) /\ jobs[i].status = "leased"
    BY RowIsJob DEF Lapse
  <1>2. r \in Job
    BY <1>1 DEF Job
  <1>3. r.key = jobs[i].key /\ r.held = jobs[i].held /\ r.status = jobs[i].status
        /\ r.attempts = jobs[i].attempts
    BY <1>1 DEF Job
  <1>4. RowOK(r) /\ jobs[i].status \notin Terminal
    BY <1>1, <1>3 DEF RowOK, Terminal
  <1>5. jobs' = [jobs EXCEPT ![i] = r]
    BY DEF Lapse
  <1> HIDE DEF r
  <1> QED BY <1>2, <1>3, <1>4, <1>5, OneRowPreserves DEF Lapse

(* Claim and RecoverAll change any number of rows. *)
LEMMA ClaimPreserves == ASSUME QInv, Claim PROVE QInv' /\ OnlySettles
  <1> DEFINE r(i) == IF i \in Claims
               THEN [jobs[i] EXCEPT !.status = "leased", !.held = @ + 1] ELSE jobs[i]
  <1>1. jobs' = [i \in Rows |-> r(i)]
    BY DEF Claim
  <1>2. ASSUME NEW i \in Rows
        PROVE  /\ r(i) \in Job /\ RowOK(r(i)) /\ r(i).key = jobs[i].key
               /\ jobs[i].status \in Terminal => r(i).status = jobs[i].status
    <2>1. jobs[i] \in Job /\ RowOK(jobs[i]) /\ jobs[i].held = 0
      BY RowIsJob DEF Claim, BatchEnded
    <2>2. CASE i \notin Claims
      BY <2>1, <2>2
    <2>3. CASE i \in Claims
      <3>1. jobs[i].status = "queued" /\ jobs[i].attempts < MaxAttempts
        BY <2>1, <2>3 DEF Claims, Waiting, RowOK, Terminal
      <3>2. r(i) \in Job /\ r(i).key = jobs[i].key /\ r(i).held = 1 /\ r(i).status = "leased"
            /\ r(i).attempts = jobs[i].attempts
        <4>1. jobs[i].held + 1 = 1 /\ 1 \in Nat
          BY <2>1
        <4>2. r(i) = [jobs[i] EXCEPT !.status = "leased", !.held = 1]
          BY <2>3, <4>1
        <4> HIDE DEF r
        <4> QED BY <2>1, <4>1, <4>2 DEF Job
      <3>3. RowOK(r(i))
        BY <3>1, <3>2 DEF RowOK, Terminal, Claim
      <3> QED BY <3>1, <3>2, <3>3 DEF Terminal
    <2> QED BY <2>2, <2>3
  <1> HIDE DEF r
  <1>3. OnlySettles /\ \A i \in Rows : RowOK(jobs'[i])
    BY <1>1, <1>2 DEF OnlySettles, Rows
  <1>4. jobs' \in Seq(Job)
    <2>1. Len(jobs) \in Nat /\ Rows = 1..Len(jobs)
      BY DEF QInv, QueueingOK, Rows
    <2> QED BY <1>1, <1>2, <2>1
  <1> QED BY <1>3, <1>4, SettlingPreserves DEF Claim

LEMMA RecoverAllPreserves == ASSUME QInv, RecoverAll PROVE QInv' /\ OnlySettles
  <1> DEFINE r(i) == IF jobs[i].lapsed /\ jobs[i].status = "leased"
               THEN [jobs[i] EXCEPT !.status = "queued", !.lapsed = FALSE] ELSE jobs[i]
  <1>1. jobs' = [i \in Rows |-> r(i)]
    BY DEF RecoverAll
  <1>2. ASSUME NEW i \in Rows
        PROVE  /\ r(i) \in Job /\ RowOK(r(i)) /\ r(i).key = jobs[i].key
               /\ jobs[i].status \in Terminal => r(i).status = jobs[i].status
    <2>1. jobs[i] \in Job /\ RowOK(jobs[i])
      BY RowIsJob
    <2>2. CASE ~(jobs[i].lapsed /\ jobs[i].status = "leased")
      BY <2>1, <2>2
    <2>3. CASE jobs[i].lapsed /\ jobs[i].status = "leased"
      <3>1. r(i) \in Job /\ r(i).key = jobs[i].key /\ r(i).held = jobs[i].held
            /\ r(i).status = "queued" /\ r(i).attempts = jobs[i].attempts
        BY <2>1, <2>3 DEF Job
      <3>2. RowOK(r(i)) /\ jobs[i].status \notin Terminal
        BY <2>1, <2>3, <3>1 DEF RowOK, Terminal
      <3> QED BY <3>1, <3>2
    <2> QED BY <2>2, <2>3
  <1> HIDE DEF r
  <1>3. OnlySettles /\ \A i \in Rows : RowOK(jobs'[i])
    BY <1>1, <1>2 DEF OnlySettles, Rows
  <1>4. jobs' \in Seq(Job)
    <2>1. Len(jobs) \in Nat /\ Rows = 1..Len(jobs)
      BY DEF QInv, QueueingOK, Rows
    <2> QED BY <1>1, <1>2, <2>1
  <1> QED BY <1>3, <1>4, SettlingPreserves DEF RecoverAll

KeepsSettled == \A i \in Rows : jobs[i].status \in Terminal => jobs'[i].status = jobs[i].status

LEMMA QueueUnchanged == ASSUME QInv, UNCHANGED <<backend, queueing>> PROVE QInv' /\ KeepsSettled
  <1>1. UNCHANGED <<backend, jobs, looked, crowd>>
    BY DEF queueing
  <1>2. OnlySettles /\ jobs' \in Seq(Job) /\ \A i \in Rows : RowOK(jobs'[i])
    BY <1>1 DEF OnlySettles, QInv, QueueingOK, Rows
  <1> QED BY <1>1, <1>2, SettlingPreserves DEF OnlySettles, KeepsSettled

LEMMA QueueStep == ASSUME QInv, [Next]_vars PROVE QInv' /\ KeepsSettled
  <1>1. ASSUME NEW k \in Keys, EnqueueAtOnce(k) PROVE QInv' /\ KeepsSettled
    <2>1. QueueingOK /\ jobs' = Append(jobs, Row(k))
      BY <1>1 DEF EnqueueAtOnce, QInv
    <2> QED BY <1>1, <2>1, EnqueuePreserves, RowAppended DEF KeepsSettled, Rows
  <1>2. ASSUME NEW c \in Clients, NEW k \in Keys, Look(c, k) PROVE QInv' /\ KeepsSettled
    BY <1>2, LookPreserves DEF Look, KeepsSettled
  <1>3. ASSUME NEW c \in Clients, Insert(c) PROVE QInv' /\ KeepsSettled
    <2>1. QueueingOK /\ looked[c] \in Keys /\ jobs' = Append(jobs, Row(looked[c]))
      BY <1>3 DEF Insert, QInv, QueueingOK
    <2> QED BY <1>3, <2>1, InsertPreserves, RowAppended DEF KeepsSettled, Rows
  <1>4. ASSUME NEW i \in Rows, Progress(i) \/ Finish(i) \/ Fail(i) \/ Lapse(i)
        PROVE  QInv' /\ KeepsSettled
    BY <1>4, ProgressPreserves, FinishPreserves, FailPreserves, LapsePreserves
       DEF OnlySettles, KeepsSettled
  <1>5. CASE Claim \/ RecoverAll
    BY <1>5, ClaimPreserves, RecoverAllPreserves DEF OnlySettles, KeepsSettled
  <1>6. ASSUME NEW a \in Planners, UpsertWave(a) \/ UpsertWorkPackage(a) \/ PlannerFails(a)
        PROVE  QInv' /\ KeepsSettled
    BY <1>6, QueueUnchanged DEF UpsertWave, UpsertWorkPackage, PlannerFails
  <1>7. CASE UNCHANGED vars
    BY <1>7, QueueUnchanged DEF vars, queueing
  <1> QED BY <1>1, <1>2, <1>3, <1>4, <1>5, <1>6, <1>7 DEF Next

LEMMA QInvHolds == Spec => []QInv
  <1>1. Init => QInv
    <2> SUFFICES ASSUME Init PROVE QInv
      OBVIOUS
    <2>1. QueueingOK /\ Len(jobs) <= MaxJobs /\ Rows = {}
      BY RecordsAssumption DEF Init, QueueingOK, Rows
    <2>2. \A k \in Keys : LiveRows(k) = {} /\ Callers(k) = {} /\ crowd[k] = 0
      BY <2>1, RecordsAssumption DEF Init, LiveRows, Callers
    <2>3. CrowdOK
      <3> SUFFICES ASSUME NEW k \in Keys
                   PROVE  Cardinality(LiveRows(k)) + Cardinality(Callers(k)) <= crowd[k]
        BY DEF CrowdOK
      <3>1. Cardinality(LiveRows(k)) = 0 /\ Cardinality(Callers(k)) = 0 /\ crowd[k] = 0
        BY <2>2, FS_EmptySet
      <3> QED BY <3>1
    <2> QED BY <2>1, <2>3 DEF QInv, Init
  <1>2. QInv /\ [Next]_vars => QInv'
    BY QueueStep
  <1> QED BY <1>1, <1>2, PTL DEF Spec

(* Rows of one resume key that have not settled need as many callers of
   enqueue_job that all looked before one of them inserted; see the property
   (enqueue_job of both stores). *)
THEOREM DuplicatesNeedOverlap == Spec => []DuplicateRowsNeedOverlap
  <1>1. QInv => DuplicateRowsNeedOverlap
    <2> SUFFICES ASSUME QInv, NEW k \in Keys PROVE Cardinality(LiveRows(k)) <= crowd[k]
      BY DEF DuplicateRowsNeedOverlap
    <2> QED BY SetsFinite DEF QInv, CrowdOK, QueueingOK
  <1> QED BY <1>1, QInvHolds, PTL

(* In memory a resume key never has two rows that have not settled
   (enqueue_job of InMemoryStore holds the store's lock). *)
THEOREM OneRowInMemory ==
  Spec => [](backend = "memory" => \A k \in Keys : Cardinality(LiveRows(k)) <= 1)
  <1> DEFINE Once == backend = "memory" => \A k \in Keys : crowd[k] <= 1
  <1>1. Init => Once
    BY DEF Init
  <1>2. QInv /\ Once /\ [Next]_vars => Once'
    <2> SUFFICES ASSUME QInv, Once, [Next]_vars, backend' = "memory", NEW n \in Keys
                 PROVE  crowd'[n] <= 1
      OBVIOUS
    <2>1. ASSUME NEW k \in Keys, EnqueueAtOnce(k) PROVE crowd'[n] <= 1
      <3>1. crowd[k] \in Nat /\ crowd[k] <= 1 /\ crowd[n] <= 1
        BY <2>1 DEF QInv, QueueingOK, EnqueueAtOnce
      <3>2. Max({crowd[k], 1}) \in {crowd[k], 1}
        BY <3>1 DEF Max
      <3> QED BY <2>1, <3>1, <3>2 DEF EnqueueAtOnce, QInv, QueueingOK
    <2>2. CASE \E c \in Clients, k \in Keys : Look(c, k)
      BY <2>2 DEF Look
    <2>3. CASE UNCHANGED <<backend, crowd>>
      BY <2>3
    <2> QED BY <2>1, <2>2, <2>3 DEF Next, Insert, Progress, Finish, Fail, Lapse, Claim, RecoverAll,
              UpsertWave, UpsertWorkPackage, PlannerFails, vars, queueing
  <1>3. QInv /\ Once => (backend = "memory" => \A k \in Keys : Cardinality(LiveRows(k)) <= 1)
    <2> SUFFICES ASSUME QInv, Once, backend = "memory", NEW k \in Keys
                 PROVE  Cardinality(LiveRows(k)) <= 1
      OBVIOUS
    <2> QED BY SetsFinite DEF QInv, CrowdOK, QueueingOK
  <1> HIDE DEF Once
  <1> QED BY <1>1, <1>2, <1>3, QInvHolds, PTL DEF Spec

(* No job that has settled changes its status again, although finish_job and
   fail_job of InMemoryStore check neither worker nor status. *)
THEOREM SettledStays == Spec => SettledIsFinal
  <1>1. QInv /\ [Next]_vars =>
          [\A i \in Rows : jobs[i].status \in Terminal => jobs'[i].status = jobs[i].status]_vars
    BY QueueStep DEF KeepsSettled
  <1> QED BY <1>1, QInvHolds, PTL DEF Spec, SettledIsFinal

-----------------------------------------------------------------------------
(* The plan.                                                                *)

(* What planners know of waves is stored; PostgreSQL stores a key once. *)
PInv ==
  /\ backend \in {"postgres", "memory"}
  /\ PlanningOK
  /\ \A a \in Planners : \A n \in 1..Len(planner[a].ids) :
       [id |-> planner[a].ids[n], key |-> n] \in waves
  /\ backend = "postgres" => \A v, w \in waves : v.key = w.key => v.id = w.id
  /\ \A p \in packages : [id |-> p.wave_id, key |-> p.wave_key] \in waves

LEMMA WavePreserves == ASSUME PInv, NEW a \in Planners, UpsertWave(a) PROVE PInv'
  <1> DEFINE n == Len(planner[a].ids) + 1
             w == [id |-> NewId(a, n), key |-> n]
             known == planner[a].ids
  <1>1. /\ known \in Seq(Ids) /\ Len(known) \in Nat /\ n \in Nat
        /\ Len(Waves) \in Nat /\ DOMAIN Waves = 1..Len(Waves) /\ n \in DOMAIN Waves
    BY RecordsAssumption DEF PInv, PlanningOK, UpsertWave
  <1>2. NewId(a, n) \in Ids /\ w \in [id : Ids, key : DOMAIN Waves]
    BY <1>1 DEF NewId, Ids, PInv, PlanningOK
  <1>3. waves \subseteq waves' /\ [id |-> Returned(a, n), key |-> n] \in waves'
        /\ Returned(a, n) \in Ids
    <2>1. CASE backend = "postgres" /\ StoredWave(n) # {}
      <3>1. PICK v : v = (CHOOSE x \in StoredWave(n) : TRUE) /\ v \in StoredWave(n)
        BY <2>1
      <3>2. Returned(a, n) = v.id /\ waves' = waves
        BY <2>1, <3>1 DEF Returned, UpsertWave
      <3>3. v \in waves /\ v.key = n /\ v \in [id : Ids, key : DOMAIN Waves]
        BY <3>1 DEF StoredWave, PInv, PlanningOK
      <3> QED BY <3>2, <3>3
    <2>2. CASE ~(backend = "postgres" /\ StoredWave(n) # {})
      BY <2>2, <1>2 DEF Returned, UpsertWave
    <2> QED BY <2>1, <2>2
  <1>4. waves' \subseteq [id : Ids, key : DOMAIN Waves]
    BY <1>2 DEF UpsertWave, PInv, PlanningOK
  <1>5. backend' = "postgres" => \A u, v \in waves' : u.key = v.key => u.id = v.id
    <2>1. CASE backend = "postgres" /\ StoredWave(n) # {}
      BY <2>1 DEF PInv, UpsertWave
    <2>2. CASE backend = "postgres" /\ StoredWave(n) = {}
      <3>1. waves' = waves \cup {w} /\ \A v \in waves : v.key # w.key
        BY <2>2 DEF UpsertWave, StoredWave
      <3> QED BY <2>2, <3>1 DEF PInv
    <2> QED BY <2>1, <2>2 DEF UpsertWave
  <1>6. planner' = [planner EXCEPT ![a].ids = Append(known, Returned(a, n))]
    BY DEF UpsertWave
  <1> HIDE DEF n, w, known
  <1>7. /\ \A b \in Planners \ {a} : planner'[b] = planner[b]
        /\ planner'[a].ids = Append(known, Returned(a, n))
        /\ planner' \in [Planners -> [ids : Seq(Ids), stored : Nat]]
    <2>1. Append(known, Returned(a, n)) \in Seq(Ids)
      BY <1>1, <1>3
    <2> QED BY <1>6, <2>1 DEF PInv, PlanningOK
  <1>8. /\ Len(planner'[a].ids) = n
        /\ \A m \in 1..n : planner'[a].ids[m] = IF m = n THEN Returned(a, n) ELSE known[m]
    BY <1>1, <1>3, <1>7 DEF n, known
  <1>9. PlanningOK'
    <2>1. n <= Len(Waves)
      BY <1>1
    <2>2. \A b \in Planners \ {a} : Len(planner'[b].ids) <= Len(Waves)
      BY <1>7 DEF PInv, PlanningOK
    <2>3. \A b \in Planners : Len(planner'[b].ids) <= Len(Waves)
      BY <1>8, <2>1, <2>2
    <2> QED BY <1>4, <1>7, <2>3 DEF PInv, PlanningOK, UpsertWave
  <1>10. ASSUME NEW b \in Planners, NEW m \in 1..Len(planner'[b].ids)
         PROVE  [id |-> planner'[b].ids[m], key |-> m] \in waves'
    <2>1. CASE b # a
      BY <2>1, <1>3, <1>7, <1>10 DEF PInv
    <2>2. CASE b = a /\ m = n
      BY <2>2, <1>3, <1>8
    <2>3. CASE b = a /\ m # n
      <3>1. m \in 1..Len(known)
        <4>1. m \in 1..n /\ m # n
          BY <2>3, <1>8, <1>10
        <4>2. Len(known) \in Nat /\ n = Len(known) + 1
          BY <1>1 DEF n, known
        <4> QED BY <4>1, <4>2
      <3> QED BY <2>3, <3>1, <1>3, <1>8, <1>10 DEF PInv, known
    <2> QED BY <2>1, <2>2, <2>3
  <1> QED BY <1>3, <1>5, <1>9, <1>10 DEF PInv, UpsertWave

LEMMA PackagePreserves == ASSUME PInv, NEW a \in Planners, UpsertWorkPackage(a) PROVE PInv'
  <1> DEFINE n == planner[a].stored + 1
             p == [wave_id |-> planner[a].ids[n], wave_key |-> n]
  <1>1. /\ planner[a].ids \in Seq(Ids) /\ n \in Nat /\ Len(Waves) \in Nat
        /\ n \in 1..Len(planner[a].ids) /\ n \in DOMAIN Waves
    BY RecordsAssumption DEF PInv, PlanningOK, UpsertWorkPackage
  <1>2. p \in [wave_id : Ids, wave_key : DOMAIN Waves]
        /\ [id |-> p.wave_id, key |-> p.wave_key] \in waves
    BY <1>1 DEF PInv
  <1>3. /\ planner' \in [Planners -> [ids : Seq(Ids), stored : Nat]]
        /\ \A b \in Planners : planner'[b].ids = planner[b].ids
    BY <1>1 DEF PInv, PlanningOK, UpsertWorkPackage
  <1>4. packages' = packages \cup {p} /\ UNCHANGED <<backend, waves, crashes>>
    BY DEF UpsertWorkPackage
  <1> HIDE DEF p, n
  <1> QED BY <1>2, <1>3, <1>4 DEF PInv, PlanningOK

LEMMA FailurePreserves == ASSUME PInv, NEW a \in Planners, PlannerFails(a) PROVE PInv'
  <1>1. /\ planner' \in [Planners -> [ids : Seq(Ids), stored : Nat]]
        /\ \A b \in Planners \ {a} : planner'[b] = planner[b]
        /\ Len(planner'[a].ids) = 0
    BY DEF PInv, PlanningOK, PlannerFails, NewPlanner
  <1>2. \A b \in Planners : Len(planner'[b].ids) <= Len(Waves)
    <2>1. 0 <= Len(Waves)
      BY RecordsAssumption
    <2>2. \A b \in Planners \ {a} : Len(planner'[b].ids) <= Len(Waves)
      BY <1>1 DEF PInv, PlanningOK
    <2> QED BY <1>1, <2>1, <2>2
  <1>3. crashes' \in 0..MaxCrashes /\ UNCHANGED <<backend, waves, packages>>
    BY RecordsAssumption DEF PInv, PlanningOK, PlannerFails
  <1>4. \A b \in Planners : \A m \in 1..Len(planner'[b].ids) :
          [id |-> planner'[b].ids[m], key |-> m] \in waves'
    BY <1>1, <1>3 DEF PInv
  <1> QED BY <1>1, <1>2, <1>3, <1>4 DEF PInv, PlanningOK

LEMMA PInvHolds == Spec => []PInv
  <1>1. Init => PInv
    <2> SUFFICES ASSUME Init PROVE PInv
      OBVIOUS
    <2>1. \A a \in Planners : planner[a].ids = <<>> /\ planner[a].stored = 0
      BY DEF Init, NewPlanner
    <2>2. planner \in [Planners -> [ids : Seq(Ids), stored : Nat]]
      BY DEF Init, NewPlanner
    <2> QED BY <2>1, <2>2, RecordsAssumption DEF Init, PInv, PlanningOK
  <1>2. PInv /\ [Next]_vars => PInv'
    <2> SUFFICES ASSUME PInv, [Next]_vars PROVE PInv'
      OBVIOUS
    <2>1. CASE UNCHANGED <<backend, planning>>
      BY <2>1 DEF PInv, PlanningOK, planning
    <2>2. ASSUME NEW a \in Planners, UpsertWave(a) \/ UpsertWorkPackage(a) \/ PlannerFails(a)
          PROVE  PInv'
      BY <2>2, WavePreserves, PackagePreserves, FailurePreserves
    <2> QED BY <2>1, <2>2 DEF Next, EnqueueAtOnce, Look, Insert, Progress, Finish, Fail, Lapse,
              Claim, RecoverAll, vars, planning
  <1> QED BY <1>1, <1>2, PTL DEF Spec

(* Every stored package belongs to a stored wave of its key, in PostgreSQL to
   the only one, however many planners run or run again (upsert_wave). *)
THEOREM WavesAlwaysResolve == Spec => []WavesResolve
  <1>1. PInv => WavesResolve
    <2> SUFFICES ASSUME PInv PROVE WavesResolve
      OBVIOUS
    <2>1. ASSUME NEW p \in packages, NEW q \in packages, backend = "postgres",
                 p.wave_key = q.wave_key
          PROVE  p.wave_id = q.wave_id
      <3> DEFINE v == [id |-> p.wave_id, key |-> p.wave_key]
                 w == [id |-> q.wave_id, key |-> q.wave_key]
      <3>1. v \in waves /\ w \in waves /\ v.key = w.key
        BY <2>1 DEF PInv
      <3>2. v.id = w.id
        BY <2>1, <3>1 DEF PInv
      <3> QED BY <3>2
    <2> QED BY <2>1 DEF WavesResolve, PInv
  <1> QED BY <1>1, PInvHolds, PTL

(* Rows have the types of their columns; attempts never exceed the budget. *)
THEOREM RecordsTypeCorrect == Spec => []TypeOK
  <1>1. QInv /\ PInv => TypeOK
    BY DEF QInv, PInv, TypeOK
  <1> QED BY <1>1, QInvHolds, PInvHolds, PTL
=============================================================================
