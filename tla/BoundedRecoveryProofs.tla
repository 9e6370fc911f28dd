------------------------ MODULE BoundedRecoveryProofs ------------------------
(***************************************************************************)
(* Theorems about BoundedRecovery, for any collectors of a host, any budget, *)
(* any cool-downs, and any number of runs, batches and changes.             *)
(***************************************************************************)
EXTENDS BoundedRecovery, TLAPS, FiniteSetTheorems

-----------------------------------------------------------------------------
(* The inductive invariant *)

Attempts(b) == ToSet(batches[b].attempts)
Ordinary    == {r \in DOMAIN runs : runs[r].batch = None}

\* Runs and batches know each other, and no one knows a context of the future.
Links ==
    /\ \A c \in Collector : rows[c].context <= changes + 1
    /\ \A r \in DOMAIN runs :
          /\ runs[r].context <= rows[runs[r].collector].context
          /\ runs[r].status \in Live => runs[r].stop = "not_applicable"
          /\ runs[r].batch # None =>
                runs[r].batch \in DOMAIN batches /\ r \in Attempts(runs[r].batch)
    /\ \A b \in DOMAIN batches :
          /\ runs[b].batch = None /\ runs[b].status \notin Live
          /\ \A r \in Attempts(b) : r \in DOMAIN runs /\ runs[r].batch = b
          /\ Len(batches[b].attempts) <= MaxAttempts
          /\ batches[b].active # None =>
                /\ batches[b].active \in Attempts(b)
                /\ runs[batches[b].active].collector = batches[b].collector
    /\ Cardinality(Ordinary) <= MaxOrdinary

\* What a batch has sent, and what its run may still send, was reserved.
Budget ==
    /\ \A b \in DOMAIN batches :
          /\ batches[b].reserved = Len(batches[b].attempts) * RequestLimit
          /\ sent[b] <= batches[b].reserved
          /\ batches[b].active # None /\ runs[batches[b].active].claims = 0 =>
                sent[b] + RequestLimit <= batches[b].reserved
    /\ \A b \in RunId \ DOMAIN batches : sent[b] = 0

\* A run under way is the one its batch waits for, and no other batch is active or
\* makes the host wait.
Host == \A r \in LiveRuns :
    /\ runs[r].batch # None => batches[runs[r].batch].active = r
    /\ \A b \in DOMAIN batches : b # runs[r].batch =>
          /\ batches[b].status \notin Active
          /\ batches[b].notBefore # None => batches[b].notBefore <= now

\* A batch that did not end by cancellation or drift.
Minded(batch) == batch.reason \notin {"cancel_requested", "context_changed"}

\* What the source asked of the runs it has judged is over, or waited for.
Waited(b) == Minded(batches[b]) =>
    \A q \in {b} \cup Attempts(b) :
        q # batches[b].active /\ runs[q].stop = "source_rate_limited" =>
            \/ runs[q].ended + runs[q].wait <= now
            \/ /\ batches[b].notBefore # None
               /\ runs[q].ended + runs[q].wait <= batches[b].notBefore

\* The course of a batch.
Course(b) ==
    /\ batches[b].status \in {"cooling_down", "running"} => Minded(batches[b])
    /\ batches[b].status = "cooling_down" => batches[b].next = batches[b].notBefore
    /\ batches[b].status = "running" =>
          batches[b].notBefore # None /\ batches[b].notBefore <= now
    /\ batches[b].status = "cancelling" => batches[b].reason # "context_changed"
    /\ batches[b].reason = "cancel_requested" => batches[b].cancel

\* The run a batch waits for: one that the deadline has cancelled learns nothing
\* any more; one that was told to wait has left the progress as it was.
Awaited(b) == batches[b].active # None =>
    LET r == batches[b].active
        c == batches[b].collector
    IN  /\ batches[b].status = "cancelling" /\ Minded(batches[b]) =>
              /\ runs[r].stop = "not_applicable"
              /\ runs[r].status \in Live => runs[r].cancel
        /\ runs[r].stop = "source_rate_limited" =>
              /\ runs[r].after = runs[r].before
              /\ rows[c].context = runs[r].context => rows[c].progress = runs[r].after

Waiting == \A b \in DOMAIN batches : Waited(b) /\ Course(b) /\ Awaited(b)

RInv == TypeOK /\ Links /\ Budget /\ Host /\ Waiting

-----------------------------------------------------------------------------
(* Lemmas about numbers and sets *)

\* Facts of arithmetic in the form the counts of runs and requests need.
LEMMA Products ==
    /\ \A i, j \in Nat : i * j \in Nat
    /\ \A i, j, k \in Nat : i <= j => i * k <= j * k
    /\ \A i, k \in Nat : (i + 1) * k = i * k + k
    /\ \A i, k \in Nat : i * (k + 1) = i + i * k
<1>1. \A i, j \in Nat : i * j \in Nat
  OBVIOUS
<1>2. \A i, k \in Nat : (i + 1) * k = i * k + k
  OBVIOUS
<1>3. \A i, k \in Nat : i * (k + 1) = i + i * k
  OBVIOUS
<1>4. \A i, j, k \in Nat : i <= j => i * k <= j * k
  <2>1. SUFFICES ASSUME NEW i \in Nat, NEW j \in Nat, NEW k \in Nat, i <= j
                 PROVE  i * k <= j * k
    OBVIOUS
  <2>2. PICK d \in Nat : j = i + d
    <3>1. j - i \in Nat /\ j = i + (j - i)
      BY <2>1
    <3>2. QED
      BY <3>1
  <2>3. j * k = i * k + d * k
    BY <2>2
  <2>4. d * k \in Nat /\ i * k \in Nat
    BY <1>1
  <2>5. QED
    BY <2>3, <2>4
<1>5. QED
  BY <1>1, <1>2, <1>3, <1>4

\* Each of n runs is one of O, or one of the k that F lists for one of O.
Covers(F, n, O, k) ==
    /\ O \subseteq 1..n
    /\ \A r \in (1..n) \ O : \E p \in O \X (1..k) : F[p] = r

\* A run is ordinary, or one of the first k of an ordinary run's batch: there are at
\* most k + 1 for each ordinary run.  It bounds the runs there can be.
LEMMA RunCount ==
    ASSUME NEW n \in Nat, NEW m \in Nat, NEW k \in Nat, NEW O, NEW F,
           Covers(F, n, O, k), Cardinality(O) <= m
    PROVE  n <= m * (k + 1)
<1>1. IsFiniteSet(1..n) /\ Cardinality(1..n) = n
  BY FS_Interval
<1>2. IsFiniteSet(O) /\ Cardinality(O) \in Nat /\ (1..n) \cap O = O
  BY <1>1, FS_Subset, FS_CardinalityType DEF Covers
<1>3. /\ IsFiniteSet((1..n) \ O)
      /\ Cardinality((1..n) \ O) = n - Cardinality(O)
  BY <1>1, <1>2, FS_Difference
<1>4. IsFiniteSet(1..k) /\ Cardinality(1..k) = k
  BY FS_Interval
<1>5. PICK P : P = O \X (1..k)
  OBVIOUS
<1>6. IsFiniteSet(P) /\ Cardinality(P) = Cardinality(O) * k
  BY <1>2, <1>4, <1>5, FS_Product
<1>7. PICK g : g = [r \in (1..n) \ O |-> CHOOSE p \in P : F[p] = r]
  OBVIOUS
<1>8. \A r \in (1..n) \ O : g[r] \in P /\ F[g[r]] = r
  BY <1>5, <1>7 DEF Covers
<1>9. g \in Injection((1..n) \ O, P)
  BY <1>7, <1>8 DEF Injection, IsInjective
<1>10. n - Cardinality(O) <= Cardinality(O) * k
  BY <1>3, <1>6, <1>9, FS_Injection
<1>11. Cardinality(O) * (k + 1) <= m * (k + 1)
  BY <1>2, Products
<1>12. Cardinality(O) * (k + 1) = Cardinality(O) + Cardinality(O) * k
  BY <1>2, Products
<1>13. QED
  BY <1>2, <1>10, <1>11, <1>12, Products

\* The greatest and the least of two numbers, as Cool uses them.
LEMMA OfTwo ==
    ASSUME NEW i \in Nat, NEW j \in Nat
    PROVE  /\ Max({i, j}) \in {i, j} /\ i <= Max({i, j}) /\ j <= Max({i, j})
           /\ Min({i, j}) \in {i, j} /\ Min({i, j}) <= i /\ Min({i, j}) <= j
<1>1. \E x \in {i, j} : \A y \in {i, j} : x >= y
  OBVIOUS
<1>2. \E x \in {i, j} : \A y \in {i, j} : x =< y
  OBVIOUS
<1>3. QED
  BY <1>1, <1>2 DEF Max, Min

\* The entries of a sequence of runs with one more.
LEMMA Appended ==
    ASSUME NEW S, NEW s \in Seq(S), NEW e \in S
    PROVE  /\ Append(s, e) \in Seq(S)
           /\ Len(Append(s, e)) = Len(s) + 1
           /\ DOMAIN Append(s, e) = DOMAIN s \cup {Len(s) + 1}
           /\ \A i \in DOMAIN s : Append(s, e)[i] = s[i]
           /\ Append(s, e)[Len(s) + 1] = e
           /\ ToSet(Append(s, e)) = ToSet(s) \cup {e}
<1>1. /\ Append(s, e) \in Seq(S)
      /\ Len(Append(s, e)) = Len(s) + 1
      /\ DOMAIN s = 1..Len(s) /\ DOMAIN Append(s, e) = 1..(Len(s) + 1)
      /\ \A i \in DOMAIN s : Append(s, e)[i] = s[i]
      /\ Append(s, e)[Len(s) + 1] = e
      /\ Len(s) \in Nat
  OBVIOUS
<1>2. DOMAIN Append(s, e) = DOMAIN s \cup {Len(s) + 1}
  BY <1>1
<1>3. ToSet(Append(s, e)) = ToSet(s) \cup {e}
  BY <1>1, <1>2 DEF ToSet
<1>4. QED
  BY <1>1, <1>2, <1>3

-----------------------------------------------------------------------------
(* What the invariant says of the constants and of the rows *)

LEMMA Bounds ==
    ASSUME RecoveryAssumption
    PROVE  /\ MaxRuns \in Nat /\ 0 \in Nat /\ None \notin RunId /\ None # 0
           /\ RunId \subseteq Nat /\ 0 \notin RunId
           /\ Context \subseteq Nat /\ Waits \subseteq Nat /\ None \notin Nat
  BY Products DEF RecoveryAssumption, MaxRuns, RunId, Context

LEMMA RunsTyped ==
    ASSUME RecoveryAssumption, TypeOK
    PROVE  /\ Len(runs) \in Nat /\ DOMAIN runs = 1..Len(runs)
           /\ DOMAIN runs \subseteq RunId
           /\ None \notin DOMAIN runs /\ None \notin DOMAIN batches
           /\ \A r \in DOMAIN runs : runs[r] \in Run
           /\ \A b \in DOMAIN batches : b \in DOMAIN runs /\ b \in RunId
  BY Bounds DEF TypeOK, RunId

\* What the invariant says of a run under way.
LEMMA LiveRun ==
    ASSUME RecoveryAssumption, RInv, NEW r \in LiveRuns
    PROVE  /\ r \in DOMAIN runs /\ r \in RunId /\ r # None /\ runs[r] \in Run
           /\ runs[r].stop = "not_applicable"
           /\ r \notin DOMAIN batches
           /\ runs[r].batch # None =>
                 /\ runs[r].batch \in DOMAIN batches
                 /\ batches[runs[r].batch].active = r
           /\ \A b \in DOMAIN batches : batches[b].active # None \/ r \in Attempts(b) =>
                 b = runs[r].batch /\ batches[b].active = r
<1>1. /\ r \in DOMAIN runs /\ r \in RunId /\ r # None /\ runs[r] \in Run
      /\ runs[r].stop = "not_applicable" /\ r \notin DOMAIN batches
  BY RunsTyped DEF RInv, LiveRuns, Links
<1>2. ASSUME NEW b \in DOMAIN batches, batches[b].active # None \/ r \in Attempts(b)
      PROVE  b = runs[r].batch /\ batches[b].active = r
  <2>1. b # None
    BY RunsTyped DEF RInv
  <2>2. b = runs[r].batch
    BY <1>2 DEF RInv, TypeOK, Host, Links, Active
  <2>3. QED
    BY <2>1, <2>2 DEF RInv, Host
<1>3. runs[r].batch # None =>
         runs[r].batch \in DOMAIN batches /\ batches[runs[r].batch].active = r
  BY <1>1 DEF RInv, Links, Host
<1>4. QED
  BY <1>1, <1>2, <1>3

-----------------------------------------------------------------------------
(* Workers *)

\* A step of a worker changes one run under way, with the row of its collector.
LEMMA RunStep ==
    ASSUME RecoveryAssumption, RInv, NEW r \in LiveRuns, NEW run \in Run,
           runs' = [runs EXCEPT ![r] = run], batches' = batches, now' = now,
           run.collector = runs[r].collector, run.batch = runs[r].batch,
           run.context = runs[r].context,
           run.status \in Live => run.stop = "not_applicable",
           runs[r].cancel => run.cancel /\ run.stop = "not_applicable",
           run.stop = "source_rate_limited" =>
               run.after = run.before /\ rows'[run.collector].progress = run.after,
           rows' \in [Collector -> Row],
           \A c \in Collector : rows'[c].context = rows[c].context,
           changes' \in 0..MaxChanges, changes <= changes',
           sent' \in [RunId -> Nat], run.claims = 0 => runs[r].claims = 0,
           \A b \in RunId : sent'[b] = sent[b] \/
               /\ b = run.batch /\ runs[r].claims = 0 /\ run.claims # 0
               /\ sent'[b] = sent[b] + RequestLimit
    PROVE  RInv'
<1>1. /\ DOMAIN runs' = DOMAIN runs /\ runs'[r] = run
      /\ \A q \in DOMAIN runs : q # r => runs'[q] = runs[q]
      /\ runs' \in Seq(Run) /\ Len(runs') = Len(runs)
  BY LiveRun DEF RInv, TypeOK
<1>2. LiveRuns' \subseteq LiveRuns
  BY <1>1 DEF LiveRuns
<1>3. \A b : Attempts(b)' = Attempts(b)
  BY DEF Attempts
<1>4. \A b \in DOMAIN batches : b # r /\ b \in DOMAIN runs
  BY LiveRun, RunsTyped DEF RInv
<1>5. TypeOK'
  BY <1>1 DEF RInv, TypeOK
<1>6. Links'
  <2>1. Ordinary' = Ordinary
    BY <1>1 DEF Ordinary
  <2>2. \A c \in Collector : rows'[c].context <= changes' + 1
    <3>1. \A c \in Collector : rows[c].context \in Nat /\ rows[c].context <= changes + 1
      BY Bounds DEF RInv, TypeOK, Row, Links
    <3>2. changes \in Nat /\ changes' \in Nat
      BY Bounds DEF RInv, TypeOK, RecoveryAssumption
    <3>3. QED
      BY <3>1, <3>2
  <2>3. \A q \in DOMAIN runs' :
           /\ runs'[q].context <= rows'[runs'[q].collector].context
           /\ runs'[q].status \in Live => runs'[q].stop = "not_applicable"
           /\ runs'[q].batch # None =>
                 runs'[q].batch \in DOMAIN batches' /\ q \in Attempts(runs[q].batch)'
    <3>1. \A q \in DOMAIN runs : runs[q].collector \in Collector
      BY RunsTyped DEF RInv, Run
    <3>2. QED
      BY <1>1, <1>3, <3>1, LiveRun DEF RInv, Links
  <2>4. ASSUME NEW b \in DOMAIN batches
        PROVE  /\ runs'[b].batch = None /\ runs'[b].status \notin Live
               /\ \A q \in Attempts(b) : q \in DOMAIN runs' /\ runs'[q].batch = b
               /\ Len(batches[b].attempts) <= MaxAttempts
               /\ batches[b].active # None =>
                     /\ batches[b].active \in Attempts(b)
                     /\ runs'[batches[b].active].collector = batches[b].collector
    BY <1>1, <1>4, LiveRun DEF RInv, Links
  <2>5. QED
    BY <1>3, <2>1, <2>2, <2>3, <2>4 DEF Links, RInv
<1>7. Budget'
  <2>1. ASSUME NEW b \in DOMAIN batches
        PROVE  /\ batches[b].reserved = Len(batches[b].attempts) * RequestLimit
               /\ sent'[b] <= batches[b].reserved
               /\ batches[b].active # None /\ runs'[batches[b].active].claims = 0 =>
                     sent'[b] + RequestLimit <= batches[b].reserved
    <3>1. CASE b = runs[r].batch
      <4>1. batches[b].active = r
        BY <3>1, LiveRun, RunsTyped DEF RInv
      <4>2. b \in RunId
        BY RunsTyped DEF RInv
      <4>3. QED
        BY <1>1, <3>1, <4>1, <4>2, LiveRun DEF RInv, Budget
    <3>2. CASE b # runs[r].batch
      <4>1. batches[b].active = None
        BY <3>2, LiveRun
      <4>2. b \in RunId
        BY RunsTyped DEF RInv
      <4>3. QED
        BY <3>2, <4>1, <4>2 DEF RInv, Budget
    <3>3. QED
      BY <3>1, <3>2
  <2>2. ASSUME NEW b \in RunId \ DOMAIN batches
        PROVE  sent'[b] = 0
    <3>1. b # runs[r].batch
      BY RunsTyped, Bounds, LiveRun DEF RInv, Links
    <3>2. QED
      BY <3>1 DEF RInv, Budget
  <2>3. QED
    BY <2>1, <2>2 DEF Budget
<1>8. Host'
  BY <1>1, <1>2, LiveRun DEF RInv, Host
<1>9. Waiting'
  <2>1. SUFFICES ASSUME NEW b \in DOMAIN batches
                 PROVE  Waited(b)' /\ Course(b)' /\ Awaited(b)'
    BY DEF Waiting
  <2>2. Waited(b)'
    <3>1. SUFFICES ASSUME Minded(batches[b]), NEW q \in {b} \cup Attempts(b),
                          q # batches[b].active, runs'[q].stop = "source_rate_limited"
                   PROVE  \/ runs'[q].ended + runs'[q].wait <= now
                          \/ /\ batches[b].notBefore # None
                             /\ runs'[q].ended + runs'[q].wait <= batches[b].notBefore
      BY <1>3 DEF Waited, Minded
    <3>2. q # r /\ q \in DOMAIN runs
      BY <1>4, <3>1, LiveRun DEF RInv, Links
    <3>3. runs'[q] = runs[q]
      BY <1>1, <3>2
    <3>4. QED
      BY <3>1, <3>3 DEF RInv, Waiting, Waited
  <2>3. Course(b)'
    BY DEF RInv, Waiting, Course, Minded
  <2>4. Awaited(b)'
    <3>1. CASE batches[b].active = None
      BY <3>1 DEF Awaited
    <3>2. CASE batches[b].active # None
      <4>1. batches[b].active = r /\ b = runs[r].batch
        BY <3>2, LiveRun
      <4>2. batches[b].collector = run.collector
        BY <3>2, <4>1 DEF RInv, Links
      <4>3. runs[r].status \in Live
        BY DEF LiveRuns
      <4>4. QED
        BY <1>1, <3>2, <4>1, <4>2, <4>3 DEF RInv, Waiting, Awaited, Minded
    <3>3. QED
      BY <3>1, <3>2
  <2>5. QED
    BY <2>2, <2>3, <2>4
<1>10. QED
  BY <1>5, <1>6, <1>7, <1>8, <1>9 DEF RInv

\* A run begins, or ends without a request: its requests were reserved, and it is
\* the first time that it begins.
LEMMA ClaimKeeps ==
    ASSUME RecoveryAssumption, RInv, NEW r \in DOMAIN runs, ClaimRun(r)
    PROVE  RInv'
<1>1. r \in LiveRuns /\ runs[r] \in Run /\ runs[r].claims \in Nat
  BY RunsTyped DEF ClaimRun, RInv, Run
<1>2. /\ rows \in [Collector -> Row] /\ changes \in 0..MaxChanges /\ changes <= changes
      /\ sent \in [RunId -> Nat]
  BY Bounds DEF RInv, TypeOK, RecoveryAssumption
<1>3. /\ now' = now /\ rows' = rows /\ batches' = batches /\ changes' = changes
      /\ rows' \in [Collector -> Row] /\ changes' \in 0..MaxChanges /\ changes <= changes'
      /\ \A c \in Collector : rows'[c].context = rows[c].context
      /\ runs[r].stop = "not_applicable"
  BY <1>1, <1>2, LiveRun DEF ClaimRun
<1>4. ASSUME NEW over \in {"cancelled", "failed"},
             runs' = [runs EXCEPT ![r].status = over], sent' = sent
      PROVE  RInv'
  <2>1. PICK run : run = [runs[r] EXCEPT !.status = over]
    OBVIOUS
  <2>2. runs' = [runs EXCEPT ![r] = run]
    BY <1>4, <2>1
  <2>3. /\ run \in Run /\ run.collector = runs[r].collector
        /\ run.batch = runs[r].batch /\ run.context = runs[r].context
        /\ run.status \notin Live /\ run.stop = runs[r].stop
        /\ run.cancel = runs[r].cancel /\ run.claims = runs[r].claims
    BY <1>1, <1>4, <2>1 DEF Run, Live
  <2>4. /\ run.stop = "not_applicable" /\ (runs[r].cancel => run.cancel)
        /\ sent' \in [RunId -> Nat] /\ \A b \in RunId : sent'[b] = sent[b]
    BY <1>2, <1>3, <1>4, <2>3
  <2>5. QED
    BY <1>1, <1>3, <2>2, <2>3, <2>4, RunStep
<1>5. ASSUME ~(runs[r].claims >= ClaimLimit(runs[r])),
             runs' = [runs EXCEPT ![r].status = "running", ![r].owned = TRUE,
                                  ![r].claims = @ + 1],
             sent' = IF runs[r].batch = None THEN sent
                     ELSE [sent EXCEPT ![runs[r].batch] = @ + RequestLimit]
      PROVE  RInv'
  <2>1. PICK run1 : run1 = [runs[r] EXCEPT !.status = "running", !.owned = TRUE]
    OBVIOUS
  <2>2. PICK run : run = [run1 EXCEPT !.claims = @ + 1]
    OBVIOUS
  <2>3. run1 \in Run /\ run1.claims = runs[r].claims /\ run1.collector = runs[r].collector
        /\ run1.batch = runs[r].batch /\ run1.context = runs[r].context
        /\ run1.stop = runs[r].stop /\ run1.cancel = runs[r].cancel
    BY <1>1, <2>1 DEF Run
  <2>8. /\ run \in Run /\ run.collector = runs[r].collector
        /\ run.batch = runs[r].batch /\ run.context = runs[r].context
        /\ run.stop = runs[r].stop
        /\ run.cancel = runs[r].cancel /\ run.claims = runs[r].claims + 1
    BY <1>1, <2>2, <2>3 DEF Run
  <2>9. runs' = [runs EXCEPT ![r] = run]
    BY <1>5, <2>1, <2>2
  <2>4. runs[r].batch # None => runs[r].batch \in RunId /\ runs[r].claims = 0
    BY <1>1, <1>5 DEF ClaimLimit, Run
  <2>5. /\ sent' \in [RunId -> Nat]
        /\ \A b \in RunId : sent'[b] = sent[b] \/
               /\ b = runs[r].batch /\ runs[r].claims = 0
               /\ sent'[b] = sent[b] + RequestLimit
    <3>1. CASE runs[r].batch = None
      BY <1>2, <1>5, <3>1
    <3>2. CASE runs[r].batch # None
      <4>1. RequestLimit \in Nat /\ sent[runs[r].batch] + RequestLimit \in Nat
        BY <1>2, <2>4, <3>2 DEF RecoveryAssumption
      <4>2. QED
        BY <1>2, <1>5, <2>4, <3>2, <4>1
    <3>3. QED
      BY <3>1, <3>2
  <2>6. run.claims # 0 /\ run.stop = "not_applicable" /\ (runs[r].cancel => run.cancel)
    BY <1>1, <1>3, <2>8
  <2>7. QED
    BY <1>1, <1>3, <2>5, <2>6, <2>8, <2>9, RunStep
<1>6. QED
  BY <1>4, <1>5 DEF ClaimRun

\* The run is left behind, as it is.
LEMMA LoseKeeps ==
    ASSUME RecoveryAssumption, RInv, NEW r \in DOMAIN runs, LoseWorker(r)
    PROVE  RInv'
<1>1. r \in LiveRuns /\ runs[r] \in Run
  BY RunsTyped DEF LoseWorker, RInv
<1>2. /\ now' = now /\ rows' = rows /\ batches' = batches /\ sent' = sent
      /\ rows' \in [Collector -> Row] /\ changes' \in 0..MaxChanges /\ changes <= changes'
      /\ \A c \in Collector : rows'[c].context = rows[c].context
      /\ sent' \in [RunId -> Nat] /\ \A b \in RunId : sent'[b] = sent[b]
      /\ runs[r].stop = "not_applicable"
  <2>1. changes' \in 0..MaxChanges /\ changes <= changes'
    BY DEF LoseWorker, RInv, TypeOK, RecoveryAssumption
  <2>2. QED
    BY <1>1, <2>1, LiveRun DEF LoseWorker, RInv, TypeOK
<1>3. PICK run : run = [runs[r] EXCEPT !.owned = FALSE]
  OBVIOUS
<1>4. runs' = [runs EXCEPT ![r] = run]
  BY <1>3 DEF LoseWorker
<1>5. /\ run \in Run /\ run.collector = runs[r].collector
      /\ run.batch = runs[r].batch /\ run.context = runs[r].context
      /\ run.stop = "not_applicable" /\ run.claims = runs[r].claims
      /\ (runs[r].cancel => run.cancel)
  BY <1>1, <1>2, <1>3 DEF Run
<1>6. QED
  BY <1>1, <1>2, <1>4, <1>5, RunStep

\* The run ends without a result.
LEMMA AbortKeeps ==
    ASSUME RecoveryAssumption, RInv, NEW r \in DOMAIN runs, AbortRun(r)
    PROVE  RInv'
<1>1. r \in LiveRuns /\ runs[r] \in Run
  BY RunsTyped DEF AbortRun, RInv
<1>2. /\ now' = now /\ rows' = rows /\ batches' = batches /\ sent' = sent
      /\ rows' \in [Collector -> Row] /\ changes' \in 0..MaxChanges /\ changes <= changes'
      /\ \A c \in Collector : rows'[c].context = rows[c].context
      /\ sent' \in [RunId -> Nat] /\ \A b \in RunId : sent'[b] = sent[b]
      /\ runs[r].stop = "not_applicable"
  BY <1>1, LiveRun, Bounds DEF AbortRun, RInv, TypeOK, RecoveryAssumption
<1>3. PICK over \in {"cancelled", "failed"} :
         over = IF runs[r].cancel THEN "cancelled" ELSE "failed"
  OBVIOUS
<1>4. PICK left : left = [runs[r] EXCEPT !.owned = FALSE]
  OBVIOUS
<1>5. PICK run : run = [left EXCEPT !.status = over]
  OBVIOUS
<1>6. runs' = [runs EXCEPT ![r] = run]
  BY <1>3, <1>4, <1>5 DEF AbortRun
<1>7. /\ left \in Run /\ left.collector = runs[r].collector
      /\ left.batch = runs[r].batch /\ left.context = runs[r].context
      /\ left.stop = "not_applicable" /\ left.claims = runs[r].claims
      /\ (runs[r].cancel => left.cancel)
  BY <1>1, <1>2, <1>4 DEF Run
<1>8. /\ run \in Run /\ run.collector = runs[r].collector
      /\ run.batch = runs[r].batch /\ run.context = runs[r].context
      /\ run.stop = "not_applicable" /\ run.claims = runs[r].claims
      /\ (runs[r].cancel => run.cancel)
  BY <1>5, <1>7 DEF Run
<1>9. QED
  BY <1>1, <1>2, <1>6, <1>8, RunStep

\* The ways a run ends: with the wait it was asked for it leaves the progress it
\* found.
LEMMA EndsAre ==
    ASSUME RecoveryAssumption, RInv, NEW r \in LiveRuns, NEW run \in Ends(r)
    PROVE  /\ run \in Run /\ run.collector = runs[r].collector
           /\ run.batch = runs[r].batch /\ run.context = runs[r].context
           /\ run.claims = runs[r].claims /\ run.cancel = runs[r].cancel
           /\ run.status \notin Live /\ run.owned = FALSE
           /\ run.stop = "source_rate_limited" => run.after = run.before
<1>1. r \in RunId /\ r \in 1..MaxRuns /\ runs[r] \in Run /\ now \in Nat
  BY LiveRun, Bounds DEF RInv, TypeOK, RunId, RecoveryAssumption
<1>2. PICK left : left = [runs[r] EXCEPT !.owned = FALSE]
  OBVIOUS
<1>3. PICK run0 : run0 = [left EXCEPT !.ended = now]
  OBVIOUS
<1>4. /\ left \in Run /\ left.collector = runs[r].collector
      /\ left.batch = runs[r].batch /\ left.context = runs[r].context
      /\ left.claims = runs[r].claims /\ left.cancel = runs[r].cancel
      /\ left.owned = FALSE
  BY <1>1, <1>2 DEF Run
<1>5. /\ run0 \in Run /\ run0.collector = runs[r].collector
      /\ run0.batch = runs[r].batch /\ run0.context = runs[r].context
      /\ run0.claims = runs[r].claims /\ run0.cancel = runs[r].cancel
      /\ run0.owned = FALSE
  BY <1>1, <1>3, <1>4 DEF Run
<1>6. run0 = [runs[r] EXCEPT !.owned = FALSE, !.ended = now]
  BY <1>2, <1>3
<1>7. ASSUME NEW w \in Waits,
             run = [run0 EXCEPT !.status = "failed", !.stop = "source_rate_limited",
                                !.after = run0.before, !.wait = w]
      PROVE  /\ run \in Run /\ run.collector = run0.collector
             /\ run.batch = run0.batch /\ run.context = run0.context
             /\ run.claims = run0.claims /\ run.cancel = run0.cancel
             /\ run.status \notin Live /\ run.owned = FALSE /\ run.after = run.before
  <2>1. PICK before \in Progress \cup {None} : before = run0.before
    BY <1>5 DEF Run
  <2>2. PICK run1 : run1 = [run0 EXCEPT !.status = "failed", !.stop = "source_rate_limited"]
    OBVIOUS
  <2>3. PICK run2 : run2 = [run1 EXCEPT !.after = before]
    OBVIOUS
  <2>4. run = [run2 EXCEPT !.wait = w]
    BY <1>7, <2>1, <2>2, <2>3
  <2>5. /\ run1 \in Run /\ run1.collector = run0.collector
        /\ run1.batch = run0.batch /\ run1.context = run0.context
        /\ run1.claims = run0.claims /\ run1.cancel = run0.cancel
        /\ run1.owned = FALSE /\ run1.status = "failed" /\ run1.before = before
    BY <1>5, <2>1, <2>2 DEF Run
  <2>6. /\ run2 \in Run /\ run2.collector = run0.collector
        /\ run2.batch = run0.batch /\ run2.context = run0.context
        /\ run2.claims = run0.claims /\ run2.cancel = run0.cancel
        /\ run2.owned = FALSE /\ run2.status = "failed"
        /\ run2.before = before /\ run2.after = before
    BY <2>1, <2>3, <2>5 DEF Run
  <2>7. QED
    BY <2>4, <2>6 DEF Run, Live
<1>8. ASSUME run = [run0 EXCEPT !.status = "succeeded", !.stop = "max_pages",
                               !.after = [context |-> run0.context, version |-> r + 1]]
      PROVE  /\ run \in Run /\ run.collector = run0.collector
             /\ run.batch = run0.batch /\ run.context = run0.context
             /\ run.claims = run0.claims /\ run.cancel = run0.cancel
             /\ run.status \notin Live /\ run.owned = FALSE /\ run.stop = "max_pages"
  <2>1. PICK after \in Progress : after = [context |-> run0.context, version |-> r + 1]
    <3>1. r + 1 \in 1..(MaxRuns + 1) /\ run0.context \in Context
      BY <1>1, <1>5, Bounds DEF Run
    <3>2. QED
      BY <3>1 DEF Progress
  <2>2. PICK run1 : run1 = [run0 EXCEPT !.status = "succeeded", !.stop = "max_pages"]
    OBVIOUS
  <2>3. run = [run1 EXCEPT !.after = after]
    BY <1>8, <2>1, <2>2
  <2>4. /\ run1 \in Run /\ run1.collector = run0.collector
        /\ run1.batch = run0.batch /\ run1.context = run0.context
        /\ run1.claims = run0.claims /\ run1.cancel = run0.cancel
        /\ run1.owned = FALSE /\ run1.status = "succeeded" /\ run1.stop = "max_pages"
    BY <1>5, <2>2 DEF Run
  <2>5. QED
    BY <2>1, <2>3, <2>4 DEF Run, Live
<1>9. ASSUME run = [run0 EXCEPT !.status = "succeeded", !.stop = "checkpoint_reached",
                               !.advanced = r]
      PROVE  /\ run \in Run /\ run.collector = run0.collector
             /\ run.batch = run0.batch /\ run.context = run0.context
             /\ run.claims = run0.claims /\ run.cancel = run0.cancel
             /\ run.status \notin Live /\ run.owned = FALSE
             /\ run.stop = "checkpoint_reached"
  <2>1. PICK run1 : run1 = [run0 EXCEPT !.status = "succeeded", !.stop = "checkpoint_reached"]
    OBVIOUS
  <2>2. run = [run1 EXCEPT !.advanced = r]
    BY <1>9, <2>1
  <2>3. /\ run1 \in Run /\ run1.collector = run0.collector
        /\ run1.batch = run0.batch /\ run1.context = run0.context
        /\ run1.claims = run0.claims /\ run1.cancel = run0.cancel
        /\ run1.owned = FALSE /\ run1.status = "succeeded"
        /\ run1.stop = "checkpoint_reached"
    BY <1>5, <2>1 DEF Run
  <2>4. r \in 0..MaxRuns
    BY <1>1, Bounds
  <2>5. QED
    BY <2>2, <2>3, <2>4 DEF Run, Live
<1>10. ASSUME run = [run0 EXCEPT !.status = "failed", !.stop = "detail_fetch_incomplete"]
       PROVE  /\ run \in Run /\ run.collector = run0.collector
              /\ run.batch = run0.batch /\ run.context = run0.context
              /\ run.claims = run0.claims /\ run.cancel = run0.cancel
              /\ run.status \notin Live /\ run.owned = FALSE
              /\ run.stop = "detail_fetch_incomplete"
  BY <1>5, <1>10 DEF Run, Live
<1>11. \/ \E w \in Waits :
             run = [run0 EXCEPT !.status = "failed", !.stop = "source_rate_limited",
                                !.after = run0.before, !.wait = w]
       \/ run = [run0 EXCEPT !.status = "succeeded", !.stop = "max_pages",
                             !.after = [context |-> run0.context, version |-> r + 1]]
       \/ run = [run0 EXCEPT !.status = "succeeded", !.stop = "checkpoint_reached",
                             !.advanced = r]
       \/ run = [run0 EXCEPT !.status = "failed", !.stop = "detail_fetch_incomplete"]
  BY <1>6 DEF Ends
<1>12. QED
  BY <1>5, <1>7, <1>8, <1>9, <1>10, <1>11

\* The run ends with a result, and the row of its collector with it.
LEMMA EndKeeps ==
    ASSUME RecoveryAssumption, RInv, NEW r \in DOMAIN runs, EndRun(r)
    PROVE  RInv'
<1>1. r \in LiveRuns /\ ~runs[r].cancel
  BY DEF EndRun
<1>2. PICK run \in Ends(r) :
         /\ runs' = [runs EXCEPT ![r] = run]
         /\ rows' = [rows EXCEPT ![run.collector].latest = r,
                       ![run.collector].progress = run.after,
                       ![run.collector].checkpoint =
                           IF run.advanced = 0 THEN @ ELSE run.advanced]
  BY DEF EndRun
<1>3. /\ run \in Run /\ run.collector = runs[r].collector
      /\ run.batch = runs[r].batch /\ run.context = runs[r].context
      /\ run.claims = runs[r].claims /\ run.cancel = runs[r].cancel
      /\ run.status \notin Live
      /\ run.stop = "source_rate_limited" => run.after = run.before
  BY <1>1, EndsAre
<1>4. /\ run.collector \in Collector /\ r \in RunId \cup {None}
      /\ run.after \in Progress \cup {None} /\ run.advanced \in 0..MaxRuns
  BY <1>1, <1>3, LiveRun DEF Run
<1>5. /\ rows' \in [Collector -> Row]
      /\ \A c \in Collector : rows'[c].context = rows[c].context
      /\ rows'[run.collector].progress = run.after
  <2>1. rows \in [Collector -> Row]
    BY DEF RInv, TypeOK
  <2>2. PICK c \in Collector : c = run.collector
    BY <1>4
  <2>3. PICK row1 : row1 = [rows[c] EXCEPT !.latest = r]
    OBVIOUS
  <2>4. PICK row2 : row2 = [row1 EXCEPT !.progress = run.after]
    OBVIOUS
  <2>5. PICK row3 : row3 = [row2 EXCEPT !.checkpoint =
                               IF run.advanced = 0 THEN @ ELSE run.advanced]
    OBVIOUS
  <2>6. rows' = [rows EXCEPT ![c] = row3]
    BY <1>2, <2>1, <2>2, <2>3, <2>4, <2>5
  <2>7. row1 \in Row /\ row1.context = rows[c].context
    BY <1>4, <2>1, <2>3 DEF Row
  <2>8. row2 \in Row /\ row2.context = rows[c].context /\ row2.progress = run.after
    BY <1>4, <2>4, <2>7 DEF Row
  <2>9. row3 \in Row /\ row3.context = rows[c].context /\ row3.progress = run.after
    BY <1>4, <2>5, <2>8 DEF Row
  <2>10. QED
    BY <2>1, <2>2, <2>6, <2>9
<1>6. /\ now' = now /\ batches' = batches /\ changes' = changes
      /\ changes' \in 0..MaxChanges /\ changes <= changes'
      /\ sent' \in [RunId -> Nat] /\ \A b \in RunId : sent'[b] = sent[b]
  BY Bounds DEF EndRun, RInv, TypeOK, RecoveryAssumption
<1>7. QED
  BY <1>1, <1>2, <1>3, <1>5, <1>6, RunStep

-----------------------------------------------------------------------------
(* The clock and the engineers *)

\* What was over or waited for is so later.
LEMMA TockKeeps ==
    ASSUME RecoveryAssumption, RInv, Tock
    PROVE  RInv'
<1>1. /\ now' = now + 1 /\ now' \in 0..MaxTime /\ now \in Nat
      /\ rows' = rows /\ runs' = runs /\ batches' = batches /\ sent' = sent
      /\ changes' = changes
  BY DEF Tock, RInv, TypeOK, RecoveryAssumption
<1>2. TypeOK'
  BY <1>1 DEF RInv, TypeOK
<1>3. Links' /\ Budget'
  BY <1>1 DEF RInv, Links, Budget, Attempts, Ordinary
<1>4. \A b \in DOMAIN batches : batches[b].notBefore # None => batches[b].notBefore \in Nat
  BY DEF RInv, TypeOK, Batch
<1>5. Host'
  BY <1>1, <1>4 DEF RInv, Host, LiveRuns
<1>6. Waiting'
  <2>1. SUFFICES ASSUME NEW b \in DOMAIN batches
                 PROVE  Waited(b)' /\ Course(b)' /\ Awaited(b)'
    BY <1>1 DEF Waiting
  <2>2. Waited(b)'
    <3>1. SUFFICES ASSUME Minded(batches[b]), NEW q \in {b} \cup Attempts(b),
                          q # batches[b].active, runs[q].stop = "source_rate_limited"
                   PROVE  \/ runs[q].ended + runs[q].wait <= now + 1
                          \/ /\ batches[b].notBefore # None
                             /\ runs[q].ended + runs[q].wait <= batches[b].notBefore
      BY <1>1 DEF Waited, Minded, Attempts
    <3>2. q \in DOMAIN runs
      BY RunsTyped DEF RInv, Links
    <3>3. runs[q].ended \in Nat /\ runs[q].wait \in Nat
      BY <3>2, RunsTyped, Bounds DEF RInv, Run
    <3>4. QED
      BY <1>1, <3>1, <3>3 DEF RInv, Waiting, Waited
  <2>3. Course(b)'
    BY <1>1, <1>4 DEF RInv, Waiting, Course, Minded
  <2>4. Awaited(b)'
    BY <1>1 DEF RInv, Waiting, Awaited, Minded
  <2>5. QED
    BY <2>2, <2>3, <2>4
<1>7. QED
  BY <1>2, <1>3, <1>5, <1>6 DEF RInv

\* A change of a row that leaves the progress of its context alone.
LEMMA RowStep ==
    ASSUME RecoveryAssumption, RInv, NEW c \in Collector, NEW row \in Row,
           rows' = [rows EXCEPT ![c] = row],
           changes < MaxChanges, changes' = changes + 1,
           row.context \in {rows[c].context, rows[c].context + 1},
           row.context = rows[c].context => row.progress = rows[c].progress,
           now' = now, runs' = runs, batches' = batches, sent' = sent
    PROVE  RInv'
<1>1. /\ rows \in [Collector -> Row] /\ changes \in Nat /\ changes' \in 0..MaxChanges
      /\ \A d \in Collector : rows[d].context \in Nat
  BY Bounds DEF RInv, TypeOK, Row, RecoveryAssumption
<1>2. /\ rows' \in [Collector -> Row] /\ rows'[c] = row
      /\ \A d \in Collector : d # c => rows'[d] = rows[d]
  BY <1>1
<1>3. \A d \in Collector : /\ rows[d].context <= rows'[d].context
                           /\ rows'[d].context <= changes' + 1
                           /\ rows'[d].context = rows[d].context =>
                                 rows'[d].progress = rows[d].progress
  BY <1>1, <1>2 DEF RInv, Links
<1>4. TypeOK'
  BY <1>1, <1>2 DEF RInv, TypeOK
<1>5. \A r \in DOMAIN runs : runs[r].context \in Nat /\ runs[r].collector \in Collector
  BY RunsTyped, Bounds DEF RInv, Run
<1>6. \A r \in DOMAIN runs : runs[r].context <= rows'[runs[r].collector].context
  BY <1>1, <1>2, <1>3, <1>5 DEF RInv, Links, Row
<1>7. Links'
  BY <1>3, <1>6 DEF RInv, Links, Attempts, Ordinary
<1>8. Budget' /\ Host'
  BY DEF RInv, Budget, Host, LiveRuns
<1>9. Waiting'
  <2>1. SUFFICES ASSUME NEW b \in DOMAIN batches
                 PROVE  Waited(b)' /\ Course(b)' /\ Awaited(b)'
    BY DEF Waiting
  <2>2. Waited(b)' /\ Course(b)'
    BY DEF RInv, Waiting, Waited, Course, Minded, Attempts
  <2>3. Awaited(b)'
    <3>1. CASE batches[b].active = None
      BY <3>1 DEF Awaited
    <3>2. CASE batches[b].active # None
      <4>1. PICK r \in DOMAIN runs : r = batches[b].active
        BY <3>2 DEF RInv, Links
      <4>2. PICK d \in Collector : d = batches[b].collector
        BY DEF RInv, TypeOK, Batch
      <4>3. runs[r].context <= rows[d].context
        BY <3>2, <4>1, <4>2 DEF RInv, Links
      <4>4. rows'[d].context = runs[r].context => rows'[d].context = rows[d].context
        BY <1>1, <1>2, <1>3, <1>5, <4>3 DEF Row
      <4>5. QED
        BY <1>3, <3>2, <4>1, <4>2, <4>4 DEF RInv, Waiting, Awaited, Minded
    <3>3. QED
      BY <3>1, <3>2
  <2>4. QED
    BY <2>2, <2>3
<1>10. QED
  BY <1>4, <1>7, <1>8, <1>9 DEF RInv

\* A new rule, requirement or policy, a retired key, a schedule switched on or off.
LEMMA EngineersKeep ==
    ASSUME RecoveryAssumption, RInv, NEW c \in Collector,
           ChangeContext(c) \/ RetireKey(c) \/ SwitchSchedule(c)
    PROVE  RInv'
<1>1. rows \in [Collector -> Row] /\ rows[c] \in Row /\ rows[c].context \in Nat
  BY Bounds DEF RInv, TypeOK, Row
<1>2. CASE ChangeContext(c)
  <2>1. PICK policy \in BOOLEAN :
           rows' = [rows EXCEPT ![c].context = @ + 1,
                      ![c].progress = IF policy THEN None ELSE @,
                      ![c].checkpoint = IF policy THEN 0 ELSE @]
    BY <1>2 DEF ChangeContext
  <2>2. PICK row1 : row1 = [rows[c] EXCEPT !.context = @ + 1]
    OBVIOUS
  <2>3. PICK row2 : row2 = [row1 EXCEPT !.progress = IF policy THEN None ELSE @]
    OBVIOUS
  <2>4. PICK row : row = [row2 EXCEPT !.checkpoint = IF policy THEN 0 ELSE @]
    OBVIOUS
  <2>5. rows' = [rows EXCEPT ![c] = row]
    BY <1>1, <2>1, <2>2, <2>3, <2>4
  <2>6. rows[c].context + 1 \in Context
    <3>1. changes \in Nat /\ changes < MaxChanges /\ MaxChanges \in Nat
      <4>1. MaxChanges \in Nat
        BY DEF RecoveryAssumption
      <4>2. changes \in 0..MaxChanges
        BY DEF RInv, TypeOK
      <4>3. changes < MaxChanges
        BY <1>2 DEF ChangeContext
      <4>4. QED
        BY <4>1, <4>2, <4>3
    <3>2. rows[c].context <= changes + 1
      BY DEF RInv, Links
    <3>3. QED
      BY <1>1, <3>1, <3>2 DEF Context
  <2>7. row1 \in Row /\ row1.context = rows[c].context + 1
    BY <1>1, <2>2, <2>6 DEF Row
  <2>8. row2 \in Row /\ row2.context = rows[c].context + 1
    BY <2>3, <2>7 DEF Row
  <2>9. 0 \in 0..MaxRuns
    BY Bounds
  <2>10. row \in Row /\ row.context = rows[c].context + 1
    BY <2>4, <2>8, <2>9 DEF Row
  <2>11. row.context # rows[c].context
    BY <1>1, <2>10
  <2>12. /\ changes < MaxChanges /\ changes' = changes + 1
         /\ now' = now /\ runs' = runs /\ batches' = batches /\ sent' = sent
    BY <1>2 DEF ChangeContext
  <2>13. QED
    BY <2>5, <2>10, <2>11, <2>12, RowStep
<1>3. CASE RetireKey(c)
  <2>1. PICK row : row = [rows[c] EXCEPT !.ready = FALSE]
    OBVIOUS
  <2>2. row \in Row /\ row.context = rows[c].context /\ row.progress = rows[c].progress
    BY <1>1, <2>1 DEF Row
  <2>3. rows' = [rows EXCEPT ![c] = row]
    BY <1>3, <2>1 DEF RetireKey
  <2>4. QED
    BY <1>3, <2>2, <2>3, RowStep DEF RetireKey
<1>4. CASE SwitchSchedule(c)
  <2>1. PICK row : row = [rows[c] EXCEPT !.scheduled = ~@]
    OBVIOUS
  <2>2. row \in Row /\ row.context = rows[c].context /\ row.progress = rows[c].progress
    BY <1>1, <2>1 DEF Row
  <2>3. rows' = [rows EXCEPT ![c] = row]
    BY <1>4, <2>1 DEF SwitchSchedule
  <2>4. QED
    BY <1>4, <2>2, <2>3, RowStep DEF SwitchSchedule
<1>5. QED
  BY <1>2, <1>3, <1>4

-----------------------------------------------------------------------------
(* New runs *)

\* What a new run is.
LEMMA NewRunIs ==
    ASSUME RecoveryAssumption, RInv, NEW c \in Collector, NEW owner \in RunId \cup {None}
    PROVE  /\ NewRun(c, owner) \in Run
           /\ NewRun(c, owner).collector = c /\ NewRun(c, owner).batch = owner
           /\ NewRun(c, owner).context = rows[c].context
           /\ NewRun(c, owner).status = "queued" /\ NewRun(c, owner).owned = FALSE
           /\ NewRun(c, owner).claims = 0
           /\ NewRun(c, owner).stop = "not_applicable"
<1>1. rows[c] \in Row
  BY DEF RInv, TypeOK
<1>2. /\ rows[c].context \in Context /\ rows[c].checkpoint \in 0..MaxRuns
      /\ rows[c].progress \in Progress \cup {None}
  BY <1>1 DEF Row
<1>3. ValidProgress(rows[c]) \in Progress \cup {None}
  BY <1>2 DEF ValidProgress
<1>4. 0 \in 0..MaxRuns /\ 0 \in Waits
  BY Bounds DEF RecoveryAssumption
<1>5. QED
  BY <1>2, <1>3, <1>4 DEF NewRun, Run

\* Each run that is not ordinary is among the attempts of a batch of one that is.
LEMMA Owned ==
    ASSUME RecoveryAssumption, RInv
    PROVE  /\ Ordinary \subseteq 1..Len(runs)
           /\ \A r \in (1..Len(runs)) \ Ordinary :
                 \E b \in Ordinary, i \in 1..MaxAttempts :
                    b \in DOMAIN batches /\ i \in 1..Len(batches[b].attempts)
                    /\ batches[b].attempts[i] = r
<1>1. Ordinary \subseteq 1..Len(runs)
  BY RunsTyped DEF RInv, Ordinary
<1>2. ASSUME NEW r \in (1..Len(runs)) \ Ordinary
      PROVE  \E b \in Ordinary, i \in 1..MaxAttempts :
                b \in DOMAIN batches /\ i \in 1..Len(batches[b].attempts)
                /\ batches[b].attempts[i] = r
  <2>1. r \in DOMAIN runs /\ runs[r].batch # None
    BY RunsTyped DEF RInv, Ordinary
  <2>2. PICK b : b = runs[r].batch
    OBVIOUS
  <2>3. b \in DOMAIN batches /\ r \in Attempts(b)
    BY <2>1, <2>2 DEF RInv, Links
  <2>4. b \in DOMAIN runs /\ runs[b].batch = None
    BY <2>3, RunsTyped DEF RInv, Links
  <2>5. batches[b].attempts \in Seq(RunId) /\ Len(batches[b].attempts) <= MaxAttempts
    BY <2>3 DEF RInv, TypeOK, Batch, Links
  <2>6. PICK i \in DOMAIN batches[b].attempts : batches[b].attempts[i] = r
    BY <2>3 DEF Attempts, ToSet
  <2>7. MaxAttempts \in Nat
    BY DEF RecoveryAssumption
  <2>8. i \in 1..Len(batches[b].attempts) /\ Len(batches[b].attempts) \in Nat
    BY <2>5, <2>6
  <2>9. i \in 1..MaxAttempts
    BY <2>5, <2>7, <2>8
  <2>10. b \in Ordinary
    BY <2>4 DEF Ordinary
  <2>11. QED
    BY <2>3, <2>6, <2>8, <2>9, <2>10
<1>3. QED
  BY <1>1, <1>2

LEMMA OrdinaryFinite ==
    ASSUME RecoveryAssumption, RInv
    PROVE  IsFiniteSet(Ordinary) /\ Cardinality(Ordinary) \in Nat
<1>1. PICK n \in Nat : n = Len(runs)
  BY RunsTyped DEF RInv
<1>2. IsFiniteSet(1..n)
  BY FS_Interval
<1>3. Ordinary \subseteq 1..n
  BY <1>1, Owned
<1>4. QED
  BY <1>2, <1>3, FS_Subset, FS_CardinalityType

\* There is room for a run of anybody, and for the next one of a batch.
LEMMA RoomForOrdinary ==
    ASSUME RecoveryAssumption, RInv, Cardinality(Ordinary) < MaxOrdinary
    PROVE  Len(runs) + 1 <= MaxRuns
<1>1. PICK n \in Nat : n = Len(runs)
  BY RunsTyped DEF RInv
<1>2. PICK O : O = Ordinary
  OBVIOUS
<1>3. PICK k \in Nat : k = MaxAttempts
  BY DEF RecoveryAssumption
<1>4. PICK F : F = [p \in O \X (1..k) |-> batches[p[1]].attempts[p[2]]]
  OBVIOUS
<1>5. Covers(F, n, O, k)
  <2>1. SUFFICES ASSUME NEW r \in (1..n) \ O
                 PROVE  \E p \in O \X (1..k) : F[p] = r
    BY <1>1, <1>2, Owned DEF Covers
  <2>2. PICK b \in O, i \in 1..k : batches[b].attempts[i] = r
    BY <1>1, <1>2, <1>3, <2>1, Owned
  <2>3. <<b, i>> \in O \X (1..k) /\ F[<<b, i>>] = r
    BY <1>4, <2>2
  <2>4. QED
    BY <2>3
<1>6. Cardinality(O) \in Nat
  BY <1>2, OrdinaryFinite
<1>7. PICK m \in Nat : m + 1 = MaxOrdinary
  <2>1. MaxOrdinary - 1 \in Nat /\ (MaxOrdinary - 1) + 1 = MaxOrdinary
    BY DEF RecoveryAssumption
  <2>2. QED
    BY <2>1
<1>8. Cardinality(O) <= m
  BY <1>2, <1>6, <1>7
<1>9. n <= m * (k + 1)
  BY <1>5, <1>8, RunCount
<1>10. MaxRuns = m * (k + 1) + (k + 1) /\ m * (k + 1) \in Nat
  BY <1>3, <1>7, Products DEF MaxRuns
<1>11. QED
  BY <1>1, <1>9, <1>10

LEMMA RoomForAttempt ==
    ASSUME RecoveryAssumption, RInv, NEW b \in DOMAIN batches, ~Spent(batches[b])
    PROVE  Len(runs) + 1 <= MaxRuns
<1>1. PICK n \in Nat : n = Len(runs) + 1
  BY RunsTyped DEF RInv
<1>2. PICK O : O = Ordinary
  OBVIOUS
<1>3. PICK k \in Nat : k = MaxAttempts
  BY DEF RecoveryAssumption
<1>4. PICK j \in 1..k : j = Len(batches[b].attempts) + 1
  <2>1. Len(batches[b].attempts) \in Nat
    BY DEF RInv, TypeOK, Batch
  <2>2. QED
    BY <1>3, <2>1 DEF Spent
<1>5. PICK F : F = [p \in O \X (1..k) |->
                      IF p = <<b, j>> THEN n ELSE batches[p[1]].attempts[p[2]]]
  OBVIOUS
<1>6. b \in O
  BY <1>2, RunsTyped DEF RInv, Links, Ordinary
<1>7. Covers(F, n, O, k)
  <2>1. O \subseteq 1..n
    BY <1>1, <1>2, Owned
  <2>2. SUFFICES ASSUME NEW r \in (1..n) \ O
                 PROVE  \E p \in O \X (1..k) : F[p] = r
    BY <2>1 DEF Covers
  <2>3. CASE r = n
    <3>1. <<b, j>> \in O \X (1..k) /\ F[<<b, j>>] = n
      BY <1>4, <1>5, <1>6
    <3>2. QED
      BY <2>3, <3>1
  <2>4. CASE r # n
    <3>1. r \in (1..Len(runs)) \ O
      BY <1>1, <2>2, <2>4
    <3>2. PICK d \in O, i \in 1..k : /\ d \in DOMAIN batches
                                     /\ i \in 1..Len(batches[d].attempts)
                                     /\ batches[d].attempts[i] = r
      BY <1>2, <1>3, <3>1, Owned
    <3>3. <<d, i>> # <<b, j>>
      <4>1. Len(batches[b].attempts) \in Nat
        BY DEF RInv, TypeOK, Batch
      <4>2. QED
        BY <1>4, <3>2, <4>1
    <3>4. <<d, i>> \in O \X (1..k) /\ F[<<d, i>>] = r
      BY <1>5, <3>2, <3>3
    <3>5. QED
      BY <3>4
  <2>5. QED
    BY <2>3, <2>4
<1>8. PICK m \in Nat : m = MaxOrdinary
  BY DEF RecoveryAssumption
<1>9. Cardinality(O) <= m
  BY <1>2, <1>8 DEF RInv, Links
<1>10. n <= m * (k + 1)
  BY <1>7, <1>9, RunCount
<1>11. QED
  BY <1>1, <1>3, <1>8, <1>10 DEF MaxRuns

\* A run of anybody: no batch is active and none makes the host wait.
LEMMA CreateKeeps ==
    ASSUME RecoveryAssumption, RInv, NEW c \in Collector, CreateRun(c)
    PROVE  RInv'
<1>1. PICK run : run = NewRun(c, None)
  OBVIOUS
<1>2. PICK n : n = Len(runs) + 1
  OBVIOUS
<1>3. /\ run \in Run /\ run.collector = c /\ run.batch = None
      /\ run.context = rows[c].context /\ run.status = "queued"
      /\ run.stop = "not_applicable"
  <2>1. None \in RunId \cup {None}
    OBVIOUS
  <2>2. QED
    BY <1>1, <2>1, NewRunIs
<1>4. /\ runs' = Append(runs, run) /\ Cardinality(Ordinary) < MaxOrdinary
      /\ now' = now /\ rows' = rows /\ batches' = batches /\ sent' = sent
      /\ changes' = changes /\ ~Reserved(None)
  BY <1>1 DEF CreateRun, CanCreateRun, Ordinary
<1>5. /\ runs' \in Seq(Run) /\ Len(runs') = n /\ n \notin DOMAIN runs
      /\ DOMAIN runs' = DOMAIN runs \cup {n} /\ runs'[n] = run
      /\ \A r \in DOMAIN runs : runs'[r] = runs[r]
  BY <1>2, <1>3, <1>4, Appended, RunsTyped DEF RInv, TypeOK
<1>6. TypeOK'
  BY <1>2, <1>4, <1>5, RoomForOrdinary DEF RInv, TypeOK
<1>7. \A b \in DOMAIN batches :
         /\ b \in DOMAIN runs /\ b # None
         /\ batches[b].status \notin Active
         /\ batches[b].notBefore # None => batches[b].notBefore <= now
         /\ batches[b].active = None
         /\ \A r \in Attempts(b) : r \in DOMAIN runs
  <2>1. \A b \in DOMAIN batches :
           /\ b \in DOMAIN runs /\ b # None /\ b \in DOMAIN batches \ {None}
           /\ \A r \in Attempts(b) : r \in DOMAIN runs
    BY RunsTyped DEF RInv, Links
  <2>2. now \in Nat /\ \A b \in DOMAIN batches :
           batches[b].notBefore # None => batches[b].notBefore \in Nat
    BY DEF RInv, TypeOK, Batch, RecoveryAssumption
  <2>3. \A b \in DOMAIN batches :
           /\ batches[b].status \notin Active
           /\ batches[b].notBefore # None => batches[b].notBefore <= now
    BY <1>4, <2>1, <2>2 DEF Reserved
  <2>4. QED
    BY <2>1, <2>3 DEF RInv, TypeOK, Active
<1>8. Links'
  <2>1. Ordinary' = Ordinary \cup {n}
    BY <1>3, <1>5 DEF Ordinary
  <2>2. Cardinality(Ordinary') <= MaxOrdinary
    <3>1. IsFiniteSet(Ordinary) /\ Cardinality(Ordinary) \in Nat
      BY OrdinaryFinite
    <3>2. Cardinality(Ordinary \cup {n}) <= Cardinality(Ordinary) + 1
      BY <3>1, FS_AddElement
    <3>3. Cardinality(Ordinary \cup {n}) \in Nat /\ MaxOrdinary \in Nat
      BY <3>1, FS_AddElement, FS_CardinalityType DEF RecoveryAssumption
    <3>4. QED
      BY <1>4, <2>1, <3>1, <3>2, <3>3
  <2>3. rows[c].context <= rows[c].context
    BY Bounds DEF RInv, TypeOK, Row
  <2>4. \A b : Attempts(b)' = Attempts(b)
    BY <1>4 DEF Attempts
  <2>5. \A r \in DOMAIN runs' :
           /\ runs'[r].context <= rows[runs'[r].collector].context
           /\ runs'[r].status \in Live => runs'[r].stop = "not_applicable"
           /\ runs'[r].batch # None =>
                 runs'[r].batch \in DOMAIN batches /\ r \in Attempts(runs[r].batch)
    BY <1>3, <1>5, <2>3 DEF RInv, Links
  <2>6. \A b \in DOMAIN batches :
           /\ runs'[b].batch = None /\ runs'[b].status \notin Live
           /\ \A r \in Attempts(b) : r \in DOMAIN runs' /\ runs'[r].batch = b
    BY <1>5, <1>7 DEF RInv, Links
  <2>7. \A r \in DOMAIN runs' :
           runs'[r].batch # None => runs'[r].batch = runs[r].batch
    BY <1>3, <1>5
  <2>8. QED
    BY <1>4, <1>7, <2>2, <2>4, <2>5, <2>6, <2>7 DEF RInv, Links
<1>9. Budget'
  BY <1>4, <1>7 DEF RInv, Budget
<1>10. Host'
  BY <1>4, <1>5, <1>3, <1>7 DEF RInv, Host, LiveRuns
<1>11. Waiting'
  <2>1. \A b \in DOMAIN batches : Course(b)' /\ Awaited(b)'
    BY <1>4, <1>7 DEF RInv, Waiting, Course, Awaited, Minded
  <2>2. \A b \in DOMAIN batches : Waited(b)'
    BY <1>4, <1>5, <1>7 DEF RInv, Waiting, Waited, Minded, Attempts
  <2>3. QED
    BY <1>4, <2>1, <2>2 DEF Waiting
<1>12. QED
  BY <1>6, <1>8, <1>9, <1>10, <1>11 DEF RInv

-----------------------------------------------------------------------------
(* Stopping a batch *)

\* The operation of a run under way is asked to cancel; nothing else changes.
LEMMA CancelIs ==
    ASSUME RecoveryAssumption, RInv, NEW batch, runs' = CancelOf(batch)
    PROVE  /\ runs' \in Seq(Run) /\ Len(runs') = Len(runs) /\ DOMAIN runs' = DOMAIN runs
           /\ LiveRuns' = LiveRuns
           /\ \A r \in DOMAIN runs :
                 /\ runs'[r].collector = runs[r].collector
                 /\ runs'[r].batch = runs[r].batch /\ runs'[r].context = runs[r].context
                 /\ runs'[r].status = runs[r].status /\ runs'[r].stop = runs[r].stop
                 /\ runs'[r].owned = runs[r].owned /\ runs'[r].claims = runs[r].claims
                 /\ runs'[r].before = runs[r].before /\ runs'[r].after = runs[r].after
                 /\ runs'[r].ended = runs[r].ended /\ runs'[r].wait = runs[r].wait
                 /\ runs[r].cancel => runs'[r].cancel
                 /\ r = batch.active /\ r \in LiveRuns => runs'[r].cancel
<1>1. DOMAIN runs = 1..Len(runs) /\ Len(runs) \in Nat /\ \A r \in DOMAIN runs : runs[r] \in Run
  BY RunsTyped DEF RInv
<1>2. /\ DOMAIN runs' = DOMAIN runs
      /\ \A r \in DOMAIN runs : \/ runs'[r] = [runs[r] EXCEPT !.cancel = TRUE]
                                \/ runs'[r] = runs[r] /\ ~(r = batch.active /\ r \in LiveRuns)
  BY DEF CancelOf
<1>3. ASSUME NEW r \in DOMAIN runs
      PROVE  /\ runs'[r] \in Run
             /\ runs'[r].collector = runs[r].collector
             /\ runs'[r].batch = runs[r].batch /\ runs'[r].context = runs[r].context
             /\ runs'[r].status = runs[r].status /\ runs'[r].stop = runs[r].stop
             /\ runs'[r].owned = runs[r].owned /\ runs'[r].claims = runs[r].claims
             /\ runs'[r].before = runs[r].before /\ runs'[r].after = runs[r].after
             /\ runs'[r].ended = runs[r].ended /\ runs'[r].wait = runs[r].wait
             /\ runs[r].cancel => runs'[r].cancel
             /\ r = batch.active /\ r \in LiveRuns => runs'[r].cancel
  <2>1. runs[r] \in Run
    BY <1>1
  <2>2. CASE runs'[r] = [runs[r] EXCEPT !.cancel = TRUE]
    BY <2>1, <2>2 DEF Run
  <2>3. CASE runs'[r] = runs[r] /\ ~(r = batch.active /\ r \in LiveRuns)
    BY <2>1, <2>3
  <2>4. QED
    BY <1>2, <2>2, <2>3
<1>4. runs' = [r \in 1..Len(runs) |-> runs'[r]]
  BY <1>1 DEF CancelOf
<1>5. runs' \in [1..Len(runs) -> Run]
  BY <1>1, <1>3, <1>4
<1>6. runs' \in Seq(Run)
  BY <1>1, <1>5
<1>7. Len(runs') = Len(runs)
  BY <1>1, <1>5, <1>6
<1>8. LiveRuns' = LiveRuns
  BY <1>2, <1>3 DEF LiveRuns
<1>9. QED
  BY <1>2, <1>3, <1>6, <1>7, <1>8

\* A batch is stopped, or waits for the end of its run to be.
LEMMA StopStep ==
    ASSUME RecoveryAssumption, RInv, NEW b \in DOMAIN batches, NEW batch \in Batch,
           batches' = [batches EXCEPT ![b] = batch], runs' = CancelOf(batches[b]),
           now' = now, rows' = rows, sent' = sent,
           changes' \in 0..MaxChanges, changes <= changes',
           batches[b].status \in Active,
           batch.collector = batches[b].collector, batch.attempts = batches[b].attempts,
           batch.active = batches[b].active, batch.reserved = batches[b].reserved,
           batch.notBefore = batches[b].notBefore, batch.next = None,
           batch.status = IF batch.active = None THEN "cancelled" ELSE "cancelling",
           batch.reason # "context_changed",
           batch.reason = "cancel_requested" => batch.cancel,
           Minded(batch) => Minded(batches[b]) /\ batches[b].active \in LiveRuns
    PROVE  RInv'
<1>1. /\ DOMAIN batches' = DOMAIN batches /\ batches'[b] = batch
      /\ \A d \in DOMAIN batches : d # b => batches'[d] = batches[d]
  OBVIOUS
<1>2. /\ runs' \in Seq(Run) /\ Len(runs') = Len(runs) /\ DOMAIN runs' = DOMAIN runs
      /\ LiveRuns' = LiveRuns
      /\ \A r \in DOMAIN runs :
            /\ runs'[r].collector = runs[r].collector
            /\ runs'[r].batch = runs[r].batch /\ runs'[r].context = runs[r].context
            /\ runs'[r].status = runs[r].status /\ runs'[r].stop = runs[r].stop
            /\ runs'[r].owned = runs[r].owned /\ runs'[r].claims = runs[r].claims
            /\ runs'[r].before = runs[r].before /\ runs'[r].after = runs[r].after
            /\ runs'[r].ended = runs[r].ended /\ runs'[r].wait = runs[r].wait
            /\ runs[r].cancel => runs'[r].cancel
            /\ r = batches[b].active /\ r \in LiveRuns => runs'[r].cancel
  BY CancelIs
<1>3. \A d \in DOMAIN batches :
         /\ batches'[d].collector = batches[d].collector
         /\ batches'[d].attempts = batches[d].attempts
         /\ batches'[d].active = batches[d].active
         /\ batches'[d].reserved = batches[d].reserved
         /\ batches'[d].notBefore = batches[d].notBefore
         /\ Attempts(d)' = Attempts(d)
  BY <1>1 DEF Attempts
<1>4. \A d \in DOMAIN batches : d \in DOMAIN runs /\ \A r \in Attempts(d) : r \in DOMAIN runs
  BY RunsTyped DEF RInv, Links
<1>5. TypeOK'
  <2>1. \A d \in DOMAIN batches' :
           /\ batches'[d] \in Batch
           /\ batches'[d].next # None <=> batches'[d].status = "cooling_down"
           /\ batches'[d].active # None <=> batches'[d].status \in {"running", "cancelling"}
    BY <1>1 DEF RInv, TypeOK
  <2>2. QED
    BY <1>1, <1>2, <2>1 DEF RInv, TypeOK
<1>6. Links'
  <2>1. Ordinary' = Ordinary
    BY <1>2 DEF Ordinary
  <2>2. \A c \in Collector : rows[c].context <= changes' + 1
    <3>1. /\ changes \in Nat /\ changes' \in Nat
          /\ \A c \in Collector : rows[c].context \in Nat /\ rows[c].context <= changes + 1
      BY Bounds DEF RInv, TypeOK, Row, Links, RecoveryAssumption
    <3>2. QED
      BY <3>1
  <2>3. \A r \in DOMAIN runs :
           /\ runs'[r].context <= rows[runs'[r].collector].context
           /\ runs'[r].status \in Live => runs'[r].stop = "not_applicable"
           /\ runs'[r].batch # None =>
                 runs'[r].batch \in DOMAIN batches /\ r \in Attempts(runs[r].batch)'
    BY <1>2, <1>3 DEF RInv, Links
  <2>4. ASSUME NEW d \in DOMAIN batches
        PROVE  /\ runs'[d].batch = None /\ runs'[d].status \notin Live
               /\ \A r \in Attempts(d)' : r \in DOMAIN runs' /\ runs'[r].batch = d
               /\ Len(batches'[d].attempts) <= MaxAttempts
               /\ batches'[d].active # None =>
                     /\ batches'[d].active \in Attempts(d)'
                     /\ runs'[batches'[d].active].collector = batches'[d].collector
    <3>1. /\ runs[d].batch = None /\ runs[d].status \notin Live
          /\ \A r \in Attempts(d) : r \in DOMAIN runs /\ runs[r].batch = d
          /\ Len(batches[d].attempts) <= MaxAttempts
          /\ batches[d].active # None =>
                /\ batches[d].active \in Attempts(d)
                /\ runs[batches[d].active].collector = batches[d].collector
      BY DEF RInv, Links
    <3>2. d \in DOMAIN runs /\ Attempts(d)' = Attempts(d)
      BY <1>3, <1>4
    <3>3. \A r \in Attempts(d) : r \in DOMAIN runs' /\ runs'[r].batch = d
      BY <1>2, <3>1
    <3>4. ASSUME batches[d].active # None
          PROVE  runs'[batches[d].active].collector = batches[d].collector
      BY <1>2, <3>1, <3>4
    <3>5. QED
      BY <1>2, <1>3, <3>1, <3>2, <3>3, <3>4
  <2>5. \A r \in DOMAIN runs : runs'[r].batch = runs[r].batch
    BY <1>2
  <2>6. QED
    BY <1>1, <1>2, <2>1, <2>2, <2>3, <2>4, <2>5 DEF RInv, Links
<1>7. Budget'
  <2>1. \A d \in DOMAIN batches : batches[d].active # None =>
           runs'[batches[d].active].claims = runs[batches[d].active].claims
    BY <1>2, <1>4 DEF RInv, Links
  <2>2. QED
    BY <1>1, <1>3, <2>1 DEF RInv, Budget
<1>8. Host'
  <2>1. SUFFICES ASSUME NEW r \in LiveRuns
                 PROVE  /\ runs'[r].batch # None => batches'[runs[r].batch].active = r
                        /\ \A d \in DOMAIN batches : d # runs'[r].batch =>
                              /\ batches'[d].status \notin Active
                              /\ batches'[d].notBefore # None => batches'[d].notBefore <= now
    <3>1. \A r \in LiveRuns : runs'[r].batch = runs[r].batch
      BY <1>2 DEF LiveRuns
    <3>2. QED
      BY <1>1, <1>2, <3>1 DEF Host
  <2>2. runs'[r].batch = runs[r].batch
    BY <1>2, LiveRun
  <2>3. runs[r].batch # None => runs[r].batch \in DOMAIN batches /\ batches[runs[r].batch].active = r
    BY LiveRun
  <2>4. b = runs[r].batch
    BY DEF RInv, Host
  <2>5. QED
    BY <1>1, <1>3, <2>2, <2>3, <2>4 DEF RInv, Host
<1>9. Waiting'
  <2>1. SUFFICES ASSUME NEW d \in DOMAIN batches
                 PROVE  Waited(d)' /\ Course(d)' /\ Awaited(d)'
    BY <1>1 DEF Waiting
  <2>2. Minded(batches'[d]) => Minded(batches[d])
    BY <1>1
  <2>3. Waited(d)'
    <3>1. SUFFICES ASSUME Minded(batches'[d]), NEW q \in {d} \cup Attempts(d),
                          q # batches[d].active, runs'[q].stop = "source_rate_limited"
                   PROVE  \/ runs'[q].ended + runs'[q].wait <= now
                          \/ /\ batches[d].notBefore # None
                             /\ runs'[q].ended + runs'[q].wait <= batches[d].notBefore
      BY <1>3 DEF Waited, Minded
    <3>2. q \in DOMAIN runs
      BY <1>4
    <3>3. QED
      BY <1>2, <2>2, <3>1, <3>2 DEF RInv, Waiting, Waited
  <2>4. CASE d = b
    <3>1. Course(d)'
      BY <1>1, <2>4 DEF Course, Minded
    <3>2. CASE batch.active = None
      BY <1>1, <2>4, <3>1, <3>2, <2>3 DEF Awaited
    <3>3. CASE batch.active # None
      <4>1. PICK r \in DOMAIN runs : r = batch.active
        BY <1>4, <3>3 DEF RInv, Links
      <4>2. batches[b].active # None /\ batches[b].active = r
        BY <3>3, <4>1
      <4>3. runs[r].stop = "source_rate_limited" =>
               /\ runs[r].after = runs[r].before
               /\ rows[batches[b].collector].context = runs[r].context =>
                     rows[batches[b].collector].progress = runs[r].after
        BY <4>2 DEF RInv, Waiting, Awaited
      <4>4. Minded(batch) => r \in LiveRuns /\ runs[r].stop = "not_applicable"
        BY <4>2, LiveRun
      <4>5. runs'[r].stop = "source_rate_limited" =>
               /\ runs'[r].after = runs'[r].before
               /\ rows[batch.collector].context = runs'[r].context =>
                     rows[batch.collector].progress = runs'[r].after
        BY <1>2, <4>3
      <4>6. Minded(batch) => runs'[r].stop = "not_applicable" /\ runs'[r].cancel
        BY <1>2, <4>2, <4>4
      <4>7. Awaited(d)'
        BY <1>1, <2>4, <4>1, <4>5, <4>6 DEF Awaited
      <4>8. QED
        BY <2>3, <3>1, <4>7
    <3>4. QED
      BY <3>2, <3>3
  <2>5. CASE d # b
    <3>1. Course(d)'
      BY <1>1, <2>5 DEF RInv, Waiting, Course, Minded
    <3>2. CASE batches[d].active = None
      BY <1>1, <2>5, <3>1, <3>2, <2>3 DEF Awaited
    <3>3. CASE batches[d].active # None
      <4>1. PICK r \in DOMAIN runs : r = batches[d].active
        BY <1>4, <3>3 DEF RInv, Links
      <4>2. Awaited(d)
        BY DEF RInv, Waiting
      <4>3. Awaited(d)'
        BY <1>1, <1>2, <2>5, <3>3, <4>1, <4>2 DEF Awaited, Minded
      <4>4. QED
        BY <2>3, <3>1, <4>3
    <3>4. QED
      BY <3>2, <3>3
  <2>6. QED
    BY <2>4, <2>5
<1>10. QED
  BY <1>5, <1>6, <1>7, <1>8, <1>9 DEF RInv

\* An engineer stops a batch: nobody minds any more what the source asked of it.
LEMMA RequestKeeps ==
    ASSUME RecoveryAssumption, RInv, NEW b \in DOMAIN batches, RequestStop(b)
    PROVE  RInv'
<1>1. batches[b] \in Batch /\ batches[b].status \in Active
  BY DEF RInv, TypeOK, RequestStop
<1>2. changes' \in 0..MaxChanges /\ changes <= changes'
  BY DEF RequestStop, RInv, TypeOK, RecoveryAssumption
<1>3. PICK batch1 : batch1 = [batches[b] EXCEPT !.cancel = TRUE]
  OBVIOUS
<1>4. PICK over \in {"cancelled", "cancelling"} :
         over = IF batches[b].active = None THEN "cancelled" ELSE "cancelling"
  OBVIOUS
<1>5. PICK batch2 : batch2 = [batch1 EXCEPT !.status = over, !.reason = "cancel_requested"]
  OBVIOUS
<1>6. PICK batch : batch = [batch2 EXCEPT !.next = None]
  OBVIOUS
<1>7. batch = Cancelled(batches[b])
  BY <1>3, <1>4, <1>5, <1>6 DEF Cancelled
<1>8. /\ batch1 \in Batch /\ batch1.collector = batches[b].collector
      /\ batch1.attempts = batches[b].attempts /\ batch1.active = batches[b].active
      /\ batch1.reserved = batches[b].reserved /\ batch1.notBefore = batches[b].notBefore
      /\ batch1.cancel = TRUE
  BY <1>1, <1>3 DEF Batch
<1>9. /\ batch2 \in Batch /\ batch2.collector = batches[b].collector
      /\ batch2.attempts = batches[b].attempts /\ batch2.active = batches[b].active
      /\ batch2.reserved = batches[b].reserved /\ batch2.notBefore = batches[b].notBefore
      /\ batch2.cancel = TRUE /\ batch2.status = over /\ batch2.reason = "cancel_requested"
  BY <1>5, <1>8 DEF Batch, Reason
<1>10. /\ batch \in Batch /\ batch.collector = batches[b].collector
       /\ batch.attempts = batches[b].attempts /\ batch.active = batches[b].active
       /\ batch.reserved = batches[b].reserved /\ batch.notBefore = batches[b].notBefore
       /\ batch.cancel = TRUE /\ batch.status = over /\ batch.reason = "cancel_requested"
       /\ batch.next = None
  BY <1>6, <1>9 DEF Batch
<1>11. batches' = [batches EXCEPT ![b] = batch]
  BY <1>7 DEF RequestStop
<1>12. /\ ~Minded(batch) /\ batch.reason # "context_changed"
       /\ batch.status = IF batch.active = None THEN "cancelled" ELSE "cancelling"
  BY <1>4, <1>10 DEF Minded
<1>13. /\ runs' = CancelOf(batches[b]) /\ now' = now /\ rows' = rows /\ sent' = sent
  BY DEF RequestStop
<1>14. QED
  BY <1>1, <1>2, <1>10, <1>11, <1>12, <1>13, StopStep

\* The deadline has passed, or the batch was stopped: the run is asked to cancel.
LEMMA RunningKeeps ==
    ASSUME RecoveryAssumption, RInv, NEW b \in DOMAIN batches, TickRunning(b)
    PROVE  RInv'
<1>1. batches[b] \in Batch /\ batches[b].active \in LiveRuns /\ batches[b].active # None
  BY LiveRun DEF RInv, TypeOK, TickRunning
<1>2. batches[b].status \in {"running", "cancelling"} /\ batches[b].next = None
  BY <1>1 DEF RInv, TypeOK
<1>3. PICK why \in {"cancel_requested", "deadline_reached"} :
         why = IF batches[b].cancel THEN "cancel_requested" ELSE "deadline_reached"
  OBVIOUS
<1>4. PICK batch : batch = [batches[b] EXCEPT !.status = "cancelling", !.reason = why]
  OBVIOUS
<1>5. batches' = [batches EXCEPT ![b] = batch]
  BY <1>3, <1>4 DEF TickRunning
<1>6. /\ batch \in Batch /\ batch.collector = batches[b].collector
      /\ batch.attempts = batches[b].attempts /\ batch.active = batches[b].active
      /\ batch.reserved = batches[b].reserved /\ batch.notBefore = batches[b].notBefore
      /\ batch.cancel = batches[b].cancel /\ batch.status = "cancelling"
      /\ batch.reason = why /\ batch.next = None
  BY <1>1, <1>2, <1>4 DEF Batch, Reason
<1>7. Minded(batch) => Minded(batches[b])
  <2>1. Minded(batch) => ~batches[b].cancel
    BY <1>3, <1>6 DEF Minded
  <2>2. batches[b].reason = "cancel_requested" => batches[b].cancel
    BY DEF RInv, Waiting, Course
  <2>3. batches[b].reason # "context_changed"
    BY <1>2 DEF RInv, Waiting, Course, Minded
  <2>4. QED
    BY <2>1, <2>2, <2>3 DEF Minded
<1>8. /\ batch.reason # "context_changed"
      /\ batch.reason = "cancel_requested" => batch.cancel
      /\ batch.status = IF batch.active = None THEN "cancelled" ELSE "cancelling"
      /\ batches[b].status \in Active
  BY <1>1, <1>2, <1>3, <1>6 DEF Active
<1>9. /\ runs' = CancelOf(batches[b]) /\ now' = now /\ rows' = rows /\ sent' = sent
      /\ changes' \in 0..MaxChanges /\ changes <= changes'
  BY DEF TickRunning, RInv, TypeOK, RecoveryAssumption
<1>10. QED
  BY <1>1, <1>5, <1>6, <1>7, <1>8, <1>9, StopStep

-----------------------------------------------------------------------------
(* Waiting *)

\* A batch keeps what the run was told to wait, whether it goes on or ends.
LEMMA CoolIs ==
    ASSUME RecoveryAssumption, NEW batch \in Batch, NEW run \in Run, NEW cooled,
           cooled = Cool(batch, run), batch.active = None
    PROVE  /\ cooled \in Batch /\ cooled.collector = batch.collector
           /\ cooled.attempts = batch.attempts /\ cooled.active = None
           /\ cooled.reserved = batch.reserved /\ cooled.cancel = batch.cancel
           /\ cooled.notBefore # None /\ run.ended + run.wait <= cooled.notBefore
           /\ \/ /\ cooled.status = "cooling_down"
                 /\ cooled.reason = "source_rate_limited"
                 /\ cooled.next = cooled.notBefore
              \/ /\ cooled.status = "needs_attention"
                 /\ cooled.reason \in {"attempt_limit", "server_wait_exceeds_deadline"}
                 /\ cooled.next = None
<1>1. PICK n \in Nat : n = Len(batch.attempts)
  BY DEF Batch
<1>2. run.ended \in Nat /\ run.wait \in Nat
  BY Bounds DEF Run
<1>3. PICK delay \in Nat : delay = Delays[Min({n + 1, Len(Delays)})]
  <2>1. Delays \in Seq(Nat) /\ Delays # <<>>
    BY DEF RecoveryAssumption
  <2>2. Len(Delays) \in Nat /\ Len(Delays) >= 1 /\ DOMAIN Delays = 1..Len(Delays)
    BY <2>1
  <2>3. n + 1 \in Nat /\ n + 1 >= 1
    BY <1>1
  <2>4. /\ Min({n + 1, Len(Delays)}) \in {n + 1, Len(Delays)}
        /\ Min({n + 1, Len(Delays)}) <= Len(Delays)
    BY <2>2, <2>3, OfTwo
  <2>5. Min({n + 1, Len(Delays)}) \in 1..Len(Delays)
    BY <2>2, <2>3, <2>4
  <2>6. Delays[Min({n + 1, Len(Delays)})] \in Nat
    BY <2>1, <2>2, <2>5
  <2>7. QED
    BY <2>6
<1>4. PICK due \in Nat : /\ due = run.ended + Max({delay, run.wait})
                         /\ run.ended + run.wait <= due
  <2>1. Max({delay, run.wait}) \in {delay, run.wait} /\ run.wait <= Max({delay, run.wait})
    BY <1>2, <1>3, OfTwo
  <2>2. /\ run.ended + Max({delay, run.wait}) \in Nat
        /\ run.ended + run.wait <= run.ended + Max({delay, run.wait})
    BY <1>2, <1>3, <2>1
  <2>3. QED
    BY <2>2
<1>5. PICK waiting : waiting = [batch EXCEPT !.notBefore = due]
  OBVIOUS
<1>6. /\ waiting \in Batch /\ waiting.collector = batch.collector
      /\ waiting.attempts = batch.attempts /\ waiting.active = None
      /\ waiting.reserved = batch.reserved /\ waiting.cancel = batch.cancel
      /\ waiting.notBefore = due
  BY <1>4, <1>5 DEF Batch
<1>7. due # None
  BY <1>4, Bounds
<1>8. ASSUME NEW reason \in {"attempt_limit", "server_wait_exceeds_deadline"},
             cooled = [waiting EXCEPT !.status = "needs_attention",
                                      !.reason = reason, !.next = None]
      PROVE  /\ cooled \in Batch /\ cooled.collector = batch.collector
             /\ cooled.attempts = batch.attempts /\ cooled.active = None
             /\ cooled.reserved = batch.reserved /\ cooled.cancel = batch.cancel
             /\ cooled.notBefore = due /\ cooled.status = "needs_attention"
             /\ cooled.reason = reason /\ cooled.next = None
  <2>1. PICK over : over = [waiting EXCEPT !.status = "needs_attention", !.reason = reason]
    OBVIOUS
  <2>2. cooled = [over EXCEPT !.next = None]
    BY <1>8, <2>1
  <2>3. /\ over \in Batch /\ over.collector = batch.collector
        /\ over.attempts = batch.attempts /\ over.active = None
        /\ over.reserved = batch.reserved /\ over.cancel = batch.cancel
        /\ over.notBefore = due /\ over.status = "needs_attention" /\ over.reason = reason
    BY <1>6, <2>1 DEF Batch, Reason
  <2>4. QED
    BY <2>2, <2>3 DEF Batch
<1>9. ASSUME cooled = [waiting EXCEPT !.status = "cooling_down",
                                      !.reason = "source_rate_limited", !.next = due]
      PROVE  /\ cooled \in Batch /\ cooled.collector = batch.collector
             /\ cooled.attempts = batch.attempts /\ cooled.active = None
             /\ cooled.reserved = batch.reserved /\ cooled.cancel = batch.cancel
             /\ cooled.notBefore = due /\ cooled.status = "cooling_down"
             /\ cooled.reason = "source_rate_limited" /\ cooled.next = due
  <2>1. PICK again : again = [waiting EXCEPT !.status = "cooling_down",
                                             !.reason = "source_rate_limited"]
    OBVIOUS
  <2>2. cooled = [again EXCEPT !.next = due]
    BY <1>9, <2>1
  <2>3. /\ again \in Batch /\ again.collector = batch.collector
        /\ again.attempts = batch.attempts /\ again.active = None
        /\ again.reserved = batch.reserved /\ again.cancel = batch.cancel
        /\ again.notBefore = due /\ again.status = "cooling_down"
        /\ again.reason = "source_rate_limited"
    BY <1>6, <2>1 DEF Batch, Reason
  <2>4. QED
    BY <1>4, <2>2, <2>3 DEF Batch
<1>10. \/ \E reason \in {"attempt_limit", "server_wait_exceeds_deadline"} :
             cooled = [waiting EXCEPT !.status = "needs_attention",
                                      !.reason = reason, !.next = None]
       \/ cooled = [waiting EXCEPT !.status = "cooling_down",
                                   !.reason = "source_rate_limited", !.next = due]
  BY <1>1, <1>3, <1>4, <1>5 DEF Cool
<1>11. QED
  BY <1>4, <1>7, <1>8, <1>9, <1>10

\* A new batch waits as the run it was created for was told to.
LEMMA StartKeeps ==
    ASSUME RecoveryAssumption, RInv, NEW r \in DOMAIN runs, StartBatch(r)
    PROVE  RInv'
<1>1. /\ r \notin DOMAIN batches /\ runs[r].batch = None /\ runs[r].status = "failed"
      /\ LiveRuns = {}
      /\ now' = now /\ rows' = rows /\ runs' = runs /\ sent' = sent /\ changes' = changes
      /\ batches' = [b \in DOMAIN batches \cup {r} |->
                       IF b = r THEN NewBatch(r) ELSE batches[b]]
      /\ rows[runs[r].collector].progress # None
  BY DEF StartBatch
<1>2. r \in RunId /\ runs[r] \in Run /\ now \in Nat
  BY RunsTyped DEF RInv, TypeOK, RecoveryAssumption
<1>3. PICK c \in Collector : c = runs[r].collector
  BY <1>2 DEF Run
<1>4. PICK row \in Row : row = rows[c]
  BY DEF RInv, TypeOK
<1>5. PICK seed : seed =
         [collector |-> c, status |-> "cooling_down",
          reason |-> "source_rate_limited", expires |-> now + Lifetime,
          next |-> None, notBefore |-> None, attempts |-> <<>>, active |-> None,
          reserved |-> 0, cancel |-> FALSE, context |-> row.context,
          progress |-> row.progress, checkpoint |-> row.checkpoint]
  OBVIOUS
<1>6. seed \in Batch /\ seed.active = None
  <2>1. /\ row.context \in Context /\ row.progress \in Progress
        /\ row.checkpoint \in 0..MaxRuns
    BY <1>1, <1>3, <1>4 DEF Row
  <2>2. now + Lifetime \in Nat /\ <<>> \in Seq(RunId)
    BY <1>2 DEF RecoveryAssumption
  <2>3. QED
    BY <1>5, <2>1, <2>2 DEF Batch, Reason
<1>7. PICK batch : batch = NewBatch(r)
  OBVIOUS
<1>8. batch = Cool(seed, runs[r])
  BY <1>3, <1>4, <1>5, <1>7 DEF NewBatch
<1>9. /\ batch \in Batch /\ batch.attempts = <<>> /\ batch.active = None
      /\ batch.reserved = 0 /\ batch.cancel = FALSE
      /\ batch.notBefore # None /\ runs[r].ended + runs[r].wait <= batch.notBefore
      /\ \/ /\ batch.status = "cooling_down" /\ batch.reason = "source_rate_limited"
            /\ batch.next = batch.notBefore
         \/ /\ batch.status = "needs_attention"
            /\ batch.reason \in {"attempt_limit", "server_wait_exceeds_deadline"}
            /\ batch.next = None
  BY <1>2, <1>5, <1>6, <1>8, CoolIs
<1>10. /\ DOMAIN batches' = DOMAIN batches \cup {r} /\ batches'[r] = batch
       /\ \A b \in DOMAIN batches : b # r /\ batches'[b] = batches[b]
  BY <1>1, <1>7
<1>11. \A b \in DOMAIN batches : Attempts(b)' = Attempts(b)
  BY <1>10 DEF Attempts
<1>12. Attempts(r)' = {}
  <2>1. ToSet(<<>>) = {}
    BY DEF ToSet
  <2>2. QED
    BY <1>9, <1>10, <2>1 DEF Attempts
<1>13. TypeOK'
  <2>1. \A b \in DOMAIN batches' :
           /\ batches'[b] \in Batch
           /\ batches'[b].next # None <=> batches'[b].status = "cooling_down"
           /\ batches'[b].active # None <=> batches'[b].status \in {"running", "cancelling"}
    BY <1>9, <1>10 DEF RInv, TypeOK
  <2>2. DOMAIN batches' \subseteq DOMAIN runs'
    BY <1>1, <1>10 DEF RInv, TypeOK
  <2>3. QED
    BY <1>1, <2>1, <2>2 DEF RInv, TypeOK
<1>14. Links'
  <2>1. Ordinary' = Ordinary
    BY <1>1 DEF Ordinary
  <2>2. \A q \in DOMAIN runs :
           runs[q].batch # None =>
              runs[q].batch \in DOMAIN batches' /\ q \in Attempts(runs[q].batch)'
    <3>1. ASSUME NEW q \in DOMAIN runs, runs[q].batch # None
          PROVE  runs[q].batch \in DOMAIN batches /\ q \in Attempts(runs[q].batch)
      BY <3>1 DEF RInv, Links
    <3>2. \A q \in DOMAIN runs :
             runs[q].batch \in DOMAIN batches =>
                Attempts(runs[q].batch)' = Attempts(runs[q].batch)
      BY <1>1, <1>10 DEF Attempts
    <3>3. QED
      BY <1>10, <3>1, <3>2
  <2>3. Len(batch.attempts) = 0 /\ MaxAttempts \in Nat
    BY <1>9 DEF RecoveryAssumption
  <2>4. ASSUME NEW b \in DOMAIN batches'
        PROVE  /\ runs[b].batch = None /\ runs[b].status \notin Live
               /\ \A q \in Attempts(b)' : q \in DOMAIN runs /\ runs[q].batch = b
               /\ Len(batches'[b].attempts) <= MaxAttempts
               /\ batches'[b].active # None =>
                     /\ batches'[b].active \in Attempts(b)'
                     /\ runs[batches'[b].active].collector = batches'[b].collector
    <3>1. CASE b = r
      BY <1>1, <1>9, <1>10, <1>12, <2>3, <3>1 DEF Live
    <3>2. CASE b # r
      BY <1>10, <1>11, <3>2 DEF RInv, Links
    <3>3. QED
      BY <3>1, <3>2
  <2>5. /\ \A d \in Collector : rows'[d].context <= changes' + 1
        /\ \A q \in DOMAIN runs' :
              /\ runs'[q].context <= rows'[runs'[q].collector].context
              /\ runs'[q].status \in Live => runs'[q].stop = "not_applicable"
        /\ Cardinality(Ordinary') <= MaxOrdinary
    BY <1>1, <2>1 DEF RInv, Links
  <2>6. \A q \in DOMAIN runs' :
           runs'[q].batch # None =>
              runs'[q].batch \in DOMAIN batches' /\ q \in Attempts(runs[q].batch)'
    BY <1>1, <2>2
  <2>7. QED
    BY <1>1, <2>4, <2>5, <2>6 DEF Links
<1>15. Budget'
  <2>1. sent[r] = 0 /\ Len(batch.attempts) * RequestLimit = 0
    BY <1>1, <1>2, <1>9 DEF RInv, Budget, RecoveryAssumption
  <2>2. \A b \in RunId \ DOMAIN batches' : sent[b] = 0
    BY <1>10 DEF RInv, Budget
  <2>3. ASSUME NEW b \in DOMAIN batches'
        PROVE  /\ batches'[b].reserved = Len(batches'[b].attempts) * RequestLimit
               /\ sent[b] <= batches'[b].reserved
               /\ batches'[b].active # None /\ runs[batches'[b].active].claims = 0 =>
                     sent[b] + RequestLimit <= batches'[b].reserved
    <3>1. CASE b = r
      BY <1>9, <1>10, <2>1, <3>1
    <3>2. CASE b # r
      BY <1>10, <3>2 DEF RInv, Budget
    <3>3. QED
      BY <3>1, <3>2
  <2>4. QED
    BY <1>1, <2>2, <2>3 DEF Budget
<1>16. Host'
  BY <1>1 DEF Host, LiveRuns
<1>17. Waiting'
  <2>1. SUFFICES ASSUME NEW b \in DOMAIN batches'
                 PROVE  Waited(b)' /\ Course(b)' /\ Awaited(b)'
    BY DEF Waiting
  <2>2. CASE b = r
    <3>1. Waited(b)'
      BY <1>1, <1>9, <1>10, <1>12, <2>2 DEF Waited
    <3>2. Course(b)'
      BY <1>9, <1>10, <2>2 DEF Course, Minded
    <3>3. Awaited(b)'
      BY <1>9, <1>10, <2>2 DEF Awaited
    <3>4. QED
      BY <3>1, <3>2, <3>3
  <2>3. CASE b # r
    <3>1. b \in DOMAIN batches /\ batches'[b] = batches[b] /\ Attempts(b)' = Attempts(b)
      BY <1>10, <1>11, <2>3
    <3>2. QED
      BY <1>1, <3>1 DEF RInv, Waiting, Waited, Course, Awaited, Minded
  <2>4. QED
    BY <2>2, <2>3
<1>18. QED
  BY <1>13, <1>14, <1>15, <1>16, <1>17 DEF RInv

-----------------------------------------------------------------------------
(* The dispatcher *)

\* The wait of run q, which is over or which the batch keeps.
Kept(q, batch) ==
    runs[q].stop = "source_rate_limited" =>
        \/ runs[q].ended + runs[q].wait <= now
        \/ batch.notBefore # None /\ runs[q].ended + runs[q].wait <= batch.notBefore

\* What the batch b has become when it waits for no run.
Rested(b, batch) ==
    /\ batch \in Batch /\ batch.collector = batches[b].collector
    /\ batch.attempts = batches[b].attempts /\ batch.reserved = batches[b].reserved
    /\ batch.active = None /\ batch.status \notin {"running", "cancelling"}
    /\ batch.next # None <=> batch.status = "cooling_down"
    /\ batch.status = "cooling_down" => Minded(batch) /\ batch.next = batch.notBefore
    /\ batch.reason = "cancel_requested" => batch.cancel
    /\ Minded(batch) => \A q \in {b} \cup Attempts(b) : Kept(q, batch)

\* A batch comes to rest.
LEMMA StoppedIs ==
    ASSUME RecoveryAssumption, NEW batch \in Batch, NEW reason \in Reason, NEW stopped,
           NEW status \in {"recovered", "cancelled", "needs_attention"},
           stopped = Stopped(batch, status, reason)
    PROVE  /\ stopped \in Batch /\ stopped.collector = batch.collector
           /\ stopped.attempts = batch.attempts /\ stopped.reserved = batch.reserved
           /\ stopped.active = batch.active /\ stopped.cancel = batch.cancel
           /\ stopped.notBefore = batch.notBefore /\ stopped.next = None
           /\ stopped.status = status /\ stopped.reason = reason
<1>1. PICK over : over = [batch EXCEPT !.status = status, !.reason = reason]
  OBVIOUS
<1>2. stopped = [over EXCEPT !.next = None]
  BY <1>1 DEF Stopped
<1>3. /\ over \in Batch /\ over.collector = batch.collector
      /\ over.attempts = batch.attempts /\ over.reserved = batch.reserved
      /\ over.active = batch.active /\ over.cancel = batch.cancel
      /\ over.notBefore = batch.notBefore /\ over.status = status /\ over.reason = reason
  BY <1>1 DEF Batch
<1>4. QED
  BY <1>2, <1>3 DEF Batch

\* No work is under way on the hosts of an active batch but its run.
LEMMA NoneLive ==
    ASSUME RecoveryAssumption, RInv, NEW b \in DOMAIN batches,
           batches[b].status \in Active, batches[b].active \notin LiveRuns
    PROVE  LiveRuns = {}
<1>1. SUFFICES ASSUME NEW r \in LiveRuns PROVE FALSE
  OBVIOUS
<1>2. b = runs[r].batch
  BY DEF RInv, Host
<1>3. b # None
  BY RunsTyped DEF RInv
<1>4. batches[b].active = r
  BY <1>2, <1>3 DEF RInv, Host
<1>5. QED
  BY <1>4

\* What becomes of a batch whose run has ended: it takes notice of what the source
\* asked of the run, unless it has been cancelled or its context is lost.
LEMMA JudgedIs ==
    ASSUME RecoveryAssumption, RInv, NEW b \in DOMAIN batches,
           batches[b].active # None, batches[b].active \notin LiveRuns, NEW judged,
           judged = Judged(batches[b], runs[batches[b].active])
    PROVE  Rested(b, judged)
<1>1. PICK batch \in Batch : batch = batches[b]
  BY DEF RInv, TypeOK
<1>2. PICK a \in DOMAIN runs : a = batch.active /\ a \in Attempts(b)
  BY <1>1 DEF RInv, Links
<1>3. PICK run \in Run : run = runs[a]
  BY RunsTyped DEF RInv
<1>4. batch.status \in {"running", "cancelling"} /\ batch.next = None
  BY <1>1 DEF RInv, TypeOK
<1>5. PICK over : over = [batch EXCEPT !.active = None]
  OBVIOUS
<1>6. /\ over \in Batch /\ over.collector = batch.collector
      /\ over.attempts = batch.attempts /\ over.reserved = batch.reserved
      /\ over.active = None /\ over.cancel = batch.cancel
      /\ over.notBefore = batch.notBefore
  BY <1>1, <1>5 DEF Batch
<1>7. /\ Minded(batch) => \A q \in {b} \cup Attempts(b) : q # a => Kept(q, batch)
      /\ batch.status = "running" =>
            Minded(batch) /\ batch.notBefore # None /\ batch.notBefore <= now
      /\ batch.status = "cancelling" => batch.reason # "context_changed"
      /\ batch.reason = "cancel_requested" => batch.cancel
      /\ batch.status = "cancelling" /\ Minded(batch) => run.stop = "not_applicable"
      /\ run.stop = "source_rate_limited" =>
            /\ run.after = run.before
            /\ rows[batch.collector].context = run.context =>
                  rows[batch.collector].progress = run.after
  BY <1>1, <1>2, <1>3 DEF RInv, Waiting, Waited, Course, Awaited, Kept
\* Stopped, with the wait it kept before.
<1>8. ASSUME NEW status \in {"recovered", "cancelled", "needs_attention"},
             NEW reason \in Reason, judged = Stopped(over, status, reason),
             reason = "cancel_requested" => batch.cancel,
             reason \notin {"cancel_requested", "context_changed"} =>
                 \A q \in {b} \cup Attempts(b) : Kept(q, batch)
      PROVE  Rested(b, judged)
  <2>1. /\ judged \in Batch /\ judged.collector = over.collector
        /\ judged.attempts = over.attempts /\ judged.reserved = over.reserved
        /\ judged.active = over.active /\ judged.cancel = over.cancel
        /\ judged.notBefore = over.notBefore /\ judged.next = None
        /\ judged.status = status /\ judged.reason = reason
    <3>1. over \in Batch
      BY <1>6
    <3>2. judged = Stopped(over, status, reason)
      BY <1>8
    <3>3. QED
      BY <3>1, <3>2, <1>8, StoppedIs
  <2>2. Minded(judged) => \A q \in {b} \cup Attempts(b) : Kept(q, judged)
    BY <1>6, <1>8, <2>1 DEF Minded, Kept
  <2>3. QED
    BY <1>1, <1>6, <1>8, <2>1, <2>2 DEF Rested
\* While it ran, all earlier waits were over.
<1>9. batch.status = "running" =>
         \A q \in {b} \cup Attempts(b) : q # a /\ runs[q].stop = "source_rate_limited" =>
            runs[q].ended + runs[q].wait <= now
  <2>1. SUFFICES ASSUME batch.status = "running", NEW q \in {b} \cup Attempts(b), q # a,
                        runs[q].stop = "source_rate_limited"
                 PROVE  runs[q].ended + runs[q].wait <= now
    OBVIOUS
  <2>2. q \in DOMAIN runs
    BY RunsTyped DEF RInv, Links
  <2>3. runs[q].ended + runs[q].wait \in Nat /\ now \in Nat
    <3>1. runs[q].ended \in Nat /\ runs[q].wait \in Nat
      BY <2>2, RunsTyped, Bounds DEF RInv, Run
    <3>2. now \in Nat
      BY DEF RInv, TypeOK, RecoveryAssumption
    <3>3. QED
      BY <3>1, <3>2
  <2>4. batch.notBefore \in Nat
    BY <1>7, <2>1 DEF Batch
  <2>5. QED
    BY <1>7, <2>1, <2>3, <2>4 DEF Kept
<1>10. batch.status = "running" /\ run.stop # "source_rate_limited" =>
          \A q \in {b} \cup Attempts(b) : \A any : Kept(q, any)
  BY <1>3, <1>9 DEF Kept
<1>11. CASE batch.status = "cancelling"
  <2>1. PICK status \in {"cancelled", "needs_attention"} :
           status = IF batch.cancel THEN "cancelled" ELSE "needs_attention"
    OBVIOUS
  <2>2. judged = Stopped(over, status, batch.reason)
    BY <1>1, <1>2, <1>3, <1>5, <1>11, <2>1 DEF Judged
  <2>3. batch.reason \in Reason
    BY DEF Batch
  <2>4. Minded(batch) => \A q \in {b} \cup Attempts(b) : Kept(q, batch)
    BY <1>3, <1>7, <1>11 DEF Kept
  <2>5. QED
    BY <1>7, <1>8, <2>1, <2>2, <2>3, <2>4 DEF Minded
<1>12. CASE batch.status = "running"
  <2>1. CASE \/ Drifted(batch) \/ run.before # batch.progress
             \/ run.checkpoint # batch.checkpoint \/ run.context # batch.context
    <3>1. judged = Stopped(over, "needs_attention", "context_changed")
      BY <1>1, <1>2, <1>3, <1>5, <1>12, <2>1 DEF Judged
    <3>2. QED
      BY <1>8, <3>1 DEF Reason
  <2>2. ASSUME ~Drifted(batch), run.before = batch.progress,
               run.checkpoint = batch.checkpoint, run.context = batch.context
        PROVE  Rested(b, judged)
    <3>1. CASE run.stop = "source_rate_limited"
      <4>1. run.after = batch.progress /\ rows[batch.collector].progress = batch.progress
        BY <1>7, <2>2, <3>1 DEF Drifted
      <4>2. judged = Cool(over, run)
        BY <1>1, <1>2, <1>3, <1>5, <1>12, <2>2, <3>1, <4>1 DEF Judged
      <4>3. /\ judged \in Batch /\ judged.collector = over.collector
            /\ judged.attempts = over.attempts /\ judged.active = None
            /\ judged.reserved = over.reserved /\ judged.cancel = over.cancel
            /\ judged.notBefore # None /\ run.ended + run.wait <= judged.notBefore
            /\ \/ /\ judged.status = "cooling_down"
                  /\ judged.reason = "source_rate_limited"
                  /\ judged.next = judged.notBefore
               \/ /\ judged.status = "needs_attention"
                  /\ judged.reason \in {"attempt_limit", "server_wait_exceeds_deadline"}
                  /\ judged.next = None
        BY <1>6, <4>2, CoolIs
      <4>4. \A q \in {b} \cup Attempts(b) : Kept(q, judged)
        BY <1>3, <1>9, <1>12, <4>3 DEF Kept
      <4>5. QED
        BY <1>1, <1>6, <4>3, <4>4 DEF Rested, Minded
    <3>2. CASE run.stop # "source_rate_limited" /\ Continued(batch, run)
      <4>1. PICK free : free = [over EXCEPT !.notBefore = None]
        OBVIOUS
      <4>2. /\ free \in Batch /\ free.collector = batch.collector
            /\ free.attempts = batch.attempts /\ free.reserved = batch.reserved
            /\ free.active = None /\ free.cancel = batch.cancel
        BY <1>6, <4>1 DEF Batch
      <4>3. judged = Stopped(free, "recovered", "continuation_verified")
        BY <1>1, <1>2, <1>3, <1>5, <1>12, <2>2, <3>2, <4>1 DEF Judged
      <4>4. /\ judged \in Batch /\ judged.collector = free.collector
            /\ judged.attempts = free.attempts /\ judged.reserved = free.reserved
            /\ judged.active = free.active /\ judged.next = None
            /\ judged.status = "recovered" /\ judged.reason = "continuation_verified"
        <5>1. "continuation_verified" \in Reason
          BY DEF Reason
        <5>2. QED
          BY <4>2, <4>3, <5>1, StoppedIs
      <4>5. QED
        BY <1>1, <1>10, <1>12, <3>2, <4>2, <4>4 DEF Rested
    <3>3. CASE run.stop # "source_rate_limited" /\ ~Continued(batch, run)
      <4>1. judged = Stopped(over, "needs_attention", "run_not_recoverable")
        BY <1>1, <1>2, <1>3, <1>5, <1>12, <2>2, <3>3 DEF Judged
      <4>2. QED
        BY <1>8, <1>10, <1>12, <3>3, <4>1 DEF Reason
    <3>4. QED
      BY <3>1, <3>2, <3>3
  <2>3. QED
    BY <2>1, <2>2
<1>13. QED
  BY <1>4, <1>11, <1>12

\* A batch that cools down, or whose run has been judged.
LEMMA Settled ==
    ASSUME RecoveryAssumption, RInv, NEW b \in DOMAIN batches, NEW batch,
           batches[b].status \in Active, batches[b].active \notin LiveRuns,
           batch = IF batches[b].active = None THEN batches[b]
                   ELSE Judged(batches[b], runs[batches[b].active])
    PROVE  Rested(b, batch)
<1>1. CASE batches[b].active = None
  <2>1. /\ batch = batches[b] /\ batch \in Batch /\ batch.status = "cooling_down"
        /\ batch.next # None
    BY <1>1 DEF RInv, TypeOK, Active
  <2>2. /\ Minded(batch) /\ batch.next = batch.notBefore
        /\ batch.reason = "cancel_requested" => batch.cancel
    BY <2>1 DEF RInv, Waiting, Course
  <2>3. \A q \in {b} \cup Attempts(b) : q # None
    BY RunsTyped DEF RInv, Links
  <2>4. \A q \in {b} \cup Attempts(b) : Kept(q, batch)
    BY <1>1, <2>1, <2>2, <2>3 DEF RInv, Waiting, Waited, Kept
  <2>5. QED
    BY <1>1, <2>1, <2>2, <2>4 DEF Rested
<1>2. CASE batches[b].active # None
  BY <1>2, JudgedIs
<1>3. QED
  BY <1>1, <1>2

\* The batch comes to rest, or goes on waiting.
LEMMA RestKeeps ==
    ASSUME RecoveryAssumption, RInv, NEW b \in DOMAIN batches, NEW batch,
           Rested(b, batch), LiveRuns = {},
           batches' = [batches EXCEPT ![b] = batch],
           now' = now, rows' = rows, runs' = runs, sent' = sent, changes' = changes
    PROVE  RInv'
<1>1. /\ DOMAIN batches' = DOMAIN batches /\ batches'[b] = batch
      /\ \A d \in DOMAIN batches : d # b => batches'[d] = batches[d]
  OBVIOUS
<1>2. /\ batch \in Batch /\ batch.collector = batches[b].collector
      /\ batch.attempts = batches[b].attempts /\ batch.reserved = batches[b].reserved
      /\ batch.active = None /\ batch.status \notin {"running", "cancelling"}
      /\ batch.next # None <=> batch.status = "cooling_down"
  BY DEF Rested
<1>3. \A d \in DOMAIN batches :
         /\ batches'[d].attempts = batches[d].attempts
         /\ batches'[d].reserved = batches[d].reserved
         /\ batches'[d].collector = batches[d].collector
         /\ Attempts(d)' = Attempts(d)
         /\ batches'[d].active # None => batches'[d].active = batches[d].active
  BY <1>1, <1>2 DEF Attempts
<1>4. TypeOK'
  <2>1. \A d \in DOMAIN batches' :
           /\ batches'[d] \in Batch
           /\ batches'[d].next # None <=> batches'[d].status = "cooling_down"
           /\ batches'[d].active # None <=> batches'[d].status \in {"running", "cancelling"}
    BY <1>1, <1>2 DEF RInv, TypeOK
  <2>2. QED
    BY <1>1, <2>1 DEF RInv, TypeOK
<1>5. Links'
  <2>1. Ordinary' = Ordinary
    BY DEF Ordinary
  <2>2. /\ \A d \in Collector : rows'[d].context <= changes' + 1
        /\ \A q \in DOMAIN runs' :
              /\ runs'[q].context <= rows'[runs'[q].collector].context
              /\ runs'[q].status \in Live => runs'[q].stop = "not_applicable"
        /\ Cardinality(Ordinary') <= MaxOrdinary
    BY <2>1 DEF RInv, Links
  <2>3. ASSUME NEW q \in DOMAIN runs, runs[q].batch # None
        PROVE  runs[q].batch \in DOMAIN batches' /\ q \in Attempts(runs[q].batch)'
    <3>1. runs[q].batch \in DOMAIN batches /\ q \in Attempts(runs[q].batch)
      BY <2>3 DEF RInv, Links
    <3>2. Attempts(runs[q].batch)' = Attempts(runs[q].batch)
      BY <1>3, <3>1 DEF Attempts
    <3>3. QED
      BY <1>1, <3>1, <3>2
  <2>4. \A d \in DOMAIN batches' :
           /\ runs[d].batch = None /\ runs[d].status \notin Live
           /\ \A q \in Attempts(d)' : q \in DOMAIN runs /\ runs[q].batch = d
           /\ Len(batches'[d].attempts) <= MaxAttempts
           /\ batches'[d].active # None =>
                 /\ batches'[d].active \in Attempts(d)'
                 /\ runs[batches'[d].active].collector = batches'[d].collector
    BY <1>1, <1>3 DEF RInv, Links
  <2>5. QED
    BY <2>2, <2>3, <2>4 DEF Links
<1>6. Budget'
  BY <1>1, <1>3 DEF RInv, Budget
<1>7. Host'
  BY DEF Host, LiveRuns
<1>8. Waiting'
  <2>1. SUFFICES ASSUME NEW d \in DOMAIN batches
                 PROVE  Waited(d)' /\ Course(d)' /\ Awaited(d)'
    BY <1>1 DEF Waiting
  <2>2. CASE d = b
    <3>1. Waited(d)'
      BY <1>1, <1>3, <2>2 DEF Rested, Kept, Waited, Minded
    <3>2. Course(d)'
      BY <1>1, <2>2 DEF Rested, Course, Minded
    <3>3. Awaited(d)'
      BY <1>1, <1>2, <2>2 DEF Awaited
    <3>4. QED
      BY <3>1, <3>2, <3>3
  <2>3. CASE d # b
    <3>1. batches'[d] = batches[d] /\ Attempts(d)' = Attempts(d)
      BY <1>1, <1>3, <2>3
    <3>2. QED
      BY <3>1 DEF RInv, Waiting, Waited, Course, Awaited, Minded
  <2>4. QED
    BY <2>2, <2>3
<1>9. QED
  BY <1>4, <1>5, <1>6, <1>7, <1>8 DEF RInv

\* The next run of the batch: what it may send is reserved, the wait is over, and
\* nobody else waits for the host.
LEMMA DispatchKeeps ==
    ASSUME RecoveryAssumption, RInv, NEW b \in DOMAIN batches, NEW batch, NEW next,
           Rested(b, batch), LiveRuns = {}, batch.status = "cooling_down",
           now >= batch.next, ~Spent(batch), ~Reserved(b),
           runs' = Append(runs, NewRun(batch.collector, b)),
           next = [batch EXCEPT !.status = "running", !.active = Len(runs) + 1,
                                !.attempts = Append(@, Len(runs) + 1),
                                !.reserved = @ + RequestLimit, !.next = None,
                                !.reason = "continuation_running"],
           batches' = [batches EXCEPT ![b] = next],
           now' = now, rows' = rows, sent' = sent, changes' = changes
    PROVE  RInv'
<1>1. /\ batch \in Batch /\ batch.collector = batches[b].collector
      /\ batch.attempts = batches[b].attempts /\ batch.reserved = batches[b].reserved
      /\ batch.next # None /\ batch.next = batch.notBefore
      /\ batch.collector \in Collector /\ batch.attempts \in Seq(RunId)
      /\ batch.reserved \in Nat /\ batch.notBefore \in Nat
      /\ \A q \in {b} \cup Attempts(b) : Kept(q, batch)
  BY DEF Rested, Batch
<1>2. PICK n : n = Len(runs) + 1
  OBVIOUS
<1>3. n \in RunId /\ n \notin DOMAIN runs /\ n # None /\ n <= MaxRuns
  <2>1. ~Spent(batches[b])
    BY <1>1 DEF Spent
  <2>2. n \in Nat /\ n >= 1 /\ n <= MaxRuns /\ n \notin DOMAIN runs
    BY <1>2, <2>1, RoomForAttempt, RunsTyped DEF RInv
  <2>3. n \in RunId
    BY <2>2, Bounds DEF RunId
  <2>4. QED
    BY <2>2, <2>3, Bounds
<1>4. PICK run : run = NewRun(batch.collector, b)
  OBVIOUS
<1>5. /\ run \in Run /\ run.collector = batch.collector /\ run.batch = b
      /\ run.context = rows[batch.collector].context /\ run.status = "queued"
      /\ run.claims = 0 /\ run.stop = "not_applicable"
  <2>1. b \in RunId \cup {None}
    BY RunsTyped DEF RInv
  <2>2. QED
    BY <1>1, <1>4, <2>1, NewRunIs
<1>6. /\ runs' \in Seq(Run) /\ Len(runs') = n
      /\ DOMAIN runs' = DOMAIN runs \cup {n} /\ runs'[n] = run
      /\ \A r \in DOMAIN runs : runs'[r] = runs[r]
  BY <1>2, <1>4, <1>5, Appended DEF RInv, TypeOK
<1>7. PICK attempts \in Seq(RunId) :
         /\ attempts = Append(batch.attempts, n)
         /\ Len(attempts) = Len(batch.attempts) + 1
         /\ ToSet(attempts) = ToSet(batch.attempts) \cup {n}
  <2>1. PICK s \in Seq(RunId) : s = batch.attempts
    BY <1>1
  <2>2. /\ Append(s, n) \in Seq(RunId) /\ Len(Append(s, n)) = Len(s) + 1
        /\ ToSet(Append(s, n)) = ToSet(s) \cup {n}
    BY <1>3, Appended
  <2>3. QED
    BY <2>1, <2>2
<1>8. PICK reserved \in Nat : reserved = batch.reserved + RequestLimit
  BY <1>1 DEF RecoveryAssumption
<1>9. /\ next \in Batch /\ next.collector = batch.collector
      /\ next.attempts = attempts /\ next.reserved = reserved
      /\ next.notBefore = batch.notBefore /\ next.active = n /\ next.next = None
      /\ next.status = "running" /\ next.reason = "continuation_running"
  <2>1. PICK next1 : next1 = [batch EXCEPT !.status = "running",
                                           !.reason = "continuation_running"]
    OBVIOUS
  <2>2. PICK next2 : next2 = [next1 EXCEPT !.active = n]
    OBVIOUS
  <2>3. PICK next3 : next3 = [next2 EXCEPT !.attempts = attempts]
    OBVIOUS
  <2>4. PICK next4 : next4 = [next3 EXCEPT !.reserved = reserved]
    OBVIOUS
  <2>5. next = [next4 EXCEPT !.next = None]
    BY <1>2, <1>7, <1>8, <2>1, <2>2, <2>3, <2>4
  <2>6. /\ next1 \in Batch /\ next1.collector = batch.collector
        /\ next1.notBefore = batch.notBefore
        /\ next1.status = "running" /\ next1.reason = "continuation_running"
    BY <1>1, <2>1 DEF Batch, Reason
  <2>7. /\ next2 \in Batch /\ next2.collector = batch.collector
        /\ next2.notBefore = batch.notBefore /\ next2.active = n
        /\ next2.status = "running" /\ next2.reason = "continuation_running"
    BY <1>3, <2>2, <2>6 DEF Batch
  <2>8. /\ next3 \in Batch /\ next3.collector = batch.collector
        /\ next3.attempts = attempts
        /\ next3.notBefore = batch.notBefore /\ next3.active = n
        /\ next3.status = "running" /\ next3.reason = "continuation_running"
    BY <2>3, <2>7 DEF Batch
  <2>9. /\ next4 \in Batch /\ next4.collector = batch.collector
        /\ next4.attempts = attempts /\ next4.reserved = reserved
        /\ next4.notBefore = batch.notBefore /\ next4.active = n
        /\ next4.status = "running" /\ next4.reason = "continuation_running"
    BY <2>4, <2>8 DEF Batch
  <2>10. QED
    BY <2>5, <2>9 DEF Batch
<1>10. /\ DOMAIN batches' = DOMAIN batches /\ batches'[b] = next
       /\ \A d \in DOMAIN batches : d # b => batches'[d] = batches[d]
  OBVIOUS
<1>11. /\ Attempts(b)' = Attempts(b) \cup {n}
       /\ \A d \in DOMAIN batches : d # b => Attempts(d)' = Attempts(d)
  BY <1>1, <1>7, <1>9, <1>10 DEF Attempts
<1>12. \A d \in DOMAIN batches :
          /\ d \in DOMAIN runs /\ d # None
          /\ \A r \in Attempts(d) : r \in DOMAIN runs
  BY RunsTyped DEF RInv, Links
<1>13. \A d \in DOMAIN batches : d # b =>
          /\ batches[d].status \notin Active
          /\ batches[d].active = None
          /\ batches[d].notBefore # None => batches[d].notBefore <= now
  <2>1. now \in Nat /\ \A d \in DOMAIN batches :
           batches[d].notBefore # None => batches[d].notBefore \in Nat
    BY DEF RInv, TypeOK, Batch, RecoveryAssumption
  <2>2. \A d \in DOMAIN batches : d # b =>
           /\ batches[d].status \notin Active
           /\ batches[d].notBefore # None => batches[d].notBefore <= now
    BY <2>1 DEF Reserved
  <2>3. QED
    BY <2>2 DEF RInv, TypeOK, Active
<1>14. batch.notBefore # None /\ batch.notBefore <= now
  <2>1. now \in Nat
    BY DEF RInv, TypeOK, RecoveryAssumption
  <2>2. QED
    BY <1>1, <2>1
<1>15. TypeOK'
  <2>1. \A d \in DOMAIN batches' :
           /\ batches'[d] \in Batch
           /\ batches'[d].next # None <=> batches'[d].status = "cooling_down"
           /\ batches'[d].active # None <=> batches'[d].status \in {"running", "cancelling"}
    BY <1>3, <1>9, <1>10 DEF RInv, TypeOK
  <2>2. DOMAIN batches' \subseteq DOMAIN runs' /\ Len(runs') <= MaxRuns
    BY <1>3, <1>6, <1>10, <1>12
  <2>3. QED
    BY <1>6, <2>1, <2>2 DEF RInv, TypeOK
<1>16. Links'
  <2>1. Ordinary' = Ordinary
    BY <1>3, <1>5, <1>6, <1>12 DEF Ordinary
  <2>2. rows[batch.collector].context <= rows[batch.collector].context
    BY <1>1, Bounds DEF RInv, TypeOK, Row
  <2>3. /\ \A d \in Collector : rows'[d].context <= changes' + 1
        /\ \A q \in DOMAIN runs' :
              /\ runs'[q].context <= rows'[runs'[q].collector].context
              /\ runs'[q].status \in Live => runs'[q].stop = "not_applicable"
        /\ Cardinality(Ordinary') <= MaxOrdinary
    BY <1>5, <1>6, <2>1, <2>2 DEF RInv, Links
  <2>4. ASSUME NEW q \in DOMAIN runs', runs'[q].batch # None
        PROVE  \E d \in DOMAIN batches' : d = runs'[q].batch /\ q \in Attempts(d)'
    <3>1. CASE q = n
      BY <1>5, <1>6, <1>10, <1>11, <3>1
    <3>2. CASE q # n
      <4>1. PICK d \in DOMAIN batches : d = runs[q].batch /\ q \in Attempts(d)
        BY <1>6, <2>4, <3>2 DEF RInv, Links
      <4>2. QED
        BY <1>6, <1>10, <1>11, <3>2, <4>1
    <3>3. QED
      BY <3>1, <3>2
  <2>5. ASSUME NEW d \in DOMAIN batches
        PROVE  /\ runs'[d].batch = None /\ runs'[d].status \notin Live
               /\ \A q \in Attempts(d)' : q \in DOMAIN runs' /\ runs'[q].batch = d
               /\ Len(batches'[d].attempts) <= MaxAttempts
               /\ batches'[d].active # None =>
                     /\ batches'[d].active \in Attempts(d)'
                     /\ runs'[batches'[d].active].collector = batches'[d].collector
    <3>1. /\ runs[d].batch = None /\ runs[d].status \notin Live
          /\ \A q \in Attempts(d) : q \in DOMAIN runs /\ runs[q].batch = d
          /\ Len(batches[d].attempts) <= MaxAttempts
      BY DEF RInv, Links
    <3>2. runs'[d] = runs[d] /\ \A q \in Attempts(d) : runs'[q] = runs[q]
      BY <1>6, <1>12
    <3>3. CASE d = b
      <4>1. Len(attempts) <= MaxAttempts
        <5>1. Len(batch.attempts) \in Nat /\ MaxAttempts \in Nat
          BY <1>1 DEF RecoveryAssumption
        <5>2. QED
          BY <1>7, <5>1 DEF Spent
      <4>2. \A q \in Attempts(b)' : q \in DOMAIN runs' /\ runs'[q].batch = b
        BY <1>5, <1>6, <1>11, <3>1, <3>2, <3>3
      <4>3. n \in Attempts(b)' /\ runs'[n].collector = next.collector
        BY <1>5, <1>6, <1>9, <1>11
      <4>4. batches'[b].active = n /\ batches'[b].attempts = attempts
            /\ batches'[b].collector = next.collector
        BY <1>9, <1>10
      <4>5. QED
        BY <3>1, <3>2, <3>3, <4>1, <4>2, <4>3, <4>4
    <3>4. CASE d # b
      BY <1>6, <1>10, <1>11, <1>13, <3>1, <3>2, <3>4
    <3>5. QED
      BY <3>3, <3>4
  <2>6. \A q \in DOMAIN runs' : runs'[q].batch # None =>
           runs'[q].batch \in DOMAIN batches' /\
              \E s : s = batches'[runs'[q].batch].attempts /\ q \in ToSet(s)
    BY <2>4 DEF Attempts
  <2>7. QED
    BY <1>10, <2>3, <2>5, <2>6 DEF Links, Attempts
<1>17. Budget'
  <2>1. reserved = Len(attempts) * RequestLimit /\ sent[b] + RequestLimit <= reserved
    <3>1. /\ batch.reserved = Len(batch.attempts) * RequestLimit
          /\ sent[b] <= batch.reserved
      BY <1>1 DEF RInv, Budget
    <3>2. Len(batch.attempts) \in Nat /\ RequestLimit \in Nat /\ sent[b] \in Nat
      <4>1. b \in RunId /\ sent \in [RunId -> Nat]
        BY RunsTyped DEF RInv, TypeOK
      <4>2. RequestLimit \in Nat
        BY DEF RecoveryAssumption
      <4>3. QED
        BY <1>1, <4>1, <4>2
    <3>3. Len(attempts) * RequestLimit = Len(batch.attempts) * RequestLimit + RequestLimit
      BY <1>7, <3>2, Products
    <3>4. QED
      BY <1>1, <1>8, <3>1, <3>2, <3>3
  <2>2. sent[b] <= reserved
    <3>1. sent[b] \in Nat /\ RequestLimit \in Nat
      BY RunsTyped DEF RInv, TypeOK, RecoveryAssumption
    <3>2. QED
      BY <2>1, <3>1
  <2>3. \A d \in DOMAIN batches' :
           /\ batches'[d].reserved = Len(batches'[d].attempts) * RequestLimit
           /\ sent[d] <= batches'[d].reserved
           /\ batches'[d].active # None /\ runs'[batches'[d].active].claims = 0 =>
                 sent[d] + RequestLimit <= batches'[d].reserved
    BY <1>9, <1>10, <1>13, <2>1, <2>2 DEF RInv, Budget
  <2>4. QED
    BY <1>10, <2>3 DEF RInv, Budget
<1>18. Host'
  <2>1. \A r \in LiveRuns' : r = n
    BY <1>6 DEF LiveRuns
  <2>2. QED
    BY <1>5, <1>6, <1>9, <1>10, <1>13, <2>1 DEF Host
<1>19. Waiting'
  <2>1. SUFFICES ASSUME NEW d \in DOMAIN batches
                 PROVE  Waited(d)' /\ Course(d)' /\ Awaited(d)'
    BY <1>10 DEF Waiting
  <2>2. CASE d = b
    <3>1. Waited(d)'
      <4>1. \A q \in {b} \cup Attempts(b) : runs'[q] = runs[q] /\ Kept(q, batch)
        BY <1>1, <1>6, <1>12
      <4>2. QED
        BY <1>9, <1>10, <1>11, <2>2, <4>1 DEF Waited, Kept
    <3>2. Course(d)'
      BY <1>9, <1>10, <1>14, <2>2 DEF Course, Minded
    <3>3. Awaited(d)'
      BY <1>5, <1>6, <1>9, <1>10, <2>2 DEF Awaited
    <3>4. QED
      BY <3>1, <3>2, <3>3
  <2>3. CASE d # b
    <3>1. /\ batches'[d] = batches[d] /\ Attempts(d)' = Attempts(d)
          /\ batches[d].active = None
          /\ \A q \in {d} \cup Attempts(d) : runs'[q] = runs[q]
      BY <1>6, <1>10, <1>11, <1>12, <1>13, <2>3
    <3>2. Waited(d) /\ Course(d)
      BY DEF RInv, Waiting
    <3>3. Waited(d)'
      BY <3>1, <3>2 DEF Waited, Minded
    <3>4. Course(d)'
      BY <3>1, <3>2 DEF Course, Minded
    <3>5. Awaited(d)'
      BY <3>1 DEF Awaited
    <3>6. QED
      BY <3>3, <3>4, <3>5
  <2>4. QED
    BY <2>2, <2>3
<1>20. QED
  BY <1>15, <1>16, <1>17, <1>18, <1>19 DEF RInv

\* One tick for a batch without a run under way.
LEMMA CoolingKeeps ==
    ASSUME RecoveryAssumption, RInv, NEW b \in DOMAIN batches, TickCooling(b)
    PROVE  RInv'
<1>1. batches[b].status \in Active /\ batches[b].active \notin LiveRuns
  BY DEF TickCooling
<1>2. PICK batch, end :
         /\ batch = IF batches[b].active = None THEN batches[b]
                    ELSE Judged(batches[b], runs[batches[b].active])
         /\ end = IF batch.status = "cooling_down" THEN EndOfCooling(b, batch) ELSE "none"
         /\ IF batch.status = "cooling_down" /\ end = "none" /\ now >= batch.next
            THEN /\ runs' = Append(runs, NewRun(batch.collector, b))
                 /\ batches' = [batches EXCEPT ![b] =
                      [batch EXCEPT !.status = "running", !.active = Len(runs) + 1,
                                    !.attempts = Append(@, Len(runs) + 1),
                                    !.reserved = @ + RequestLimit, !.next = None,
                                    !.reason = "continuation_running"]]
            ELSE /\ batches' = [batches EXCEPT ![b] =
                      IF end = "none" THEN batch
                      ELSE Stopped(batch, "needs_attention", end)]
                 /\ runs' = runs
  BY DEF TickCooling
<1>3. now' = now /\ rows' = rows /\ sent' = sent /\ changes' = changes
  BY DEF TickCooling
<1>4. Rested(b, batch) /\ LiveRuns = {}
  BY <1>1, <1>2, Settled, NoneLive
<1>5. CASE batch.status = "cooling_down" /\ end = "none" /\ now >= batch.next
  <2>1. PICK next : next = [batch EXCEPT !.status = "running", !.active = Len(runs) + 1,
                                         !.attempts = Append(@, Len(runs) + 1),
                                         !.reserved = @ + RequestLimit, !.next = None,
                                         !.reason = "continuation_running"]
    OBVIOUS
  <2>2. /\ runs' = Append(runs, NewRun(batch.collector, b))
        /\ batches' = [batches EXCEPT ![b] = next]
    BY <1>2, <1>5, <2>1
  <2>3. ~Spent(batch) /\ CanCreateRun(batch.collector, b)
    <3>1. ~(now < batch.next)
      <4>1. batch.next \in Nat /\ now \in Nat
        BY <1>4, <1>5 DEF Rested, Batch, RInv, TypeOK, RecoveryAssumption
      <4>2. QED
        BY <1>5, <4>1
    <3>2. EndOfCooling(b, batch) = "none"
      BY <1>2, <1>5
    <3>3. QED
      BY <3>1, <3>2 DEF EndOfCooling
  <2>4. ~Reserved(b)
    BY <2>3 DEF CanCreateRun
  <2>5. QED
    BY <1>3, <1>4, <1>5, <2>1, <2>2, <2>3, <2>4, DispatchKeeps
<1>6. CASE /\ ~(batch.status = "cooling_down" /\ end = "none" /\ now >= batch.next)
           /\ end = "none"
  <2>1. batches' = [batches EXCEPT ![b] = batch] /\ runs' = runs
    BY <1>2, <1>6
  <2>2. QED
    BY <1>3, <1>4, <2>1, RestKeeps
<1>7. CASE end # "none"
  <2>1. PICK stopped : stopped = Stopped(batch, "needs_attention", end)
    OBVIOUS
  <2>2. batches' = [batches EXCEPT ![b] = stopped] /\ runs' = runs
    BY <1>2, <1>7, <2>1
  <2>3. /\ batch.status = "cooling_down"
        /\ end \in {"deadline_reached", "context_changed", "progress_changed",
                    "attempt_limit", "dispatch_rejected"}
    BY <1>2, <1>7 DEF EndOfCooling
  <2>4. batch \in Batch /\ end \in Reason
    BY <1>4, <2>3 DEF Rested, Reason
  <2>5. /\ stopped \in Batch /\ stopped.collector = batch.collector
        /\ stopped.attempts = batch.attempts /\ stopped.reserved = batch.reserved
        /\ stopped.active = batch.active /\ stopped.cancel = batch.cancel
        /\ stopped.notBefore = batch.notBefore /\ stopped.next = None
        /\ stopped.status = "needs_attention" /\ stopped.reason = end
    BY <2>1, <2>4, StoppedIs
  <2>6. Rested(b, stopped)
    BY <1>4, <2>3, <2>5 DEF Rested, Minded, Kept
  <2>7. QED
    BY <1>3, <1>4, <2>2, <2>6, RestKeeps
<1>8. QED
  BY <1>5, <1>6, <1>7

-----------------------------------------------------------------------------
(* The theorems *)

LEMMA InitHolds ==
    ASSUME RecoveryAssumption, Init
    PROVE  RInv
<1>1. /\ now = 0 /\ runs = <<>> /\ DOMAIN batches = {} /\ changes = 0
      /\ sent = [b \in RunId |-> 0]
      /\ rows = [c \in Collector |->
                   [context |-> 1, ready |-> TRUE, scheduled |-> FALSE,
                    progress |-> IF c \in Started THEN [context |-> 1, version |-> 1]
                                                  ELSE None,
                    checkpoint |-> 0, latest |-> None]]
  BY DEF Init
<1>2. /\ MaxRuns \in Nat /\ MaxTime \in Nat /\ MaxChanges \in Nat /\ MaxOrdinary \in Nat
      /\ 0 \in 0..MaxTime /\ 0 \in 0..MaxChanges /\ 0 \in 0..MaxRuns
      /\ 1 \in Context /\ 1 \in 1..(MaxRuns + 1)
  BY Bounds DEF RecoveryAssumption, Context
<1>3. [context |-> 1, version |-> 1] \in Progress
  BY <1>2 DEF Progress
<1>4. runs \in Seq(Run) /\ Len(runs) = 0 /\ DOMAIN runs = {}
  BY <1>1
<1>5. rows \in [Collector -> Row] /\ \A c \in Collector : rows[c].context = 1
  BY <1>1, <1>2, <1>3 DEF Row
<1>6. sent \in [RunId -> Nat] /\ \A b \in RunId : sent[b] = 0
  BY <1>1
<1>7. TypeOK
  BY <1>1, <1>2, <1>4, <1>5, <1>6 DEF TypeOK
<1>8. Links
  <2>1. Ordinary = {}
    BY <1>4 DEF Ordinary
  <2>2. Cardinality(Ordinary) <= MaxOrdinary
    BY <1>2, <2>1, FS_EmptySet
  <2>3. QED
    BY <1>1, <1>4, <1>5, <2>2 DEF Links
<1>9. Budget /\ Host /\ Waiting
  BY <1>1, <1>4, <1>6 DEF Budget, Host, LiveRuns, Waiting
<1>10. QED
  BY <1>7, <1>8, <1>9 DEF RInv

LEMMA NextKeeps ==
    ASSUME RecoveryAssumption, RInv, [Next]_vars
    PROVE  RInv'
<1>1. CASE Tock
  BY <1>1, TockKeeps
<1>2. ASSUME NEW c \in Collector,
             ChangeContext(c) \/ RetireKey(c) \/ SwitchSchedule(c) \/ CreateRun(c)
      PROVE  RInv'
  BY <1>2, EngineersKeep, CreateKeeps
<1>3. ASSUME NEW r \in DOMAIN runs, StartBatch(r) \/ Work(r) \/ LoseWorker(r)
      PROVE  RInv'
  BY <1>3, StartKeeps, ClaimKeeps, AbortKeeps, EndKeeps, LoseKeeps DEF Work
<1>4. ASSUME NEW b \in DOMAIN batches, RequestStop(b) \/ Tick(b)
      PROVE  RInv'
  BY <1>4, RequestKeeps, RunningKeeps, CoolingKeeps DEF Tick
<1>5. CASE UNCHANGED vars
  <2>1. /\ now' = now /\ rows' = rows /\ runs' = runs /\ batches' = batches
        /\ sent' = sent /\ changes' = changes
    BY <1>5 DEF vars
  <2>2. TypeOK' /\ Links'
    BY <2>1 DEF RInv, TypeOK, Links, Ordinary, Attempts
  <2>3. Budget' /\ Host'
    BY <2>1 DEF RInv, Budget, Host, LiveRuns
  <2>4. Waiting'
    BY <2>1 DEF RInv, Waiting, Waited, Course, Awaited, Minded, Attempts
  <2>5. QED
    BY <2>2, <2>3, <2>4 DEF RInv
<1>6. QED
  BY <1>1, <1>2, <1>3, <1>4, <1>5 DEF Next

\* Dispatcher, workers and engineers, acting on the same rows, keep batches and runs
\* consistent: the inductive invariant, with the types of all rows.
THEOREM RecoveryAgrees ==
    ASSUME RecoveryAssumption
    PROVE  Spec => []RInv
<1>1. Init => RInv
  BY InitHolds
<1>2. RInv /\ [Next]_vars => RInv'
  BY NextKeeps
<1>3. QED
  BY <1>1, <1>2, PTL DEF Spec

\* What validate_attempt lets a worker send for a batch was reserved when the run was
\* dispatched, and never more than REQUEST_LIMIT for each of maxAttempts runs: over
\* lost workers, claims of the same run, cancellation and any number of ticks.
THEOREM BudgetIsHonoured ==
    ASSUME RecoveryAssumption
    PROVE  Spec => []BudgetHonoured
<1>1. RInv => BudgetHonoured
  <2>1. SUFFICES ASSUME RInv, NEW b \in DOMAIN batches
                 PROVE  /\ sent[b] <= batches[b].reserved
                        /\ batches[b].reserved <= MaxAttempts * RequestLimit
    BY DEF BudgetHonoured
  <2>2. /\ sent[b] <= batches[b].reserved
        /\ batches[b].reserved = Len(batches[b].attempts) * RequestLimit
        /\ Len(batches[b].attempts) <= MaxAttempts
    BY <2>1 DEF RInv, Budget, Links
  <2>3. Len(batches[b].attempts) \in Nat
    BY <2>1 DEF RInv, TypeOK, Batch
  <2>4. MaxAttempts \in Nat /\ RequestLimit \in Nat
    BY DEF RecoveryAssumption
  <2>5. QED
    BY <2>2, <2>3, <2>4, Products
<1>2. QED
  BY <1>1, RecoveryAgrees, PTL

\* guard_source_work: from the moment a batch is authorised until its last run has
\* ended, no other work is queued or under way on its hosts.
THEOREM HostIsReserved ==
    ASSUME RecoveryAssumption
    PROVE  Spec => []HostReserved
<1>1. RInv => HostReserved
  <2>1. SUFFICES ASSUME RInv, NEW b \in DOMAIN batches, batches[b].status \in Active,
                        NEW r \in LiveRuns
                 PROVE  runs[r].batch = b /\ r = batches[b].active
    BY DEF HostReserved
  <2>2. runs[r].batch = b
    BY <2>1 DEF RInv, Host
  <2>3. b # None
    BY <2>1, RunsTyped DEF RInv
  <2>4. QED
    BY <2>1, <2>2, <2>3 DEF RInv, Host
<1>2. QED
  BY <1>1, RecoveryAgrees, PTL

\* Nobody's run begins before the wait is over that the source asked of a run of a
\* batch: not the next run of the batch, which validate_attempt holds to sourceNotBefore,
\* and no other, which guard_source_work refuses to create.  A batch that was cancelled
\* or has lost its context takes no notice of its last run, and keeps no wait of it.
THEOREM WaitIsHonoured ==
    ASSUME RecoveryAssumption
    PROVE  Spec => WaitHonoured
<1>1. ASSUME RInv, [Next]_vars
      PROVE  [\A r \in DOMAIN runs :
                (~runs[r].owned /\ runs'[r].owned) =>
                   \A b \in DOMAIN batches : Abandoned(batches[b]) \/
                       \A q \in {b} \cup ToSet(batches[b].attempts) :
                           runs[q].stop = "source_rate_limited" =>
                               now >= runs[q].ended + runs[q].wait]_vars
  <2>1. SUFFICES ASSUME Next, NEW r \in DOMAIN runs, ~runs[r].owned, runs'[r].owned,
                        NEW b \in DOMAIN batches, ~Abandoned(batches[b]),
                        NEW q \in {b} \cup Attempts(b),
                        runs[q].stop = "source_rate_limited"
                 PROVE  now >= runs[q].ended + runs[q].wait
    BY <1>1 DEF Attempts
  <2>2. /\ runs \in Seq(Run) /\ DOMAIN runs = 1..Len(runs) /\ Len(runs) \in Nat
        /\ \A s \in DOMAIN runs : runs[s] \in Run
    BY <1>1, RunsTyped DEF RInv, TypeOK
  \* Only a claim gives a run to a worker, and only one that is valid.
  <2>3. r \in LiveRuns /\ Valid(r)
    <3>1. ASSUME runs'[r] = runs[r] PROVE FALSE
      BY <2>1, <3>1
    <3>2. CASE Tock \/ \E c \in Collector :
                  ChangeContext(c) \/ RetireKey(c) \/ SwitchSchedule(c)
      BY <3>1, <3>2 DEF Tock, ChangeContext, RetireKey, SwitchSchedule
    <3>3. ASSUME NEW run, runs' = Append(runs, run) PROVE FALSE
      <4>1. runs'[r] = runs[r]
        BY <2>2, <3>3
      <4>2. QED
        BY <3>1, <4>1
    <3>4. CASE \E c \in Collector : CreateRun(c)
      BY <3>3, <3>4 DEF CreateRun
    <3>5. CASE \E s \in DOMAIN runs : StartBatch(s)
      BY <3>1, <3>5 DEF StartBatch
    <3>6. ASSUME NEW batch, runs' = CancelOf(batch) PROVE FALSE
      BY <1>1, <2>1, <3>6, CancelIs
    <3>7. CASE \E d \in DOMAIN batches : RequestStop(d) \/ TickRunning(d)
      BY <3>6, <3>7 DEF RequestStop, TickRunning
    <3>8. CASE \E d \in DOMAIN batches : TickCooling(d)
      BY <3>1, <3>3, <3>8 DEF TickCooling
    <3>9. CASE \E s \in DOMAIN runs : AbortRun(s) \/ LoseWorker(s)
      <4>1. PICK s \in DOMAIN runs : AbortRun(s) \/ LoseWorker(s)
        BY <3>9
      <4>2. s = r
        BY <3>1, <4>1 DEF AbortRun, LoseWorker
      <4>3. runs[s].owned
        BY <4>1 DEF AbortRun, LoseWorker
      <4>4. QED
        BY <2>1, <4>2, <4>3
    <3>10. CASE \E s \in DOMAIN runs : EndRun(s)
      <4>1. PICK s \in DOMAIN runs : EndRun(s)
        BY <3>10
      <4>2. s = r
        BY <3>1, <4>1 DEF EndRun
      <4>3. runs[s].owned
        BY <4>1 DEF EndRun
      <4>4. QED
        BY <2>1, <4>2, <4>3
    <3>11. CASE \E s \in DOMAIN runs : ClaimRun(s)
      <4>1. PICK s \in DOMAIN runs : ClaimRun(s)
        BY <3>11
      <4>2. s = r
        BY <3>1, <4>1 DEF ClaimRun
      <4>3. ASSUME NEW over, runs' = [runs EXCEPT ![r].status = over] PROVE FALSE
        <5>1. runs'[r].owned = runs[r].owned
          BY <2>2, <4>3 DEF Run
        <5>2. QED
          BY <2>1, <5>1
      <4>4. QED
        BY <4>1, <4>2, <4>3 DEF ClaimRun
    <3>12. QED
      BY <2>1, <3>2, <3>4, <3>5, <3>7, <3>8, <3>9, <3>10, <3>11 DEF Next, Work, Tick
  <2>4. Minded(batches[b]) /\ q \in DOMAIN runs /\ q \in Nat
    BY <1>1, <2>1, RunsTyped, Bounds DEF Abandoned, Minded, RInv, Links
  <2>5. q # batches[b].active
    <3>1. runs[r].stop = "not_applicable"
      BY <1>1, <2>3, LiveRun
    <3>2. batches[b].active # None => batches[b].active = r
      BY <1>1, <2>3, LiveRun
    <3>3. q # None /\ q # r
      BY <2>1, <2>4, <3>1, Bounds
    <3>4. QED
      BY <3>2, <3>3
  <2>6. /\ now \in Nat /\ runs[q].ended \in Nat /\ runs[q].wait \in Nat
        /\ batches[b].notBefore # None => batches[b].notBefore \in Nat
    <3>1. now \in Nat
      BY <1>1 DEF RInv, TypeOK, RecoveryAssumption
    <3>2. runs[q].ended \in Nat /\ runs[q].wait \in Nat
      BY <2>2, <2>4, Bounds DEF Run
    <3>3. batches[b].notBefore # None => batches[b].notBefore \in Nat
      BY <1>1 DEF RInv, TypeOK, Batch
    <3>4. QED
      BY <3>1, <3>2, <3>3
  <2>7. \/ runs[q].ended + runs[q].wait <= now
        \/ /\ batches[b].notBefore # None
           /\ runs[q].ended + runs[q].wait <= batches[b].notBefore
    BY <1>1, <2>1, <2>4, <2>5 DEF RInv, Waiting, Waited
  <2>8. batches[b].notBefore # None => batches[b].notBefore <= now
    <3>1. CASE b = runs[r].batch
      <4>1. b # None
        BY <1>1, RunsTyped DEF RInv
      <4>2. QED
        BY <2>3, <2>6, <3>1, <4>1 DEF Valid
    <3>2. CASE b # runs[r].batch
      BY <1>1, <2>3, <3>2 DEF RInv, Host
    <3>3. QED
      BY <3>1, <3>2
  <2>9. QED
    BY <2>6, <2>7, <2>8
<1>2. QED
  BY <1>1, RecoveryAgrees, PTL DEF WaitHonoured, Spec
=============================================================================
