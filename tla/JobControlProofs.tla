-------------------------- MODULE JobControlProofs --------------------------
(***************************************************************************)
(* Theorems about JobControl, for any number of collectors, jobs, workers   *)
(* and claims; also about their AI runs: how many attempts they have, and   *)
(* which of them is the candidate under review.                             *)
(***************************************************************************)
EXTENDS JobControl, TLAPS, FiniteSetTheorems

(* The inductive invariant *)

\* A job that was not created yet has left no trace; one that was has a
\* complete payload.
Absent == \A o \in Op :
    /\ ~Exists(o) => /\ operation[o].cancelRequested = FALSE
                     /\ job[o] = [status |-> "none", attempts |-> 0, lease |-> "none"]
                     /\ payload[o] = NoPayload
                     /\ run[o] = "none"
                     /\ resultOf[o] = 0
    /\ Exists(o) => payload[o] \in Payload

\* A worker that is not idle holds a job that exists, under a claim number
\* that was given out for it, and has the exception it will report.
Holding == \A w \in Worker : worker[w].pc # "idle" =>
    /\ worker[w].op \in Op
    /\ Exists(worker[w].op)
    /\ worker[w].token \in 1..job[worker[w].op].attempts
    /\ worker[w].exc = "cancelled" => operation[worker[w].op].cancelRequested

\* No two workers hold a job under the same claim number.
TokensDiffer == \A v, w \in Worker :
    /\ worker[v].pc # "idle" /\ worker[w].pc # "idle"
    /\ worker[v].op = worker[w].op
    /\ worker[v].token = worker[w].token
    => v = w

\* A job has a lease exactly while it is processed, a queued one has no claim
\* and no cancellation pending, and a result belongs to a success.
Leases == \A o \in Op :
    /\ job[o].status = "processing" <=> job[o].lease # "none"
    /\ job[o].status = "queued" =>
          job[o].attempts = 0 /\ ~operation[o].cancelRequested
    /\ job[o].attempts <= payload[o].limit
    /\ resultOf[o] # 0 => operation[o].status = "succeeded"

IInv == /\ TypeOK /\ Absent /\ Holding /\ TokensDiffer /\ Leases
        /\ JobFollowsOperation /\ CancelHonoured
        /\ OneTaskPerCollector /\ JobContextStable

-----------------------------------------------------------------------------
(* The attempts of an AI run stay a sequence of statuses *)

\* finish_resources closes the running attempts and keeps the others.
LEMMA CloseRunningType ==
    ASSUME NEW a \in Seq(AttemptStatus), NEW s \in FinalStatus
    PROVE  CloseRunning(a, s) \in Seq(AttemptStatus)
<1>1. PICK n \in Nat : a \in [1..n -> AttemptStatus]
  OBVIOUS
<1>2. DOMAIN a = 1..n
  BY <1>1
<1>3. CloseRunning(a, s) \in [1..n -> AttemptStatus]
  BY <1>1, <1>2 DEF CloseRunning, AttemptStatus
<1> QED
  BY <1>3

\* start_ai_attempt appends a running attempt.
LEMMA StartedType ==
    ASSUME NEW a \in Seq(AttemptStatus)
    PROVE  Append(a, "running") \in Seq(AttemptStatus) /\ Len(a) \in Nat
BY DEF AttemptStatus

\* finish_ai_attempt overwrites the status of one attempt.
LEMMA FinishedType ==
    ASSUME NEW a \in Seq(AttemptStatus), NEW i
    PROVE  [a EXCEPT ![i] = "succeeded"] \in Seq(AttemptStatus)
<1>1. PICK n \in Nat : a \in [1..n -> AttemptStatus]
  OBVIOUS
<1>2. [a EXCEPT ![i] = "succeeded"] \in [1..n -> AttemptStatus]
  BY <1>1 DEF AttemptStatus, FinalStatus
<1> QED
  BY <1>2

-----------------------------------------------------------------------------
(* Steps that only change what a worker holds *)

\* A worker that goes idle, or goes on with the job it holds, keeps IInv,
\* whatever it writes to its AI run and if it marks only a live run running.
LEMMA WorkerStep ==
    ASSUME IInv, UNCHANGED <<operation, job, payload, collector, resultOf>>,
           aiRun' \in [Op -> AiRunType],
           run' \in [Op -> {"none"} \cup LiveStatus \cup RunFinal],
           \A o \in Op : \/ run'[o] = run[o]
                         \/ Active(o) /\ run'[o] = "running",
           NEW w \in Worker, NEW r \in WorkerType,
           worker' = [worker EXCEPT ![w] = r],
           r.pc # "idle" => /\ worker[w].pc # "idle"
                            /\ r.op = worker[w].op /\ r.token = worker[w].token
                            /\ r.exc = "cancelled" => operation[r.op].cancelRequested
    PROVE  IInv'
<1> USE DEF IInv
<1>1. TypeOK'
  BY DEF TypeOK
<1>2. Absent' /\ Leases'
  <2>1. \A o \in Op : Active(o) => Exists(o)
    BY DEF Active, Exists, LiveStatus
  <2> QED
    BY <2>1 DEF Absent, Leases, Exists
<1>3. worker' \in [Worker -> WorkerType] /\ \A v \in Worker : v # w => worker'[v] = worker[v]
  BY DEF TypeOK
<1>4. worker'[w] = r
  BY DEF TypeOK
<1>5. Holding'
  BY <1>3, <1>4 DEF Holding, Exists
<1>6. TokensDiffer'
  BY <1>3, <1>4 DEF TokensDiffer
<1>7. JobFollowsOperation' /\ CancelHonoured'
  <2>1. \A o \in Op : /\ run'[o] = run[o] \/ (Active(o) /\ run'[o] \in LiveStatus)
                      /\ Active(o)' = Active(o) /\ Terminal(o)' = Terminal(o)
    BY DEF Active, Terminal, LiveStatus
  <2>2. JobFollowsOperation'
    BY <2>1 DEF JobFollowsOperation
  <2>3. CancelHonoured'
    BY <2>1 DEF CancelHonoured
  <2> QED
    BY <2>2, <2>3
<1>8. OneTaskPerCollector' /\ JobContextStable'
  BY DEF OneTaskPerCollector, OneTask, JobContextStable, Active, Of, IsExplore
<1> QED
  BY <1>1, <1>2, <1>5, <1>6, <1>7, <1>8

-----------------------------------------------------------------------------
(* Steps that end an operation without a result *)

\* finish_resources on an operation under way keeps IInv, whatever worker it
\* sends back to its loop, when the status says whether it was cancelled.
LEMMA FinishStep ==
    ASSUME IInv, NEW o \in Op, Active(o),
           NEW s \in {"failed", "cancelled", "timed_out"}, NEW flag \in BOOLEAN,
           (s = "cancelled") <=> flag, operation[o].cancelRequested => flag,
           FinishResources(o, s, flag),
           worker' \in [Worker -> WorkerType],
           \A v \in Worker : worker'[v] = worker[v] \/ worker'[v].pc = "idle"
    PROVE  IInv'
<1> DEFINE c == payload[o].collector
<1>0. /\ TypeOK /\ Absent /\ Holding /\ TokensDiffer /\ Leases
      /\ JobFollowsOperation /\ CancelHonoured
      /\ OneTaskPerCollector /\ JobContextStable
  BY DEF IInv
<1>1. payload[o] \in Payload /\ c \in Collector /\ Exists(o)
  BY <1>0 DEF Absent, Payload, Exists, Active, LiveStatus
<1>2. /\ operation' = [operation EXCEPT ![o] = [status |-> s, cancelRequested |-> flag]]
      /\ job' = [job EXCEPT ![o].status = "failed", ![o].lease = "none"]
      /\ collector' = [collector EXCEPT ![c] = Released(collector[c], o)]
      /\ UNCHANGED <<payload, resultOf>>
  BY DEF FinishResources
<1>3. run' = IF IsExplore(o) THEN run ELSE [run EXCEPT ![o] = s]
  BY DEF FinishResources
<1>4. aiRun' \in [Op -> AiRunType]
  <2>1. CloseRunning(aiRun[o].attempts, s) \in Seq(AttemptStatus)
    BY <1>0, CloseRunningType DEF TypeOK, AiRunType, FinalStatus
  <2> QED
    BY <1>0, <2>1 DEF FinishResources, TypeOK, AiRunType, FinalStatus
<1>5. collector[c].activeOp = o
  BY <1>0, <1>1 DEF OneTaskPerCollector, OneTask, Of
<1>6. Released(collector[c], o) =
        [collector[c] EXCEPT !.activeOp = NoOp,
           !.status = IF IsExplore(o) THEN payload[o].previousStatus
                                      ELSE collector[c].status]
  BY <1>5 DEF Released
<1>7. TypeOK'
  <2>1. operation' \in [Op -> OperationType]
    BY <1>0, <1>2 DEF TypeOK, OperationType, FinalStatus
  <2>2. job' \in [Op -> JobType]
    <3>1. job \in [Op -> JobType]
      BY <1>0 DEF TypeOK
    <3> QED
      BY <3>1, <1>2 DEF JobType
  <2>3. run' \in [Op -> {"none"} \cup LiveStatus \cup RunFinal]
    BY <1>0, <1>3 DEF TypeOK, RunFinal, FinalStatus
  <2>4. collector' \in [Collector -> CollectorType]
    <3>1. collector \in [Collector -> CollectorType] /\ collector[c] \in CollectorType
      BY <1>0, <1>1 DEF TypeOK
    <3>2. payload[o].previousStatus \in {"draft", "ready_review", "published"}
      BY <1>1 DEF Payload
    <3>3. Released(collector[c], o) \in CollectorType
      BY <3>1, <3>2, <1>6 DEF CollectorType
    <3> QED
      BY <3>1, <3>3, <1>2
  <2> QED
    BY <1>0, <1>2, <1>4, <2>1, <2>2, <2>3, <2>4 DEF TypeOK
<1>8. Absent' /\ Leases'
  <2>1. /\ operation'[o].status = s /\ operation'[o].cancelRequested = flag
        /\ job'[o].status = "failed" /\ job'[o].lease = "none"
        /\ job'[o].attempts = job[o].attempts
        /\ \A p \in Op : p # o => /\ operation'[p] = operation[p]
                                  /\ job'[p] = job[p] /\ run'[p] = run[p]
        /\ payload' = payload /\ resultOf' = resultOf
    BY <1>0, <1>2, <1>3 DEF TypeOK
  <2>2. operation[o].status # "succeeded" /\ resultOf'[o] = 0
    BY <1>0, <1>2 DEF Leases, TypeOK, Active, LiveStatus
  <2>3. Exists(o)' /\ \A p \in Op : p # o => Exists(p)' = Exists(p)
    BY <2>1 DEF Exists
  <2>4. Absent'
    BY <1>0, <1>1, <2>1, <2>3 DEF Absent
  <2>5. Leases'
    BY <1>0, <2>1, <2>2 DEF Leases
  <2> QED
    BY <2>4, <2>5
<1>9. Holding'
  BY <1>0, <1>2 DEF Holding, TypeOK, Exists
<1>10. TokensDiffer'
  BY <1>0 DEF TokensDiffer
<1>11. JobFollowsOperation' /\ CancelHonoured'
  BY <1>0, <1>1, <1>2, <1>3
  DEF JobFollowsOperation, CancelHonoured, Active, Terminal, TypeOK, Leases,
      LiveStatus, FinalStatus, IsExplore, Payload
<1>12. OneTaskPerCollector'
  BY <1>0, <1>1, <1>2, <1>5, <1>6
  DEF OneTaskPerCollector, OneTask, Active, Of, IsExplore, TypeOK, LiveStatus, Payload
<1>13. JobContextStable'
  BY <1>0, <1>1, <1>2, <1>6 DEF JobContextStable, Active, TypeOK, LiveStatus
<1> QED
  BY <1>7, <1>8, <1>9, <1>10, <1>11, <1>12, <1>13 DEF IInv

-----------------------------------------------------------------------------
(* Steps that change an operation and leave it under way *)

\* Progress, or a cancellation that waits for the worker that holds the job.
LEMMA LiveStep ==
    ASSUME IInv, UNCHANGED <<job, payload, run, collector, worker, resultOf>>,
           aiRun' \in [Op -> AiRunType],
           NEW o \in Op, Active(o), NEW row \in OperationType,
           operation' = [operation EXCEPT ![o] = row],
           row.status \in LiveStatus,
           operation[o].cancelRequested => row.cancelRequested,
           row.cancelRequested => job[o].status = "processing"
    PROVE  IInv'
<1> USE DEF IInv
<1>1. /\ operation' \in [Op -> OperationType] /\ operation'[o] = row
      /\ \A p \in Op : p # o => operation'[p] = operation[p]
  BY DEF TypeOK
<1>2. /\ \A p \in Op : Active(p)' = Active(p) /\ Exists(p)' = Exists(p)
      /\ \A p \in Op : Terminal(p)' = Terminal(p)
      /\ operation[o].status # "succeeded" /\ row.status # "succeeded"
      /\ row.status # "cancelled" /\ row.status \notin FinalStatus
  BY <1>1 DEF Active, Exists, Terminal, LiveStatus, FinalStatus
<1>3. TypeOK'
  BY <1>1 DEF TypeOK
<1>4. Absent'
  BY <1>1, <1>2 DEF Absent, Exists, Active, LiveStatus
<1>5. Holding'
  BY <1>1, <1>2 DEF Holding
<1>6. TokensDiffer'
  BY DEF TokensDiffer
<1>7. Leases'
  BY <1>1, <1>2 DEF Leases
<1>8. JobFollowsOperation'
  BY <1>1, <1>2 DEF JobFollowsOperation
<1>9. CancelHonoured'
  BY <1>1, <1>2 DEF CancelHonoured, Terminal
<1>10. OneTaskPerCollector' /\ JobContextStable'
  BY <1>2 DEF OneTaskPerCollector, OneTask, JobContextStable, Of, IsExplore
<1> QED
  BY <1>3, <1>4, <1>5, <1>6, <1>7, <1>8, <1>9, <1>10

\* A lease that runs out changes nothing but the lease.
LEMMA ExpireStep ==
    ASSUME IInv, NEW o \in Op, ExpireLease(o)
    PROVE  IInv'
<1> USE DEF IInv
<1>1. job \in [Op -> JobType]
  BY DEF TypeOK
<1>2. /\ job' \in [Op -> JobType]
      /\ \A p \in Op : /\ job'[p].status = job[p].status
                       /\ job'[p].attempts = job[p].attempts
      /\ \A p \in Op : p # o => job'[p] = job[p]
      /\ job[o].lease = "live" /\ job'[o].lease = "expired"
      /\ UNCHANGED <<operation, payload, aiRun, run, collector, worker, resultOf>>
  BY <1>1 DEF ExpireLease, JobType
<1>3. \A p \in Op : /\ Active(p)' = Active(p) /\ Exists(p)' = Exists(p)
                    /\ Terminal(p)' = Terminal(p)
  BY <1>2 DEF Active, Exists, Terminal
<1>4. TypeOK'
  BY <1>2 DEF TypeOK
<1>5. Exists(o)
  BY <1>2 DEF Absent
<1>6. Absent' /\ Leases'
  BY <1>2, <1>3, <1>5 DEF Absent, Leases
<1>7. Holding' /\ TokensDiffer'
  BY <1>2, <1>3 DEF Holding, TokensDiffer
<1>8. JobFollowsOperation' /\ CancelHonoured'
  BY <1>2, <1>3 DEF JobFollowsOperation, CancelHonoured
<1>9. OneTaskPerCollector' /\ JobContextStable'
  BY <1>2, <1>3 DEF OneTaskPerCollector, OneTask, JobContextStable, Of, IsExplore
<1> QED
  BY <1>4, <1>6, <1>7, <1>8, <1>9

-----------------------------------------------------------------------------
(* A command is accepted *)

\* create_async_command for an exploration or a run: the guards leave the
\* collector without another operation under way.
LEMMA CreateStep ==
    ASSUME IInv, NEW o \in Op, NEW c \in Collector, NEW limit \in Limits,
           NEW kind \in {"explore", "run"},
           NEW status \in {"exploring", "published"},
           (status = "exploring") <=> (kind = "explore"),
           CreateCommand(o, c, kind, limit, status),
           aiRun' \in [Op -> AiRunType],
           run' = IF kind = "run" THEN [run EXCEPT ![o] = "queued"] ELSE run
    PROVE  IInv'
<1>0. /\ TypeOK /\ Absent /\ Holding /\ TokensDiffer /\ Leases
      /\ JobFollowsOperation /\ CancelHonoured
      /\ OneTaskPerCollector /\ JobContextStable
  BY DEF IInv
<1>1. ~Exists(o) /\ ~collector[c].archived /\ \A p \in Of(c) : ~Active(p)
  BY DEF CreateCommand, NextOp, Blocked
<1>2. /\ operation[o] = [status |-> "absent", cancelRequested |-> FALSE]
      /\ job[o] = [status |-> "none", attempts |-> 0, lease |-> "none"]
      /\ payload[o] = NoPayload /\ run[o] = "none" /\ resultOf[o] = 0
  BY <1>0, <1>1 DEF Absent, TypeOK, OperationType, Exists
<1>3. collector[c] \in CollectorType /\ collector[c].status # "exploring"
  BY <1>0, <1>1 DEF TypeOK, OneTaskPerCollector, OneTask
<1> DEFINE pay == [kind |-> kind, collector |-> c,
                   previousStatus |-> collector[c].status,
                   revision |-> collector[c].revision, limit |-> limit]
<1>4. pay \in Payload
  BY <1>3 DEF Payload, CollectorType
<1>5. /\ operation' \in [Op -> OperationType]
      /\ operation'[o].status = "queued" /\ operation'[o].cancelRequested = FALSE
      /\ \A p \in Op : p # o => operation'[p] = operation[p]
  <2>1. operation \in [Op -> OperationType]
    BY <1>0 DEF TypeOK
  <2>2. operation' = [operation EXCEPT ![o].status = "queued"]
    BY DEF CreateCommand
  <2>3. operation[o].cancelRequested = FALSE
    BY <1>2
  <2> QED
    BY <2>1, <2>2, <2>3 DEF OperationType, LiveStatus
<1>6. /\ job' \in [Op -> JobType]
      /\ job'[o].status = "queued" /\ job'[o].attempts = 0 /\ job'[o].lease = "none"
      /\ \A p \in Op : p # o => job'[p] = job[p]
  <2>1. job \in [Op -> JobType]
    BY <1>0 DEF TypeOK
  <2>2. job' = [job EXCEPT ![o].status = "queued"]
    BY DEF CreateCommand
  <2> QED
    BY <1>2, <2>1, <2>2 DEF JobType
<1>7. /\ payload' \in [Op -> Payload \cup {NoPayload}]
      /\ payload'[o] = pay /\ \A p \in Op : p # o => payload'[p] = payload[p]
  BY <1>0, <1>4 DEF CreateCommand, TypeOK
<1>8. /\ collector' \in [Collector -> CollectorType]
      /\ collector'[c].activeOp = o /\ collector'[c].status = status
      /\ collector'[c].archived = collector[c].archived
      /\ collector'[c].revision = collector[c].revision
      /\ \A d \in Collector : d # c => collector'[d] = collector[d]
  <2>1. collector \in [Collector -> CollectorType]
    BY <1>0 DEF TypeOK
  <2>2. collector' = [collector EXCEPT ![c].status = status, ![c].activeOp = o]
    BY DEF CreateCommand
  <2> QED
    BY <2>1, <2>2 DEF CollectorType
<1>9. /\ run' \in [Op -> {"none"} \cup LiveStatus \cup RunFinal]
      /\ kind = "run" => run'[o] = "queued"
      /\ kind # "run" => run'[o] = "none"
      /\ \A p \in Op : p # o => run'[p] = run[p]
  BY <1>0, <1>2 DEF TypeOK, LiveStatus
<1>10. UNCHANGED <<worker, resultOf>>
  BY DEF CreateCommand
<1>11. /\ Active(o)' /\ Exists(o)' /\ ~Terminal(o)'
       /\ \A p \in Op : p # o => /\ Active(p)' = Active(p)
                                 /\ Exists(p)' = Exists(p)
                                 /\ Terminal(p)' = Terminal(p)
  BY <1>5 DEF Active, Exists, Terminal, LiveStatus, FinalStatus
<1>12. TypeOK'
  BY <1>0, <1>5, <1>6, <1>7, <1>8, <1>9, <1>10 DEF TypeOK
<1>13. Absent'
  BY <1>0, <1>4, <1>5, <1>6, <1>7, <1>9, <1>10, <1>11 DEF Absent
<1>14. Holding' /\ TokensDiffer'
  BY <1>0, <1>1, <1>5, <1>6, <1>10, <1>11 DEF Holding, TokensDiffer
<1>15. Leases'
  <2>1. pay.limit = limit /\ limit \in Nat
    BY AttemptsAssumption DEF Limits
  <2> QED
    BY <1>0, <1>2, <1>5, <1>6, <1>7, <1>10, <2>1 DEF Leases
<1>16. JobFollowsOperation'
  BY <1>0, <1>5, <1>6, <1>7, <1>9, <1>11 DEF JobFollowsOperation, LiveStatus
<1>17. CancelHonoured'
  BY <1>0, <1>5, <1>10, <1>11 DEF CancelHonoured
<1>18. OneTaskPerCollector'
  <2>1. /\ \A p \in Op : p # o => (IsExplore(p)' = IsExplore(p))
        /\ IsExplore(o)' = (kind = "explore")
    BY <1>7 DEF IsExplore
  <2>2. Of(c)' = Of(c) \cup {o}
    BY <1>7 DEF Of
  <2>3. \A d \in Collector : d # c => Of(d)' = Of(d) /\ o \notin Of(d)
    BY <1>2, <1>7, CollectorAssumption DEF Of, NoPayload
  <2>4. o # NoOp /\ \A d \in Collector : Of(d) \subseteq Op
    BY OpAssumption DEF NoOp, Of
  <2>5. OneTask(c)'
    <3>1. \A p \in Of(c)' : Active(p)' => p = o
      BY <1>1, <1>11, <2>2, <2>4
    <3>2. o \in Of(c)' /\ Active(o)' /\ IsExplore(o)' = (kind = "explore")
      BY <1>11, <2>1, <2>2
    <3>3. collector'[c].activeOp = o /\ collector'[c].status = status /\ o # NoOp
      BY <1>8, <2>4
    <3> QED
      BY <3>1, <3>2, <3>3 DEF OneTask, Active, IsExplore
  <2>6. ASSUME NEW d \in Collector, d # c
        PROVE  OneTask(d)'
    <3>1. collector'[d] = collector[d] /\ Of(d)' = Of(d) /\ o \notin Of(d) /\ Of(d) \subseteq Op
      BY <1>8, <2>3, <2>4, <2>6
    <3>2. OneTask(d)
      BY <1>0 DEF OneTaskPerCollector
    <3>3. \A p \in Of(d) : Active(p)' = Active(p) /\ IsExplore(p)' = IsExplore(p)
      BY <1>11, <2>1, <3>1
    <3> QED
      BY <3>1, <3>2, <3>3 DEF OneTask, Active, IsExplore
  <2> QED
    BY <2>5, <2>6 DEF OneTaskPerCollector
<1>19. JobContextStable'
  <2>1. \A d \in Collector : /\ collector'[d].archived = collector[d].archived
                             /\ collector'[d].revision = collector[d].revision
    BY <1>8
  <2>2. \A p \in Op : Active(p) => payload[p].collector \in Collector
    BY <1>0 DEF Absent, Active, Exists, LiveStatus, Payload
  <2>3. payload'[o].collector = c /\ payload'[o].revision = collector[c].revision
    BY <1>7
  <2> QED
    BY <1>0, <1>1, <1>7, <1>11, <2>1, <2>2, <2>3 DEF JobContextStable
<1> QED
  BY <1>12, <1>13, <1>14, <1>15, <1>16, <1>17, <1>18, <1>19 DEF IInv

-----------------------------------------------------------------------------
(* A job is claimed *)

\* The next claim of a job gets a number no worker holds.
LEMMA ClaimStep ==
    ASSUME IInv, NEW w \in Worker, NEW o \in Op, Claimable(o),
           ~operation[o].cancelRequested, ~Exhausted(o), ClaimAttempt(w, o),
           UNCHANGED <<operation, payload, aiRun, run, collector, resultOf>>
    PROVE  IInv'
<1>0. /\ TypeOK /\ Absent /\ Holding /\ TokensDiffer /\ Leases
      /\ JobFollowsOperation /\ CancelHonoured
      /\ OneTaskPerCollector /\ JobContextStable
  BY DEF IInv
<1>1. /\ job \in [Op -> JobType] /\ worker \in [Worker -> WorkerType]
      /\ job[o].attempts \in 0..MaxAttempts
  BY <1>0 DEF TypeOK, JobType
<1>2. job[o].status \in {"queued", "processing"} /\ Active(o) /\ Exists(o)
  BY <1>0 DEF Claimable, JobFollowsOperation, Active, Exists, LiveStatus
<1>3. payload[o] \in Payload /\ payload[o].limit <= MaxAttempts /\ payload[o].limit \in Nat
  BY <1>0, <1>2, AttemptsAssumption DEF Absent, Payload, Limits
<1>4. job[o].attempts + 1 \in 1..MaxAttempts /\ job[o].attempts + 1 <= payload[o].limit
  BY <1>1, <1>3, AttemptsAssumption DEF Exhausted
<1>5. /\ job' \in [Op -> JobType]
      /\ job'[o].status = "processing" /\ job'[o].lease = "live"
      /\ job'[o].attempts = job[o].attempts + 1
      /\ \A p \in Op : p # o => job'[p] = job[p]
  <2>1. job' = [job EXCEPT ![o].status = "processing", ![o].attempts = @ + 1,
                           ![o].lease = "live"]
    BY DEF ClaimAttempt
  <2> QED
    BY <1>1, <1>4, <2>1, AttemptsAssumption DEF JobType
<1>6. /\ worker' \in [Worker -> WorkerType]
      /\ worker'[w].pc = "claimed" /\ worker'[w].op = o /\ worker'[w].exc = "none"
      /\ worker'[w].token = job[o].attempts + 1
      /\ \A v \in Worker : v # w => worker'[v] = worker[v]
  <2>1. [pc |-> "claimed", op |-> o, token |-> job[o].attempts + 1,
         exc |-> "none", attempt |-> 0] \in WorkerType
    BY <1>4, AttemptsAssumption DEF WorkerType
  <2> QED
    BY <1>1, <2>1 DEF ClaimAttempt
<1>7. TypeOK'
  BY <1>0, <1>5, <1>6 DEF TypeOK
<1>8. Absent'
  BY <1>0, <1>2, <1>5 DEF Absent, Exists
<1>9. Holding'
  <2>1. ASSUME NEW v \in Worker, v # w, worker[v].pc # "idle"
        PROVE  /\ worker[v].op \in Op /\ Exists(worker[v].op)
               /\ worker[v].token \in 1..job'[worker[v].op].attempts
               /\ worker[v].exc = "cancelled" => operation[worker[v].op].cancelRequested
    BY <1>0, <1>1, <1>5, <2>1 DEF Holding
  <2>2. Exists(o) /\ job[o].attempts + 1 \in 1..job'[o].attempts
    BY <1>2, <1>4, <1>5
  <2> QED
    BY <1>6, <2>1, <2>2 DEF Holding, Exists
<1>10. TokensDiffer'
  <2>1. \A v \in Worker : v # w /\ worker[v].pc # "idle" /\ worker[v].op = o
                           => worker[v].token # job[o].attempts + 1
    BY <1>0, <1>1 DEF Holding
  <2> QED
    BY <1>0, <1>6, <2>1 DEF TokensDiffer
<1>11. Leases'
  BY <1>0, <1>4, <1>5 DEF Leases
<1>12. JobFollowsOperation' /\ CancelHonoured'
  BY <1>0, <1>2, <1>5 DEF JobFollowsOperation, CancelHonoured, Active, Terminal
<1>13. OneTaskPerCollector' /\ JobContextStable'
  BY <1>0 DEF OneTaskPerCollector, OneTask, JobContextStable, Active, Of, IsExplore
<1> QED
  BY <1>7, <1>8, <1>9, <1>10, <1>11, <1>12, <1>13 DEF IInv

-----------------------------------------------------------------------------
(* A result is committed *)

LEMMA CommitStep ==
    ASSUME IInv, NEW w \in Worker, NEW o \in Op, worker[w].op = o,
           worker[w].pc = "working",
           NEW status \in {"draft", "ready_review", "published"},
           CommitResult(w, o, status),
           aiRun' \in [Op -> AiRunType],
           NEW s \in {"succeeded", "partially_succeeded", "failed"},
           run' = IF payload[o].kind = "run" THEN [run EXCEPT ![o] = s] ELSE run
    PROVE  IInv'
<1>0. /\ TypeOK /\ Absent /\ Holding /\ TokensDiffer /\ Leases
      /\ JobFollowsOperation /\ CancelHonoured
      /\ OneTaskPerCollector /\ JobContextStable
  BY DEF IInv
<1>1. /\ Active(o) /\ ~operation[o].cancelRequested /\ job[o].attempts = worker[w].token
      /\ UNCHANGED payload
  BY DEF CommitResult, Owned, Fenced
<1>2. Exists(o) /\ payload[o] \in Payload /\ payload[o].collector \in Collector
  BY <1>0, <1>1 DEF Absent, Payload, Exists, Active, LiveStatus
<1>c. PICK c \in Collector : c = payload[o].collector
  BY <1>2
<1>3. collector[c].activeOp = o /\ o # NoOp
  BY <1>0, <1>1, <1>c, OpAssumption DEF OneTaskPerCollector, OneTask, Of, NoOp
<1>4. /\ operation' \in [Op -> OperationType]
      /\ operation'[o].status = "succeeded"
      /\ operation'[o].cancelRequested = operation[o].cancelRequested
      /\ \A p \in Op : p # o => operation'[p] = operation[p]
  <2>1. operation \in [Op -> OperationType]
    BY <1>0 DEF TypeOK
  <2>2. operation' = [operation EXCEPT ![o].status = "succeeded"]
    BY DEF CommitResult
  <2> QED
    BY <2>1, <2>2 DEF OperationType, FinalStatus
<1>5. /\ job' \in [Op -> JobType]
      /\ job'[o].status = "completed" /\ job'[o].lease = "none"
      /\ job'[o].attempts = job[o].attempts
      /\ \A p \in Op : p # o => job'[p] = job[p]
  <2>1. job \in [Op -> JobType]
    BY <1>0 DEF TypeOK
  <2>2. job' = [job EXCEPT ![o].status = "completed", ![o].lease = "none"]
    BY DEF CommitResult
  <2> QED
    BY <2>1, <2>2 DEF JobType
<1>6. /\ collector' \in [Collector -> CollectorType]
      /\ collector'[c].activeOp = NoOp /\ collector'[c].status = status
      /\ \A d \in Collector : /\ collector'[d].archived = collector[d].archived
                              /\ collector'[d].revision = collector[d].revision
      /\ \A d \in Collector : d # c => collector'[d] = collector[d]
  <2>1. collector \in [Collector -> CollectorType]
    BY <1>0 DEF TypeOK
  <2>2. collector' = [collector EXCEPT ![c].activeOp = NoOp, ![c].status = status]
    BY <1>c DEF CommitResult
  <2> QED
    BY <2>1, <2>2 DEF CollectorType
<1>7. /\ worker' \in [Worker -> WorkerType] /\ worker'[w].pc = "idle"
      /\ \A v \in Worker : v # w => worker'[v] = worker[v]
  <2>1. Idle \in WorkerType
    BY AttemptsAssumption DEF Idle, WorkerType
  <2> QED
    BY <1>0, <2>1 DEF TypeOK, CommitResult, Idle
<1>8. /\ resultOf' \in [Op -> 0..MaxAttempts]
      /\ \A p \in Op : p # o => resultOf'[p] = resultOf[p]
  <2>1. worker[w].token \in 0..MaxAttempts
    BY <1>0 DEF TypeOK, WorkerType
  <2> QED
    BY <1>0, <2>1 DEF TypeOK, CommitResult
<1>9. /\ run' \in [Op -> {"none"} \cup LiveStatus \cup RunFinal]
      /\ payload[o].kind = "run" => run'[o] \notin LiveStatus
      /\ \A p \in Op : p # o => run'[p] = run[p]
  BY <1>0 DEF TypeOK, LiveStatus, RunFinal, FinalStatus
<1>10. /\ ~Active(o)' /\ Exists(o)' /\ Terminal(o)'
       /\ \A p \in Op : p # o => /\ Active(p)' = Active(p)
                                 /\ Exists(p)' = Exists(p)
                                 /\ Terminal(p)' = Terminal(p)
  BY <1>4 DEF Active, Exists, Terminal, LiveStatus, FinalStatus
<1>11. TypeOK'
  BY <1>0, <1>1, <1>4, <1>5, <1>6, <1>7, <1>8, <1>9 DEF TypeOK
<1>12. Absent'
  BY <1>0, <1>1, <1>2, <1>4, <1>5, <1>8, <1>9, <1>10 DEF Absent
<1>13. Holding'
  <2>1. \A p \in Op : /\ job'[p].attempts = job[p].attempts
                      /\ operation'[p].cancelRequested = operation[p].cancelRequested
                      /\ Exists(p) => Exists(p)'
    BY <1>4, <1>5, <1>10
  <2> QED
    BY <1>0, <1>7, <2>1 DEF Holding, Exists
<1>14. TokensDiffer'
  BY <1>0, <1>7 DEF TokensDiffer
<1>15. Leases'
  BY <1>0, <1>1, <1>4, <1>5, <1>8 DEF Leases
<1>16. JobFollowsOperation'
  BY <1>0, <1>1, <1>4, <1>5, <1>9, <1>10 DEF JobFollowsOperation
<1>17. CancelHonoured'
  BY <1>0, <1>1, <1>4, <1>8, <1>10 DEF CancelHonoured
<1>18. OneTaskPerCollector'
  <2>1. \A d \in Collector : Of(d)' = Of(d) /\ Of(d) \subseteq Op
    BY <1>1 DEF Of
  <2>2. \A p \in Of(c) : ~Active(p)'
    BY <1>0, <1>3, <1>10, <2>1 DEF OneTaskPerCollector, OneTask
  <2>3. OneTask(c)'
    BY <1>6, <2>1, <2>2 DEF OneTask, Active
  <2>4. ASSUME NEW d \in Collector, d # c
        PROVE  OneTask(d)'
    <3>1. collector'[d] = collector[d] /\ o \notin Of(d)
      BY <1>6, <1>c, <2>4 DEF Of
    <3>2. OneTask(d)
      BY <1>0 DEF OneTaskPerCollector
    <3>3. \A p \in Of(d) : Active(p)' = Active(p)
      BY <1>10, <2>1, <3>1
    <3> QED
      BY <1>1, <2>1, <3>1, <3>2, <3>3 DEF OneTask, Active, IsExplore
  <2> QED
    BY <2>3, <2>4 DEF OneTaskPerCollector
<1>19. JobContextStable'
  <2>1. \A p \in Op : Active(p) => payload[p].collector \in Collector
    BY <1>0 DEF Absent, Active, Exists, LiveStatus, Payload
  <2> QED
    BY <1>0, <1>1, <1>6, <1>10, <2>1 DEF JobContextStable
<1> QED
  BY <1>11, <1>12, <1>13, <1>14, <1>15, <1>16, <1>17, <1>18, <1>19 DEF IInv

-----------------------------------------------------------------------------
(* The collector changes, no operation does *)

\* Publishing, and archiving or restoring a collector nothing runs for.
LEMMA CollectorStep ==
    ASSUME IInv, NEW c \in Collector, NEW row \in CollectorType,
           collector' = [collector EXCEPT ![c] = row],
           aiRun' \in [Op -> AiRunType],
           UNCHANGED <<operation, job, payload, run, worker, resultOf>>,
           row.activeOp = collector[c].activeOp,
           (row.status = "exploring") <=> (collector[c].status = "exploring"),
           \/ row.archived = collector[c].archived /\ row.revision = collector[c].revision
           \/ ~Blocked(c)
    PROVE  IInv'
<1> USE DEF IInv
<1>1. /\ collector' \in [Collector -> CollectorType] /\ collector'[c] = row
      /\ \A d \in Collector : d # c => collector'[d] = collector[d]
  BY DEF TypeOK
<1>2. TypeOK'
  BY <1>1 DEF TypeOK
<1>3. Absent' /\ Leases'
  BY DEF Absent, Leases, Exists
<1>4. Holding' /\ TokensDiffer'
  BY DEF Holding, TokensDiffer, Exists
<1>5. JobFollowsOperation' /\ CancelHonoured'
  BY DEF JobFollowsOperation, CancelHonoured, Active, Terminal
<1>6. OneTaskPerCollector'
  BY <1>1 DEF OneTaskPerCollector, OneTask, Active, Of, IsExplore
<1>7. JobContextStable'
  <2>1. ~Blocked(c) => \A p \in Op : payload[p].collector = c => ~Active(p)
    BY DEF Blocked, Of
  <2>2. \A p \in Op : Active(p) => payload[p].collector \in Collector
    BY DEF Absent, Active, Exists, LiveStatus, Payload
  <2>3. \A p \in Op : Active(p)' = Active(p)
    BY DEF Active
  <2> QED
    BY <1>1, <2>1, <2>2, <2>3 DEF JobContextStable
<1> QED
  BY <1>2, <1>3, <1>4, <1>5, <1>6, <1>7

-----------------------------------------------------------------------------
(* IInv is an invariant *)

LEMMA InitIInv == Init => IInv
<1> SUFFICES ASSUME Init PROVE IInv
  OBVIOUS
<1> USE DEF Init, NoOp, NoPayload, NoAiRun, Idle
<1>1. <<>> \in Seq(AttemptStatus)
  OBVIOUS
<1>2. TypeOK
  BY <1>1, AttemptsAssumption, RevisionAssumption
  DEF TypeOK, OperationType, JobType, AiRunType, CollectorType, WorkerType
<1>3. Absent /\ Leases
  BY DEF Absent, Leases, Exists
<1>4. Holding /\ TokensDiffer
  BY DEF Holding, TokensDiffer
<1>5. JobFollowsOperation /\ CancelHonoured
  BY DEF JobFollowsOperation, CancelHonoured, Active, Terminal, LiveStatus, FinalStatus
<1>6. OneTaskPerCollector /\ JobContextStable
  BY CollectorAssumption
  DEF OneTaskPerCollector, OneTask, JobContextStable, Active, Of, LiveStatus
<1> QED
  BY <1>2, <1>3, <1>4, <1>5, <1>6 DEF IInv

\* The commands of the control plane keep IInv.
LEMMA CommandIInv == ASSUME IInv, Command PROVE IInv'
<1>1. ASSUME NEW o \in Op, NEW c \in Collector, CreateExplore(o, c)
      PROVE  IInv'
  <2>1. aiRun' \in [Op -> AiRunType]
    BY <1>1 DEF IInv, TypeOK, CreateExplore, AiRunType, LiveStatus
  <2>2. MaxAttempts \in Limits
    BY DEF Limits
  <2> QED
    BY <1>1, <2>1, <2>2, CreateStep DEF CreateExplore
<1>2. ASSUME NEW o \in Op, NEW c \in Collector, CreateRun(o, c)
      PROVE  IInv'
  <2>1. aiRun' \in [Op -> AiRunType]
    BY <1>2 DEF IInv, TypeOK, CreateRun
  <2>2. PICK limit \in Limits : CreateCommand(o, c, "run", limit, "published")
    BY <1>2 DEF CreateRun
  <2> QED
    BY <1>2, <2>1, <2>2, CreateStep DEF CreateRun
<1>3. ASSUME NEW o \in Op, RequestCancel(o)
      PROVE  IInv'
  <2>1. Active(o) /\ ~operation[o].cancelRequested /\ worker' = worker
    BY <1>3 DEF RequestCancel
  <2>2. worker' \in [Worker -> WorkerType]
    BY <2>1 DEF IInv, TypeOK
  <2>3. CASE job[o].status = "queued" \/ job[o].lease # "live"
    <3>1. FinishResources(o, "cancelled", TRUE)
      BY <1>3, <2>3 DEF RequestCancel
    <3> QED
      BY <2>1, <2>2, <3>1, FinishStep
  <2>4. CASE ~(job[o].status = "queued" \/ job[o].lease # "live")
    <3> DEFINE row == [operation[o] EXCEPT !.cancelRequested = TRUE]
    <3>1. operation[o] \in OperationType /\ aiRun \in [Op -> AiRunType]
      BY DEF IInv, TypeOK
    <3>2. row \in OperationType /\ row.status \in LiveStatus /\ row.cancelRequested
      BY <2>1, <3>1 DEF OperationType, Active
    <3>3. job[o].status = "processing"
      BY <2>4 DEF IInv, Leases
    <3>4. /\ operation' = [operation EXCEPT ![o] = row]
          /\ UNCHANGED <<job, payload, aiRun, run, collector, worker, resultOf>>
      BY <1>3, <2>4 DEF RequestCancel
    <3> QED
      BY <2>1, <3>1, <3>2, <3>3, <3>4, LiveStep
  <2> QED
    BY <2>3, <2>4
<1>4. ASSUME NEW c \in Collector, Publish(c)
      PROVE  IInv'
  <2> DEFINE row == [collector[c] EXCEPT !.status = "published"]
  <2>1. collector[c] \in CollectorType /\ aiRun \in [Op -> AiRunType]
    BY DEF IInv, TypeOK
  <2>2. collector[c].status = "ready_review"
    BY <1>4 DEF Publish
  <2>3. /\ row \in CollectorType /\ row.activeOp = collector[c].activeOp
        /\ row.status = "published"
        /\ row.archived = collector[c].archived /\ row.revision = collector[c].revision
    BY <2>1 DEF CollectorType
  <2>4. aiRun' \in [Op -> AiRunType]
    <3> DEFINE reviewed == {o \in Of(c) : aiRun[o].review = "ready_review"}
    <3>1. \A o \in Op : /\ [aiRun[o] EXCEPT !.review = "published"] \in AiRunType
                       /\ [aiRun[o] EXCEPT !.review = "superseded"] \in AiRunType
      BY <2>1 DEF AiRunType
    <3>2. aiRun' = [o \in Op |->
             IF o \notin reviewed THEN aiRun[o]
             ELSE [aiRun[o] EXCEPT !.review =
                     IF \A p \in reviewed : p <= o THEN "published"
                                                   ELSE "superseded"]]
      BY <1>4 DEF Publish
    <3>3. ASSUME NEW o \in Op
          PROVE  aiRun'[o] \in AiRunType
      <4>1. CASE o \notin reviewed
        BY <2>1, <3>2, <4>1
      <4>2. CASE o \in reviewed /\ \A p \in reviewed : p <= o
        BY <3>1, <3>2, <4>2
      <4>3. CASE o \in reviewed /\ ~(\A p \in reviewed : p <= o)
        BY <3>1, <3>2, <4>3
      <4> QED
        BY <4>1, <4>2, <4>3
    <3> QED
      BY <3>2, <3>3
  <2>5. /\ collector' = [collector EXCEPT ![c] = row]
        /\ UNCHANGED <<operation, job, payload, run, worker, resultOf>>
    BY <1>4 DEF Publish
  <2> QED
    BY <2>2, <2>3, <2>4, <2>5, CollectorStep
<1>5. ASSUME NEW c \in Collector, NEW archived \in BOOLEAN, SetArchived(c, archived)
      PROVE  IInv'
  <2> DEFINE n == collector[c].revision + 1
             row == [collector[c] EXCEPT !.archived = archived, !.revision = n]
  <2>1. collector[c] \in CollectorType /\ aiRun \in [Op -> AiRunType]
    BY DEF IInv, TypeOK
  <2>2. collector[c].revision < MaxRevision /\ ~Blocked(c) /\ aiRun' = aiRun
    BY <1>5 DEF SetArchived
  <2>3. /\ row \in CollectorType /\ row.activeOp = collector[c].activeOp
        /\ row.status = collector[c].status
    <3>1. collector[c].revision \in 0..MaxRevision
      BY <2>1 DEF CollectorType
    <3>2. n \in 0..MaxRevision
      BY <2>2, <3>1, RevisionAssumption
    <3> HIDE DEF n
    <3> QED
      BY <2>1, <3>2 DEF CollectorType
  <2>4. /\ collector' = [collector EXCEPT ![c] = row]
        /\ UNCHANGED <<operation, job, payload, run, worker, resultOf>>
    BY <1>5 DEF SetArchived
  <2>5. aiRun' \in [Op -> AiRunType]
    BY <2>1, <2>2
  <2> HIDE DEF row
  <2> QED
    BY <2>2, <2>3, <2>4, <2>5, CollectorStep
<1> QED
  BY <1>1, <1>2, <1>3, <1>4, <1>5 DEF Command, Archive, Restore

\* claim_job keeps IInv, whether it hands the job out or ends it.
LEMMA TakeJobIInv == ASSUME IInv, NEW w \in Worker, TakeJob(w) PROVE IInv'
<1>1. CASE Claim(w)
  <2>1. PICK o \in Op : /\ NextClaim(o) /\ ~operation[o].cancelRequested
                        /\ ~Exhausted(o) /\ ClaimAttempt(w, o)
    BY <1>1 DEF Claim
  <2> QED
    BY <1>1, <2>1, ClaimStep DEF Claim, NextClaim
<1>2. CASE ClaimEnds(w)
  <2>1. PICK o \in Op :
           /\ NextClaim(o)
           /\ FinishResources(o, IF operation[o].cancelRequested
                                 THEN "cancelled" ELSE "failed",
                              operation[o].cancelRequested)
    BY <1>2 DEF ClaimEnds
  <2>2. Active(o)
    BY <2>1 DEF NextClaim, Claimable, IInv, JobFollowsOperation
  <2>3. operation[o].cancelRequested \in BOOLEAN
    BY DEF IInv, TypeOK, OperationType
  <2>4. worker' = worker /\ worker' \in [Worker -> WorkerType]
    BY <1>2 DEF ClaimEnds, IInv, TypeOK
  <2>5. CASE operation[o].cancelRequested
    <3>1. FinishResources(o, "cancelled", operation[o].cancelRequested)
      BY <2>1, <2>5
    <3> QED
      BY <2>2, <2>3, <2>4, <2>5, <3>1, FinishStep
  <2>6. CASE ~operation[o].cancelRequested
    <3>1. FinishResources(o, "failed", operation[o].cancelRequested)
      BY <2>1, <2>6
    <3> QED
      BY <2>2, <2>3, <2>4, <2>6, <3>1, FinishStep
  <2> QED
    BY <2>5, <2>6
<1> QED
  BY <1>1, <1>2 DEF TakeJob

\* A step that gives a worker another record, and nothing else, keeps IInv.
LEMMA OnlyWorker ==
    ASSUME IInv, UNCHANGED <<operation, job, payload, aiRun, run, collector, resultOf>>,
           NEW w \in Worker, NEW r \in WorkerType,
           worker' = [worker EXCEPT ![w] = r],
           r.pc # "idle" => /\ worker[w].pc # "idle"
                            /\ r.op = worker[w].op /\ r.token = worker[w].token
                            /\ r.exc = "cancelled" => operation[r.op].cancelRequested
    PROVE  IInv'
<1>1. /\ aiRun' \in [Op -> AiRunType]
      /\ run' \in [Op -> {"none"} \cup LiveStatus \cup RunFinal]
  BY DEF IInv, TypeOK
<1> QED
  BY <1>1, WorkerStep

LEMMA IdleType == Idle \in WorkerType /\ Idle.pc = "idle"
BY AttemptsAssumption DEF Idle, WorkerType

\* Every step of a worker between its claim and its return keeps IInv.
LEMMA ProceedIInv ==
    ASSUME IInv, NEW w \in Worker, Proceed(w) \/ Progress(w) \/ Abandon(w)
    PROVE  IInv'
<1> DEFINE o == worker[w].op
<1>0. /\ worker \in [Worker -> WorkerType] /\ worker[w] \in WorkerType
      /\ aiRun \in [Op -> AiRunType] /\ operation \in [Op -> OperationType]
      /\ run \in [Op -> {"none"} \cup LiveStatus \cup RunFinal]
  BY DEF IInv, TypeOK
<1>a. worker[w].pc # "idle" =>
         /\ o \in Op /\ Exists(o) /\ payload[o] \in Payload
         /\ worker[w].exc = "cancelled" => operation[o].cancelRequested
  BY DEF IInv, Holding, Absent
<1>1. CASE Begin(w)
  <2> DEFINE r == [worker[w] EXCEPT !.pc = "owned"]
  <2>1. r \in WorkerType /\ r.op = o /\ r.token = worker[w].token /\ r.exc = worker[w].exc
    BY <1>0 DEF WorkerType
  <2> QED
    BY <1>1, <1>a, <2>1, OnlyWorker DEF Begin
<1>2. CASE Prepare(w)
  <2>1. PICK pc \in {"ready", "failing"}, exc \in {"none", "error"} :
           worker' = [worker EXCEPT ![w].pc = pc, ![w].exc = exc]
    BY <1>2 DEF Prepare
  <2> DEFINE r == [worker[w] EXCEPT !.pc = pc, !.exc = exc]
  <2>2. r \in WorkerType /\ r.op = o /\ r.token = worker[w].token /\ r.exc = exc
    BY <1>0 DEF WorkerType
  <2>3. worker' = [worker EXCEPT ![w] = r]
    BY <1>0, <2>1
  <2>4. /\ worker[w].pc # "idle" /\ exc # "cancelled"
        /\ UNCHANGED <<operation, job, payload, aiRun, run, collector, resultOf>>
    BY <1>2 DEF Prepare
  <2> HIDE DEF r
  <2> QED
    BY <2>2, <2>3, <2>4, OnlyWorker
<1>3. CASE StartAttempt(w)
  <2> DEFINE n == Len(aiRun[o].attempts) + 1
             r == [worker[w] EXCEPT !.pc = "working", !.attempt = n]
  <2>1. /\ aiRun[o] \in AiRunType
        /\ Append(aiRun[o].attempts, "running") \in Seq(AttemptStatus) /\ n \in Nat
    BY <1>0, <1>3, <1>a, StartedType DEF StartAttempt, AiRunType
  <2>2. aiRun' \in [Op -> AiRunType]
    BY <1>0, <1>3, <2>1 DEF StartAttempt, AiRunType, LiveStatus
  <2>3. /\ r \in WorkerType /\ r.op = o /\ r.token = worker[w].token
        /\ r.exc = worker[w].exc
    BY <1>0, <2>1 DEF WorkerType
  <2>4. worker' = [worker EXCEPT ![w] = r]
    BY <1>3 DEF StartAttempt
  <2>5. /\ worker[w].pc # "idle" /\ run' = run
        /\ UNCHANGED <<operation, job, payload, collector, resultOf>>
    BY <1>3 DEF StartAttempt
  <2> QED
    BY <1>0, <1>a, <2>2, <2>3, <2>4, <2>5, WorkerStep
<1>4. CASE MarkRunning(w)
  <2> DEFINE r == [worker[w] EXCEPT !.pc = "working"]
  <2>1. r \in WorkerType /\ r.op = o /\ r.token = worker[w].token /\ r.exc = worker[w].exc
    BY <1>0 DEF WorkerType
  <2>2. /\ worker[w].pc # "idle" /\ Active(o) /\ run' = [run EXCEPT ![o] = "running"]
        /\ worker' = [worker EXCEPT ![w] = r] /\ aiRun' = aiRun
        /\ UNCHANGED <<operation, job, payload, collector, resultOf>>
    BY <1>4 DEF MarkRunning, Owned, Fenced
  <2>3. /\ run' \in [Op -> {"none"} \cup LiveStatus \cup RunFinal]
        /\ \A p \in Op : run'[p] = run[p] \/ (Active(p) /\ run'[p] = "running")
    BY <1>0, <1>a, <2>2 DEF LiveStatus
  <2>4. aiRun' \in [Op -> AiRunType]
    BY <1>0, <2>2
  <2> HIDE DEF r
  <2> QED
    BY <1>a, <2>1, <2>2, <2>3, <2>4, WorkerStep
<1>5. CASE Progress(w)
  <2> DEFINE row == [operation[o] EXCEPT !.status = "running"]
  <2>1. /\ worker[w].pc # "idle" /\ Active(o) /\ ~operation[o].cancelRequested
        /\ job[o].status = "processing"
    BY <1>5 DEF Progress, Owned, Fenced
  <2>2. /\ row \in OperationType /\ row.status \in LiveStatus
        /\ row.cancelRequested = operation[o].cancelRequested
    BY <1>0, <1>a, <2>1 DEF OperationType, LiveStatus
  <2>3. aiRun' \in [Op -> AiRunType]
    BY <1>0, <1>5, <1>a, <2>1 DEF Progress, AiRunType, LiveStatus
  <2>4. /\ operation' = [operation EXCEPT ![o] = row]
        /\ UNCHANGED <<job, payload, run, collector, worker, resultOf>>
    BY <1>5 DEF Progress
  <2> QED
    BY <1>a, <2>1, <2>2, <2>3, <2>4, LiveStep
<1>6. CASE CommitExplore(w)
  <2>1. /\ worker[w].pc = "working" /\ IsExplore(o) /\ CommitResult(w, o, "ready_review")
        /\ run' = run
    BY <1>6 DEF CommitExplore
  <2>2. aiRun' \in [Op -> AiRunType]
    <3> DEFINE ai == [aiRun EXCEPT ![o].attempts[worker[w].attempt] = "succeeded"]
    <3>1. /\ aiRun[o] \in AiRunType
          /\ [aiRun[o].attempts EXCEPT ![worker[w].attempt] = "succeeded"] \in Seq(AttemptStatus)
      BY <1>0, <1>a, <2>1, FinishedType DEF AiRunType
    <3>2. ai \in [Op -> AiRunType]
      BY <1>0, <3>1 DEF AiRunType
    <3>3. aiRun' = ReadyForReview(ai, o)
      BY <1>6 DEF CommitExplore
    <3>4. \A p \in Op : /\ [ai[p] EXCEPT !.review = "superseded"] \in AiRunType
                        /\ ai[p] \in AiRunType
                        /\ ai[p].attempts \in Seq(AttemptStatus)
      BY <3>2 DEF AiRunType
    <3>5. \A p \in Op : [status |-> "succeeded", review |-> "ready_review",
                         attempts |-> ai[p].attempts] \in AiRunType
      BY <3>4 DEF AiRunType, FinalStatus
    <3> QED
      BY <3>3, <3>4, <3>5 DEF ReadyForReview
  <2>3. payload[o].kind # "run"
    BY <2>1 DEF IsExplore
  <2> QED
    BY <1>a, <2>1, <2>2, <2>3, CommitStep
<1>7. CASE CommitRun(w)
  <2> DEFINE status == collector[payload[o].collector].status
  <2>1. /\ worker[w].pc = "working" /\ ~IsExplore(o) /\ CommitResult(w, o, status)
        /\ aiRun' = aiRun
    BY <1>7 DEF CommitRun
  <2>2. PICK s \in {"succeeded", "partially_succeeded", "failed"} :
           run' = [run EXCEPT ![o] = s]
    BY <1>7 DEF CommitRun
  <2>3. o \in Op /\ payload[o] \in Payload /\ Active(o)
    BY <1>a, <2>1 DEF CommitResult, Owned, Fenced
  <2>4. payload[o].kind = "run" /\ payload[o].collector \in Collector
    BY <2>1, <2>3 DEF Payload, IsExplore
  <2>5. /\ collector[payload[o].collector] \in CollectorType
        /\ collector[payload[o].collector].activeOp = o
        /\ OneTask(payload[o].collector)
    BY <2>3, <2>4 DEF IInv, TypeOK, OneTaskPerCollector, OneTask, Of
  <2>6. status \in {"draft", "ready_review", "published"}
    BY <2>1, <2>5 DEF CollectorType, OneTask
  <2> QED
    BY <1>0, <2>1, <2>2, <2>3, <2>4, <2>6, CommitStep
<1>8. CASE Raise(w)
  <2>1. PICK exc \in {"error", "timed_out"} :
           worker' = [worker EXCEPT ![w].pc = "failing", ![w].exc = exc]
    BY <1>8 DEF Raise
  <2> DEFINE r == [worker[w] EXCEPT !.pc = "failing", !.exc = exc]
  <2>2. r \in WorkerType /\ r.op = o /\ r.token = worker[w].token /\ r.exc = exc
    BY <1>0 DEF WorkerType
  <2>3. worker' = [worker EXCEPT ![w] = r]
    BY <1>0, <2>1
  <2>4. /\ worker[w].pc # "idle" /\ exc # "cancelled"
        /\ UNCHANGED <<operation, job, payload, aiRun, run, collector, resultOf>>
    BY <1>8 DEF Raise
  <2> HIDE DEF r
  <2> QED
    BY <2>2, <2>3, <2>4, OnlyWorker
<1>9. CASE CancelSeen(w)
  <2> DEFINE r == [worker[w] EXCEPT !.pc = "failing", !.exc = "cancelled"]
  <2>1. r \in WorkerType /\ r.op = o /\ r.token = worker[w].token
    BY <1>0 DEF WorkerType
  <2> QED
    BY <1>9, <1>a, <2>1, OnlyWorker DEF CancelSeen, AtFence
<1>10. CASE LeaseLost(w)
  BY <1>10, IdleType, OnlyWorker DEF LeaseLost
<1>11. CASE Fail(w)
  <2> DEFINE cancelled == operation[o].cancelRequested \/ worker[w].exc = "cancelled"
             s == IF cancelled THEN "cancelled"
                  ELSE IF worker[w].exc = "timed_out" THEN "timed_out" ELSE "failed"
  <2>1. /\ worker[w].pc = "failing" /\ Active(o) /\ worker' = [worker EXCEPT ![w] = Idle]
        /\ FinishResources(o, s, operation[o].cancelRequested)
    BY <1>11 DEF Fail, Fenced
  <2>2. /\ o \in Op /\ operation[o].cancelRequested \in BOOLEAN
        /\ cancelled <=> operation[o].cancelRequested
    BY <1>0, <1>a, <2>1 DEF OperationType
  <2>3. /\ worker' \in [Worker -> WorkerType]
        /\ \A v \in Worker : worker'[v] = worker[v] \/ worker'[v].pc = "idle"
    BY <1>0, <2>1, IdleType
  <2>4. s \in {"failed", "cancelled", "timed_out"} /\ ((s = "cancelled") <=> cancelled)
    OBVIOUS
  <2> HIDE DEF s, cancelled
  <2> QED
    BY <2>1, <2>2, <2>3, <2>4, FinishStep
<1>12. CASE Abandon(w)
  BY <1>12, IdleType, OnlyWorker DEF Abandon
<1> QED
  BY <1>1, <1>2, <1>3, <1>4, <1>5, <1>6, <1>7, <1>8, <1>9, <1>10, <1>11, <1>12
  DEF Proceed


-----------------------------------------------------------------------------
(* The invariant and what follows from it *)

LEMMA NextIInv == ASSUME IInv, [Next]_vars PROVE IInv'
<1>1. CASE Command
  BY <1>1, CommandIInv
<1>2. ASSUME NEW w \in Worker, TakeJob(w) \/ Proceed(w) \/ Progress(w) \/ Abandon(w)
      PROVE  IInv'
  BY <1>2, TakeJobIInv, ProceedIInv
<1>3. ASSUME NEW o \in Op, ExpireLease(o) PROVE IInv'
  BY <1>3, ExpireStep
<1>4. CASE UNCHANGED vars
  BY <1>4
  DEF vars, IInv, TypeOK, Absent, Holding, TokensDiffer, Leases,
      JobFollowsOperation, CancelHonoured, OneTaskPerCollector, OneTask,
      JobContextStable, Exists, Active, Terminal, Of, IsExplore
<1> QED
  BY <1>1, <1>2, <1>3, <1>4 DEF Next

\* The inductive invariant holds of every reachable state: no command, claim,
\* worker step, crash or expired lease breaks it.
THEOREM Invariance == Spec => []IInv
BY InitIInv, NextIInv, PTL DEF Spec

\* The rows of the database and the workers' memory keep their types.
THEOREM TypeCorrect == Spec => []TypeOK
<1>1. IInv => TypeOK
  BY DEF IInv
<1> QED
  BY <1>1, Invariance, PTL

\* job_control.owned_transaction (job_control.py:19-37) lets at most one worker
\* through for a job, however often it was claimed before.
THEOREM OneOwner == Spec => []SingleOwner
<1>1. IInv => SingleOwner
  <2> SUFFICES ASSUME IInv, NEW o \in Op, NEW v \in Owners(o), NEW w \in Owners(o)
               PROVE  v = w
    BY DEF SingleOwner
  <2>1. /\ v \in Worker /\ worker[v].pc # "idle" /\ worker[v].op = o
        /\ w \in Worker /\ worker[w].pc # "idle" /\ worker[w].op = o
        /\ worker[v].token = job[o].attempts /\ worker[w].token = job[o].attempts
    BY DEF Owners, Fenced
  <2> QED
    BY <2>1 DEF IInv, TokensDiffer
<1> QED
  BY <1>1, Invariance, PTL

\* An operation whose cancellation was accepted ends as cancelled and never
\* with a result (request_cancel, finish_resources, claim_job, Worker.fail).
THEOREM CancelPrevails == Spec => []CancelHonoured
<1>1. IInv => CancelHonoured
  BY DEF IInv
<1> QED
  BY <1>1, Invariance, PTL

\* Operation, job and run are terminal together, on every path that ends them.
THEOREM JobEndsWithOperation == Spec => []JobFollowsOperation
<1>1. IInv => JobFollowsOperation
  BY DEF IInv
<1> QED
  BY <1>1, Invariance, PTL

\* activeOperationId is the collector's only operation under way, and the
\* collector explores exactly while that operation does.
THEOREM OneTaskAtATime == Spec => []OneTaskPerCollector
<1>1. IInv => OneTaskPerCollector
  BY DEF IInv
<1> QED
  BY <1>1, Invariance, PTL

\* The revision and archive check of _process_owned (worker.py:188-195) finds
\* what the command was accepted for, as long as the operation is under way.
THEOREM ContextKept == Spec => []JobContextStable
<1>1. IInv => JobContextStable
  BY DEF IInv
<1> QED
  BY <1>1, Invariance, PTL
-----------------------------------------------------------------------------
(* What a step may touch *)

\* No operation, job or run but those of o changes.
OnlyTouches(o) == \A p \in Op \ {o} :
    /\ operation'[p] = operation[p] /\ job'[p] = job[p] /\ run'[p] = run[p]

\* The payload and the cancellation of a step that changes one operation.
LEMMA FinishTouches ==
    ASSUME IInv, NEW o \in Op, NEW s, NEW flag, FinishResources(o, s, flag)
    PROVE  /\ OnlyTouches(o) /\ operation'[o].status = s
           /\ operation'[o].cancelRequested = flag
           /\ UNCHANGED <<payload, resultOf>>
<1>1. operation \in [Op -> OperationType] /\ job \in [Op -> JobType]
  BY DEF IInv, TypeOK
<1>2. run \in [Op -> {"none"} \cup LiveStatus \cup RunFinal]
  BY DEF IInv, TypeOK
<1>3. /\ operation' = [operation EXCEPT ![o] = [status |-> s, cancelRequested |-> flag]]
      /\ job' = [job EXCEPT ![o].status = "failed", ![o].lease = "none"]
      /\ run' = IF IsExplore(o) THEN run ELSE [run EXCEPT ![o] = s]
      /\ UNCHANGED <<payload, resultOf>>
  BY DEF FinishResources
<1> QED
  BY <1>1, <1>2, <1>3 DEF OnlyTouches

LEMMA CreateTouches ==
    ASSUME IInv, NEW o \in Op, NEW c \in Collector,
           CreateExplore(o, c) \/ CreateRun(o, c)
    PROVE  /\ OnlyTouches(o) /\ ~Exists(o) /\ \A p \in Of(c) : ~Active(p)
           /\ operation'[o].status = "queued"
           /\ operation'[o].cancelRequested = operation[o].cancelRequested
           /\ payload'[o].collector = c
           /\ \A p \in Op \ {o} : payload'[p] = payload[p]
           /\ UNCHANGED resultOf
<1>1. PICK kind \in {"explore", "run"}, limit \in Limits,
           status \in {"exploring", "published"} :
         CreateCommand(o, c, kind, limit, status)
  BY DEF CreateExplore, CreateRun, Limits
<1>2. /\ operation' = [operation EXCEPT ![o].status = "queued"]
      /\ job' = [job EXCEPT ![o].status = "queued"]
      /\ payload' = [payload EXCEPT ![o] =
                     [kind |-> kind, collector |-> c,
                      previousStatus |-> collector[c].status,
                      revision |-> collector[c].revision, limit |-> limit]]
      /\ ~Exists(o) /\ ~Blocked(c) /\ UNCHANGED resultOf
  BY <1>1 DEF CreateCommand, NextOp
<1>3. run' = run \/ run' = [run EXCEPT ![o] = "queued"]
  BY DEF CreateExplore, CreateRun
<1>4. operation \in [Op -> OperationType] /\ job \in [Op -> JobType]
  BY DEF IInv, TypeOK
<1>5. /\ run \in [Op -> {"none"} \cup LiveStatus \cup RunFinal]
      /\ payload \in [Op -> Payload \cup {NoPayload}]
  BY DEF IInv, TypeOK
<1>6. /\ operation'[o].status = "queued"
      /\ operation'[o].cancelRequested = operation[o].cancelRequested
  BY <1>2, <1>4 DEF OperationType
<1>7. OnlyTouches(o)
  BY <1>2, <1>3, <1>4, <1>5 DEF OnlyTouches
<1> QED
  BY <1>2, <1>5, <1>6, <1>7 DEF Blocked

LEMMA CommitTouches ==
    ASSUME IInv, NEW w \in Worker, CommitExplore(w) \/ CommitRun(w)
    PROVE  LET o == worker[w].op IN
           /\ o \in Op /\ Active(o) /\ ~operation[o].cancelRequested /\ OnlyTouches(o)
           /\ operation'[o].status = "succeeded"
           /\ operation'[o].cancelRequested = operation[o].cancelRequested
           /\ resultOf[o] = 0 /\ resultOf'[o] = job[o].attempts
           /\ \A p \in Op \ {o} : resultOf'[p] = resultOf[p]
           /\ UNCHANGED payload
<1> DEFINE o == worker[w].op
<1>1. PICK status : CommitResult(w, o, status)
  BY DEF CommitExplore, CommitRun
<1>2. run' = run \/ \E s : run' = [run EXCEPT ![o] = s]
  BY DEF CommitExplore, CommitRun
<1>3. worker[w].pc # "idle"
  BY DEF CommitExplore, CommitRun
<1>4. o \in Op
  BY <1>3 DEF IInv, Holding
<1>5. /\ Active(o) /\ ~operation[o].cancelRequested
      /\ job[o].attempts = worker[w].token
      /\ operation' = [operation EXCEPT ![o].status = "succeeded"]
      /\ job' = [job EXCEPT ![o].status = "completed", ![o].lease = "none"]
      /\ resultOf' = [resultOf EXCEPT ![o] = worker[w].token]
      /\ UNCHANGED payload
  BY <1>1 DEF CommitResult, Owned, Fenced
<1>6. operation \in [Op -> OperationType] /\ job \in [Op -> JobType]
  BY DEF IInv, TypeOK
<1>7. /\ run \in [Op -> {"none"} \cup LiveStatus \cup RunFinal]
      /\ resultOf \in [Op -> 0..MaxAttempts]
  BY DEF IInv, TypeOK
<1>8. /\ operation'[o].status = "succeeded"
      /\ operation'[o].cancelRequested = operation[o].cancelRequested
  BY <1>4, <1>5, <1>6 DEF OperationType
<1>9. OnlyTouches(o)
  BY <1>2, <1>4, <1>5, <1>6, <1>7 DEF OnlyTouches
<1>10. resultOf[o] = 0
  BY <1>4, <1>5 DEF IInv, Leases, Active, LiveStatus
<1> QED
  BY <1>4, <1>5, <1>7, <1>8, <1>9, <1>10

LEMMA ProgressTouches ==
    ASSUME IInv, NEW w \in Worker, Progress(w)
    PROVE  LET o == worker[w].op IN
           /\ o \in Op /\ Active(o) /\ OnlyTouches(o)
           /\ operation'[o].status = "running"
           /\ operation'[o].cancelRequested = operation[o].cancelRequested
           /\ UNCHANGED <<payload, job, run, resultOf>>
<1> DEFINE o == worker[w].op
<1>1. /\ worker[w].pc # "idle" /\ Active(o)
      /\ operation' = [operation EXCEPT ![o].status = "running"]
      /\ UNCHANGED <<payload, job, run, resultOf>>
  BY DEF Progress, Owned, Fenced
<1>2. o \in Op /\ operation \in [Op -> OperationType]
  BY <1>1 DEF IInv, Holding, TypeOK
<1> QED
  BY <1>1, <1>2 DEF OnlyTouches, OperationType

\* What a step of the system can be, as far as operations, jobs and runs go:
\* the kinds of step below, each about an operation that is not over.
Ends(o) == \E s \in FinalStatus : /\ Active(o)
                                  /\ FinishResources(o, s, operation[o].cancelRequested)
                                  /\ (s = "cancelled") <=> operation[o].cancelRequested

WorksOn(o) == /\ Active(o) /\ OnlyTouches(o)
              /\ UNCHANGED <<operation, payload, resultOf>>

LEMMA ClaimEndsEnds ==
    ASSUME IInv, NEW w \in Worker, ClaimEnds(w) PROVE \E o \in Op : Ends(o)
<1>1. PICK o \in Op :
         /\ NextClaim(o)
         /\ FinishResources(o, IF operation[o].cancelRequested
                               THEN "cancelled" ELSE "failed",
                            operation[o].cancelRequested)
  BY DEF ClaimEnds
<1>2. Active(o)
  BY <1>1 DEF NextClaim, Claimable, IInv, JobFollowsOperation
<1>3. CASE operation[o].cancelRequested
  BY <1>1, <1>2, <1>3 DEF Ends, FinalStatus
<1>4. CASE ~operation[o].cancelRequested
  BY <1>1, <1>2, <1>4 DEF Ends, FinalStatus
<1> QED
  BY <1>3, <1>4

LEMMA FailEnds ==
    ASSUME IInv, NEW w \in Worker, Fail(w) PROVE \E o \in Op : Ends(o)
<1> DEFINE o == worker[w].op
           s == IF operation[o].cancelRequested \/ worker[w].exc = "cancelled"
                THEN "cancelled"
                ELSE IF worker[w].exc = "timed_out" THEN "timed_out" ELSE "failed"
<1>1. /\ worker[w].pc # "idle" /\ Active(o)
      /\ FinishResources(o, s, operation[o].cancelRequested)
  BY DEF Fail, Fenced
<1>2. o \in Op /\ (worker[w].exc = "cancelled" => operation[o].cancelRequested)
  BY <1>1 DEF IInv, Holding
<1>3. s \in FinalStatus /\ ((s = "cancelled") <=> operation[o].cancelRequested)
  BY <1>2 DEF FinalStatus
<1> HIDE DEF s
<1> QED
  BY <1>1, <1>2, <1>3 DEF Ends

LEMMA ClaimWorks ==
    ASSUME IInv, NEW w \in Worker, Claim(w) PROVE \E o \in Op : WorksOn(o)
<1>1. PICK o \in Op : NextClaim(o) /\ ClaimAttempt(w, o)
  BY DEF Claim
<1>2. Active(o)
  BY <1>1 DEF NextClaim, Claimable, IInv, JobFollowsOperation
<1>3. job \in [Op -> JobType]
  BY DEF IInv, TypeOK
<1>4. /\ UNCHANGED <<operation, payload, run, resultOf>>
      /\ job' = [job EXCEPT ![o].status = "processing", ![o].attempts = @ + 1,
                            ![o].lease = "live"]
  BY <1>1 DEF Claim, ClaimAttempt
<1> QED
  BY <1>2, <1>3, <1>4 DEF WorksOn, OnlyTouches

LEMMA ExpireWorks ==
    ASSUME IInv, NEW o \in Op, ExpireLease(o) PROVE WorksOn(o)
<1>1. job \in [Op -> JobType]
  BY DEF IInv, TypeOK
<1>2. job[o].status = "processing"
  BY DEF ExpireLease, IInv, Leases
<1>3. Active(o)
  BY <1>2 DEF IInv, JobFollowsOperation
<1> QED
  BY <1>1, <1>3 DEF ExpireLease, WorksOn, OnlyTouches

LEMMA MarkRunningWorks ==
    ASSUME IInv, NEW w \in Worker, MarkRunning(w) PROVE \E o \in Op : WorksOn(o)
<1> DEFINE o == worker[w].op
<1>1. /\ worker[w].pc # "idle" /\ Active(o) /\ run' = [run EXCEPT ![o] = "running"]
      /\ UNCHANGED <<operation, job, payload, resultOf>>
  BY DEF MarkRunning, Owned, Fenced
<1>2. o \in Op /\ run \in [Op -> {"none"} \cup LiveStatus \cup RunFinal]
  BY <1>1 DEF IInv, Holding, TypeOK
<1> QED
  BY <1>1, <1>2 DEF WorksOn, OnlyTouches

LEMMA StepCases ==
    ASSUME IInv, [Next]_vars
    PROVE  \/ \E o \in Op, c \in Collector : CreateExplore(o, c) \/ CreateRun(o, c)
           \/ \E o \in Op : RequestCancel(o) \/ Ends(o) \/ WorksOn(o)
           \/ \E w \in Worker : CommitExplore(w) \/ CommitRun(w) \/ Progress(w)
           \/ UNCHANGED <<operation, job, payload, run, resultOf>>
<1>1. CASE Command
  BY <1>1 DEF Command, Publish, Archive, Restore, SetArchived
<1>2. ASSUME NEW w \in Worker, TakeJob(w) \/ Fail(w) \/ MarkRunning(w)
      PROVE  \E o \in Op : Ends(o) \/ WorksOn(o)
  BY <1>2, ClaimWorks, ClaimEndsEnds, FailEnds, MarkRunningWorks DEF TakeJob
<1>3. ASSUME NEW w \in Worker,
             \/ Begin(w) \/ Prepare(w) \/ StartAttempt(w) \/ Raise(w)
             \/ CancelSeen(w) \/ LeaseLost(w) \/ Abandon(w)
      PROVE  UNCHANGED <<operation, job, payload, run, resultOf>>
  BY <1>3 DEF Begin, Prepare, StartAttempt, Raise, CancelSeen, LeaseLost, Abandon
<1>4. ASSUME NEW w \in Worker, CommitExplore(w) \/ CommitRun(w) \/ Progress(w)
      PROVE  \E v \in Worker : CommitExplore(v) \/ CommitRun(v) \/ Progress(v)
  BY <1>4
<1>5. ASSUME NEW o \in Op, ExpireLease(o) PROVE WorksOn(o)
  BY <1>5, ExpireWorks
<1>6. CASE UNCHANGED vars
  BY <1>6 DEF vars
<1> QED
  BY <1>1, <1>2, <1>3, <1>4, <1>5, <1>6 DEF Next, Proceed

\* request_cancel changes the operation it is about, and nothing of a result.
LEMMA RequestCancelTouches ==
    ASSUME IInv, NEW o \in Op, RequestCancel(o)
    PROVE  /\ Active(o) /\ ~operation[o].cancelRequested /\ OnlyTouches(o)
           /\ operation'[o].cancelRequested = TRUE
           /\ \/ operation'[o].status = operation[o].status
              \/ operation'[o].status = "cancelled"
           /\ UNCHANGED <<payload, resultOf>>
<1>1. Active(o) /\ ~operation[o].cancelRequested
  BY DEF RequestCancel
<1>2. CASE job[o].status = "queued" \/ job[o].lease # "live"
  <2>1. FinishResources(o, "cancelled", TRUE)
    BY <1>2 DEF RequestCancel
  <2> QED
    BY <1>1, <2>1, FinishTouches
<1>3. CASE ~(job[o].status = "queued" \/ job[o].lease # "live")
  <2>1. /\ operation' = [operation EXCEPT ![o].cancelRequested = TRUE]
        /\ UNCHANGED <<job, payload, run, resultOf>>
    BY <1>3 DEF RequestCancel
  <2>2. operation \in [Op -> OperationType]
    BY DEF IInv, TypeOK
  <2> QED
    BY <1>1, <2>1, <2>2 DEF OnlyTouches, OperationType
<1> QED
  BY <1>2, <1>3

-----------------------------------------------------------------------------
(* Action properties *)

\* No step changes an operation, job or run that is over: late workers, claims
\* and cancellations are all refused.
THEOREM FinalIsFinal == Spec => TerminalStable
<1>1. ASSUME IInv, [Next]_vars
      PROVE  \A o \in Op : Terminal(o) => /\ operation'[o] = operation[o]
                                          /\ job'[o] = job[o]
                                          /\ run'[o] = run[o]
  <2>1. ASSUME NEW p \in Op, ~Terminal(p), OnlyTouches(p)
        PROVE  \A o \in Op : Terminal(o) => /\ operation'[o] = operation[o]
                                            /\ job'[o] = job[o]
                                            /\ run'[o] = run[o]
    BY <2>1 DEF OnlyTouches
  <2>2. \A p \in Op : Active(p) \/ ~Exists(p) => ~Terminal(p)
    BY DEF Active, Exists, Terminal, LiveStatus, FinalStatus
  <2>3. CASE \E o \in Op, c \in Collector : CreateExplore(o, c) \/ CreateRun(o, c)
    BY <1>1, <2>1, <2>2, <2>3, CreateTouches
  <2>4. CASE \E o \in Op : RequestCancel(o)
    BY <1>1, <2>1, <2>2, <2>4, RequestCancelTouches
  <2>5. CASE \E o \in Op : Ends(o)
    BY <1>1, <2>1, <2>2, <2>5, FinishTouches DEF Ends
  <2>6. CASE \E o \in Op : WorksOn(o)
    BY <2>1, <2>2, <2>6 DEF WorksOn
  <2>7. CASE \E w \in Worker : CommitExplore(w) \/ CommitRun(w) \/ Progress(w)
    BY <1>1, <2>1, <2>2, <2>7, CommitTouches, ProgressTouches
  <2>8. CASE UNCHANGED <<operation, job, payload, run, resultOf>>
    BY <2>8
  <2> QED
    BY <1>1, <2>3, <2>4, <2>5, <2>6, <2>7, <2>8, StepCases
<1> QED
  BY <1>1, Invariance, PTL DEF Spec, TerminalStable

\* A result is written once, by the claim that is then the latest one.
THEOREM CommitIsFenced == Spec => FencedCommit
<1>1. ASSUME IInv, [Next]_vars
      PROVE  \A o \in Op : resultOf'[o] # resultOf[o] =>
                /\ resultOf[o] = 0
                /\ resultOf'[o] = job[o].attempts
  <2>1. CASE UNCHANGED resultOf
    BY <2>1
  <2>2. CASE \E w \in Worker : CommitExplore(w) \/ CommitRun(w)
    BY <1>1, <2>2, CommitTouches
  <2> QED
    BY <1>1, <2>1, <2>2, StepCases, CreateTouches, RequestCancelTouches,
       FinishTouches, ProgressTouches DEF Ends, WorksOn
<1> QED
  BY <1>1, Invariance, PTL DEF Spec, FencedCommit

-----------------------------------------------------------------------------
(* The queue implements the promise *)

\* The value of OperationLifecycle's state for one operation.
Promised(o) == IF Active(o) THEN "active" ELSE operation[o].status

LEMMA InitPromise == Init => Lifecycle!Init
BY DEF Init, Lifecycle!Init, Active, LiveStatus, NoPayload

\* Operations that a step does not touch keep their abstract value.
LEMMA PromisedKept ==
    ASSUME NEW o \in Op, OnlyTouches(o)
    PROVE  \A p \in Op \ {o} :
              /\ Promised(p)' = Promised(p) /\ Active(p)' = Active(p)
              /\ operation'[p].cancelRequested = operation[p].cancelRequested
BY DEF Promised, Active, OnlyTouches

\* An operation's end, of any kind, is one Finish of the abstract operation.
LEMMA EndsPromise ==
    ASSUME NEW o \in Op, OnlyTouches(o), Active(o),
           operation'[o].status \in FinalStatus,
           operation'[o].cancelRequested = operation[o].cancelRequested,
           operation'[o].status = "cancelled" <=> operation[o].cancelRequested,
           UNCHANGED payload
    PROVE  Lifecycle!Next
<1>1. /\ Active(o)' = FALSE
      /\ \A p \in Op \ {o} :
            /\ Active(p)' = Active(p) /\ operation'[p] = operation[p]
  BY DEF Active, LiveStatus, FinalStatus, OnlyTouches
<1>2. PICK s \in Lifecycle!FinalStatus : s = operation'[o].status
  BY DEF FinalStatus, Lifecycle!FinalStatus
<1>3. Lifecycle!Finish(o)
  <2>1. Lifecycle!End(o, s)
    BY <1>1, <1>2 DEF Lifecycle!End
  <2> QED
    BY <2>1 DEF Lifecycle!Finish
<1> QED
  BY <1>3 DEF Lifecycle!Next

\* A command that is accepted is one Submit.
LEMMA CreatePromise ==
    ASSUME IInv, NEW o \in Op, NEW c \in Collector,
           CreateExplore(o, c) \/ CreateRun(o, c)
    PROVE  Lifecycle!Next
<1>1. /\ OnlyTouches(o) /\ ~Exists(o) /\ \A p \in Of(c) : ~Active(p)
      /\ operation'[o].status = "queued"
      /\ operation'[o].cancelRequested = operation[o].cancelRequested
      /\ payload'[o].collector = c
      /\ \A p \in Op \ {o} : payload'[p] = payload[p]
  BY CreateTouches
<1>2. operation[o].status = "absent" /\ ~Active(o) /\ Active(o)'
  BY <1>1 DEF Exists, Active, LiveStatus
<1>3. \A p \in Op \ {o} : /\ Active(p)' = Active(p) /\ operation'[p] = operation[p]
  BY <1>1 DEF OnlyTouches, Active
<1>4. \A p \in Op : payload[p].collector = c => Promised(p) # "active"
  <2>1. \A p \in Op : operation[p].status # "active"
    BY DEF IInv, TypeOK, OperationType, LiveStatus, FinalStatus
  <2> QED
    BY <1>1, <2>1 DEF Of, Promised
<1>5. Lifecycle!Submit(o, c)
  BY <1>1, <1>2, <1>3, <1>4 DEF Lifecycle!Submit, Promised
<1> QED
  BY <1>5 DEF Lifecycle!Next

\* A cancellation ends the operation at once, or is left for its worker.
LEMMA RequestCancelPromise ==
    ASSUME IInv, NEW o \in Op, RequestCancel(o) PROVE Lifecycle!Next
<1>1. /\ Active(o) /\ ~operation[o].cancelRequested /\ OnlyTouches(o)
      /\ operation'[o].cancelRequested = TRUE
      /\ \/ operation'[o].status = operation[o].status
         \/ operation'[o].status = "cancelled"
      /\ UNCHANGED payload
  BY RequestCancelTouches
<1>2. \A p \in Op \ {o} : Active(p)' = Active(p) /\ operation'[p] = operation[p]
  BY <1>1 DEF OnlyTouches, Active
<1>3. \/ Active(o)'
      \/ ~Active(o)' /\ operation'[o].status = "cancelled"
  BY <1>1 DEF Active, LiveStatus
<1>4. Lifecycle!RequestCancel(o)
  BY <1>1, <1>2, <1>3 DEF Lifecycle!RequestCancel
<1> QED
  BY <1>4 DEF Lifecycle!Next

\* A step that changes no operation, or only that it is running now, stutters.
LEMMA QuietPromise ==
    ASSUME \A o \in Op : /\ Promised(o)' = Promised(o)
                         /\ operation'[o].cancelRequested = operation[o].cancelRequested,
           UNCHANGED payload
    PROVE  UNCHANGED Lifecycle!vars
BY DEF Lifecycle!vars, Promised

LEMMA StepPromise ==
    ASSUME IInv, [Next]_vars PROVE [Lifecycle!Next]_(Lifecycle!vars)
<1>1. CASE \E o \in Op, c \in Collector : CreateExplore(o, c) \/ CreateRun(o, c)
  BY <1>1, CreatePromise
<1>2. CASE \E o \in Op : RequestCancel(o)
  BY <1>2, RequestCancelPromise
<1>3. ASSUME NEW o \in Op, Ends(o) PROVE Lifecycle!Next
  BY <1>3, FinishTouches, EndsPromise DEF Ends
<1>4. ASSUME NEW w \in Worker, CommitExplore(w) \/ CommitRun(w) PROVE Lifecycle!Next
  BY <1>4, CommitTouches, EndsPromise DEF FinalStatus
<1>5. ASSUME NEW w \in Worker, Progress(w) PROVE UNCHANGED Lifecycle!vars
  <2>1. /\ worker[w].op \in Op /\ Active(worker[w].op) /\ OnlyTouches(worker[w].op)
        /\ operation'[worker[w].op].status = "running"
        /\ operation'[worker[w].op].cancelRequested
             = operation[worker[w].op].cancelRequested
        /\ UNCHANGED payload
    BY <1>5, ProgressTouches
  <2>2. PICK o \in Op : o = worker[w].op
    BY <2>1
  <2>3. Promised(o) = "active" /\ operation'[o].status = "running"
    BY <2>1, <2>2 DEF Promised
  <2>4. Promised(o)' = "active"
    BY <2>3 DEF Promised, Active, LiveStatus
  <2> QED
    BY <2>1, <2>2, <2>3, <2>4, PromisedKept, QuietPromise
<1>6. ASSUME UNCHANGED <<operation, payload>> PROVE UNCHANGED Lifecycle!vars
  BY <1>6, QuietPromise DEF Promised, Active
<1> QED
  BY <1>1, <1>2, <1>3, <1>4, <1>5, <1>6, StepCases DEF WorksOn

\* Every behaviour of the queue, leases and workers is one of the abstract
\* operation: its initial states and steps map to those of OperationLifecycle.
THEOREM KeepsSafetyPromise == Spec => Lifecycle!Safety
BY InitPromise, StepPromise, Invariance, PTL DEF Spec, Lifecycle!Safety

-----------------------------------------------------------------------------
(* The attempts of AI runs, and which of them is the candidate under review *)

(* Attempts: a claim pays for at most one *)

\* The claims of o whose worker has not started its AI attempt yet.
WaitingOn(o) == {v \in Worker : /\ worker[v].pc \in {"claimed", "owned", "ready"}
                                /\ worker[v].op = o}
Waiting(o)   == {worker[v].token : v \in WaitingOn(o)}

\* Every attempt of an AI run and every worker about to start one has a claim
\* of its own.
ClaimsPay == \A o \in Op :
    Cardinality(Waiting(o)) + Len(aiRun[o].attempts) <= job[o].attempts

LEMMA WaitingFinite ==
    ASSUME IInv, NEW o \in Op
    PROVE  /\ Waiting(o) \subseteq 1..job[o].attempts
           /\ IsFiniteSet(Waiting(o)) /\ Cardinality(Waiting(o)) \in Nat
<1>1. job[o].attempts \in Nat
  BY AttemptsAssumption DEF IInv, TypeOK, JobType
<1>2. Waiting(o) \subseteq 1..job[o].attempts
  BY DEF IInv, Holding, Waiting, WaitingOn
<1>3. IsFiniteSet(1..job[o].attempts)
  BY <1>1, FS_Interval
<1>4. IsFiniteSet(Waiting(o))
  BY <1>2, <1>3, FS_Subset
<1> QED
  BY <1>2, <1>4, FS_CardinalityType

\* How adding and removing a member changes the size of a finite set.
LEMMA OneMore ==
    ASSUME NEW S, IsFiniteSet(S), NEW x
    PROVE  /\ Cardinality(S) \in Nat /\ Cardinality(S \cup {x}) \in Nat
           /\ Cardinality(S \cup {x}) <= Cardinality(S) + 1
<1>1. IsFiniteSet(S \cup {x}) /\ Cardinality(S \cup {x}) =
         IF x \in S THEN Cardinality(S) ELSE Cardinality(S) + 1
  BY FS_AddElement
<1>2. Cardinality(S) \in Nat
  BY FS_CardinalityType
<1> QED
  BY <1>1, <1>2

LEMMA OneLess ==
    ASSUME NEW S, IsFiniteSet(S), NEW x \in S, NEW T, T \subseteq S \ {x}
    PROVE  /\ Cardinality(S) \in Nat /\ Cardinality(T) \in Nat
           /\ Cardinality(T) <= Cardinality(S) - 1
<1>1. IsFiniteSet(S \ {x}) /\ Cardinality(S \ {x}) = Cardinality(S) - 1
  BY FS_RemoveElement
<1>2. IsFiniteSet(T) /\ Cardinality(T) <= Cardinality(S \ {x})
  BY <1>1, FS_Subset
<1>3. Cardinality(S) \in Nat /\ Cardinality(T) \in Nat
  BY <1>2, FS_CardinalityType
<1> QED
  BY <1>1, <1>2, <1>3

LEMMA AttemptsLength ==
    ASSUME IInv, NEW o \in Op
    PROVE  aiRun[o].attempts \in Seq(AttemptStatus) /\ Len(aiRun[o].attempts) \in Nat
BY DEF IInv, TypeOK, AiRunType

\* A step that starts no attempt and hands out no claim.
Spends(o) == /\ Len(aiRun'[o].attempts) = Len(aiRun[o].attempts)
             /\ Waiting(o)' \subseteq Waiting(o)
             /\ job'[o].attempts = job[o].attempts

\* A step that leaves every worker as it is, or takes it off the job it waits
\* to begin, lets no worker wait that did not.
LEMMA WaitingKept ==
    ASSUME \A v \in Worker :
              worker'[v].pc \in {"claimed", "owned", "ready"} =>
                 /\ worker[v].pc \in {"claimed", "owned", "ready"}
                 /\ worker'[v].op = worker[v].op /\ worker'[v].token = worker[v].token,
           NEW o
    PROVE  Waiting(o)' \subseteq Waiting(o)
<1>1. WaitingOn(o)' \subseteq WaitingOn(o)
  BY DEF WaitingOn
<1>2. \A v \in WaitingOn(o)' : worker'[v].token = worker[v].token
  BY DEF WaitingOn
<1> QED
  BY <1>1, <1>2 DEF Waiting

LEMMA WorkersKept == ASSUME worker' = worker, NEW o PROVE Waiting(o)' \subseteq Waiting(o)
BY WaitingKept

LEMMA ClosedLength ==
    ASSUME NEW a \in Seq(AttemptStatus), NEW s
    PROVE  Len(CloseRunning(a, s)) = Len(a)
<1>1. Len(a) \in Nat /\ DOMAIN a = 1..Len(a)
  OBVIOUS
<1>2. DOMAIN CloseRunning(a, s) = 1..Len(a)
  BY <1>1 DEF CloseRunning
<1> QED
  BY <1>1, <1>2

LEMMA FinishedLength ==
    ASSUME NEW a \in Seq(AttemptStatus), NEW i
    PROVE  Len([a EXCEPT ![i] = "succeeded"]) = Len(a)
<1> DEFINE b == [a EXCEPT ![i] = "succeeded"]
<1>1. Len(a) \in Nat /\ DOMAIN a = 1..Len(a)
  OBVIOUS
<1>2. DOMAIN b = 1..Len(a)
  BY <1>1
<1>3. b \in Seq(AttemptStatus)
  BY FinishedType
<1>4. Len(b) \in Nat /\ DOMAIN b = 1..Len(b)
  BY <1>3
<1> HIDE DEF b
<1> QED
  BY <1>1, <1>2, <1>4

\* finish_resources closes attempts, it neither adds nor drops one.
LEMMA FinishSpends ==
    ASSUME IInv, NEW p \in Op, NEW s, NEW flag, FinishResources(p, s, flag),
           \A v \in Worker : worker'[v] = worker[v] \/ worker'[v] = Idle,
           NEW o \in Op
    PROVE  Spends(o)
<1>1. job \in [Op -> JobType] /\ aiRun \in [Op -> AiRunType]
  BY DEF IInv, TypeOK
<1>2. job'[o].attempts = job[o].attempts
  BY <1>1 DEF FinishResources, JobType
<1>3. Len(CloseRunning(aiRun[p].attempts, s)) = Len(aiRun[p].attempts)
  BY AttemptsLength, ClosedLength
<1>4. Len(aiRun'[o].attempts) = Len(aiRun[o].attempts)
  BY <1>1, <1>3 DEF FinishResources
<1>5. Waiting(o)' \subseteq Waiting(o)
  BY WaitingKept DEF Idle
<1> QED
  BY <1>2, <1>4, <1>5 DEF Spends

LEMMA CommandSpends == ASSUME IInv, Command, NEW o \in Op PROVE Spends(o)
<1>0. job \in [Op -> JobType] /\ aiRun \in [Op -> AiRunType]
  BY DEF IInv, TypeOK
<1>1. ASSUME NEW p \in Op, NEW c \in Collector, CreateExplore(p, c) \/ CreateRun(p, c)
      PROVE  Spends(o)
  <2>1. job' = [job EXCEPT ![p].status = "queued"] /\ worker' = worker
    BY <1>1 DEF CreateExplore, CreateRun, CreateCommand
  <2>2. aiRun' = aiRun \/ aiRun' = [aiRun EXCEPT ![p].status = "queued"]
    BY <1>1 DEF CreateExplore, CreateRun
  <2>3. /\ job'[o].attempts = job[o].attempts
        /\ aiRun'[o].attempts = aiRun[o].attempts
    BY <1>0, <2>1, <2>2 DEF JobType, AiRunType
  <2> QED
    BY <2>1, <2>3, WorkersKept DEF Spends
<1>2. ASSUME NEW p \in Op, RequestCancel(p)
      PROVE  Spends(o)
  <2>1. worker' = worker
    BY <1>2 DEF RequestCancel
  <2>2. CASE FinishResources(p, "cancelled", TRUE)
    BY <2>1, <2>2, FinishSpends
  <2>3. CASE UNCHANGED <<job, aiRun>>
    BY <2>1, <2>3, WorkersKept DEF Spends
  <2> QED
    BY <1>2, <2>2, <2>3 DEF RequestCancel
<1>3. ASSUME NEW c \in Collector, Publish(c)
      PROVE  Spends(o)
  <2>1. UNCHANGED <<job, worker>> /\ aiRun'[o].attempts = aiRun[o].attempts
    BY <1>0, <1>3 DEF Publish, AiRunType
  <2> QED
    BY <2>1, WorkersKept DEF Spends
<1>4. ASSUME NEW c \in Collector, Archive(c) \/ Restore(c)
      PROVE  Spends(o)
  BY <1>4, WorkersKept DEF Archive, Restore, SetArchived, Spends
<1> QED
  BY <1>1, <1>2, <1>3, <1>4 DEF Command

\* Every step of a worker but a claim and the start of its attempt.
LEMMA WorkSpends ==
    ASSUME IInv, NEW w \in Worker, NEW o \in Op,
           ClaimEnds(w) \/ Proceed(w) \/ Progress(w) \/ Abandon(w), ~StartAttempt(w)
    PROVE  Spends(o)
<1> DEFINE h == worker[w].op
<1>0. /\ job \in [Op -> JobType] /\ aiRun \in [Op -> AiRunType]
      /\ worker \in [Worker -> WorkerType]
  BY DEF IInv, TypeOK
<1>1. CASE ClaimEnds(w)
  <2>1. PICK p \in Op, s \in FinalStatus :
           FinishResources(p, s, operation[p].cancelRequested)
    BY <1>1 DEF ClaimEnds, FinalStatus
  <2>2. worker' = worker
    BY <1>1 DEF ClaimEnds
  <2> QED
    BY <2>1, <2>2, FinishSpends
<1>2. CASE Fail(w)
  <2>1. PICK s : FinishResources(h, s, operation[h].cancelRequested)
    BY <1>2 DEF Fail
  <2>2. h \in Op /\ worker' = [worker EXCEPT ![w] = Idle]
    BY <1>2 DEF Fail, IInv, Holding
  <2>3. \A v \in Worker : worker'[v] = worker[v] \/ worker'[v] = Idle
    BY <1>0, <2>2
  <2> QED
    BY <2>1, <2>2, <2>3, FinishSpends
<1>3. CASE Begin(w) \/ Prepare(w) \/ Raise(w) \/ CancelSeen(w) \/ LeaseLost(w) \/ Abandon(w)
  <2>1. UNCHANGED <<job, aiRun>>
    BY <1>3 DEF Begin, Prepare, Raise, CancelSeen, LeaseLost, Abandon
  <2>2. \/ worker' = [worker EXCEPT ![w] = Idle]
        \/ \E pc \in {"owned", "ready"} : \E exc :
              /\ worker[w].pc \in {"claimed", "owned"}
              /\ \/ worker' = [worker EXCEPT ![w].pc = pc]
                 \/ worker' = [worker EXCEPT ![w].pc = pc, ![w].exc = exc]
        \/ \E exc : worker' = [worker EXCEPT ![w].pc = "failing", ![w].exc = exc]
    BY <1>3 DEF Begin, Prepare, Raise, CancelSeen, LeaseLost, Abandon
  <2>3. Waiting(o)' \subseteq Waiting(o)
    BY <1>0, <2>2, WaitingKept DEF Idle, WorkerType
  <2> QED
    BY <2>1, <2>3 DEF Spends
<1>4. CASE MarkRunning(w)
  <2>1. UNCHANGED <<job, aiRun>> /\ worker' = [worker EXCEPT ![w].pc = "working"]
    BY <1>4 DEF MarkRunning
  <2>2. Waiting(o)' \subseteq Waiting(o)
    BY <1>0, <2>1, WaitingKept DEF WorkerType
  <2> QED
    BY <2>1, <2>2 DEF Spends
<1>5. CASE Progress(w)
  <2>1. /\ UNCHANGED <<job, worker>>
        /\ aiRun' = aiRun \/ aiRun' = [aiRun EXCEPT ![h].status = "running"]
    BY <1>5 DEF Progress
  <2>2. aiRun'[o].attempts = aiRun[o].attempts
    BY <1>0, <2>1 DEF AiRunType
  <2> QED
    BY <2>1, <2>2, WorkersKept DEF Spends
<1>6. CASE CommitExplore(w) \/ CommitRun(w)
  <2>1. /\ worker' = [worker EXCEPT ![w] = Idle]
        /\ job' = [job EXCEPT ![h].status = "completed", ![h].lease = "none"]
    BY <1>6 DEF CommitExplore, CommitRun, CommitResult
  <2>2. job'[o].attempts = job[o].attempts /\ Waiting(o)' \subseteq Waiting(o)
    BY <1>0, <2>1, WaitingKept DEF Idle, JobType
  <2>3. CASE CommitExplore(w)
    <3> DEFINE i == worker[w].attempt
               ai == [aiRun EXCEPT ![h].attempts[i] = "succeeded"]
    <3>1. aiRun' = ReadyForReview(ai, h)
      BY <2>3 DEF CommitExplore
    <3>2. aiRun'[o].attempts = ai[o].attempts
      BY <1>0, <3>1 DEF ReadyForReview, AiRunType
    <3>3. \/ ai[o].attempts = aiRun[o].attempts
          \/ ai[o].attempts = [aiRun[o].attempts EXCEPT ![i] = "succeeded"]
      BY <1>0 DEF AiRunType
    <3>4. Len(ai[o].attempts) = Len(aiRun[o].attempts)
      BY <3>3, AttemptsLength, FinishedLength
    <3> QED
      BY <2>2, <3>2, <3>4 DEF Spends
  <2>4. CASE CommitRun(w)
    BY <2>2, <2>4 DEF CommitRun, Spends
  <2> QED
    BY <1>6, <2>3, <2>4
<1> QED
  BY <1>1, <1>2, <1>3, <1>4, <1>5, <1>6 DEF Proceed

LEMMA SpendsPays == ASSUME IInv, ClaimsPay, NEW o \in Op, Spends(o)
                    PROVE  Cardinality(Waiting(o)') + Len(aiRun'[o].attempts)
                              <= job'[o].attempts
<1>1. Cardinality(Waiting(o)') <= Cardinality(Waiting(o)) /\ Cardinality(Waiting(o)') \in Nat
  BY WaitingFinite, FS_Subset, FS_CardinalityType DEF Spends
<1>2. Len(aiRun[o].attempts) \in Nat /\ Cardinality(Waiting(o)) \in Nat /\ job[o].attempts \in Nat
  BY AttemptsLength, WaitingFinite, AttemptsAssumption DEF IInv, TypeOK, JobType
<1> QED
  BY <1>1, <1>2 DEF ClaimsPay, Spends

\* claim_job hands out one claim and one worker takes it.
LEMMA ClaimPays ==
    ASSUME IInv, ClaimsPay, NEW w \in Worker, Claim(w) PROVE ClaimsPay'
<1>1. PICK p \in Op : ClaimAttempt(w, p)
  BY DEF Claim
<1>2. /\ job \in [Op -> JobType] /\ worker \in [Worker -> WorkerType]
      /\ aiRun' = aiRun /\ worker[w].pc = "idle"
  BY DEF IInv, TypeOK, Claim
<1> DEFINE t == job[p].attempts + 1
<1>3. /\ \A o \in Op : job'[o].attempts = IF o = p THEN t ELSE job[o].attempts
      /\ worker'[w].op = p /\ worker'[w].token = t /\ worker'[w].pc = "claimed"
      /\ \A v \in Worker : v # w => worker'[v] = worker[v]
  BY <1>1, <1>2 DEF ClaimAttempt, JobType
<1>4. ASSUME NEW o \in Op, o # p PROVE Waiting(o)' = Waiting(o)
  <2>1. WaitingOn(o)' = WaitingOn(o) /\ w \notin WaitingOn(o)
    BY <1>2, <1>3, <1>4 DEF WaitingOn
  <2>2. \A v \in WaitingOn(o) : worker'[v].token = worker[v].token
    BY <1>3, <2>1 DEF WaitingOn
  <2> QED
    BY <2>1, <2>2 DEF Waiting
<1>5. Waiting(p)' = Waiting(p) \cup {t}
  <2>1. WaitingOn(p)' = WaitingOn(p) \cup {w} /\ w \notin WaitingOn(p)
    BY <1>2, <1>3 DEF WaitingOn
  <2>2. \A v \in WaitingOn(p) : worker'[v].token = worker[v].token
    BY <1>3, <2>1 DEF WaitingOn
  <2> QED
    BY <1>3, <2>1, <2>2 DEF Waiting
<1>6. ASSUME NEW o \in Op
      PROVE  Cardinality(Waiting(o)') + Len(aiRun'[o].attempts) <= job'[o].attempts
  <2>1. /\ Len(aiRun[o].attempts) \in Nat /\ Cardinality(Waiting(o)) \in Nat
        /\ IsFiniteSet(Waiting(o)) /\ job[o].attempts \in Nat
    BY AttemptsLength, WaitingFinite, AttemptsAssumption DEF IInv, TypeOK, JobType
  <2>2. CASE o # p
    BY <1>2, <1>3, <1>4, <2>2 DEF ClaimsPay
  <2>3. CASE o = p
    <3>1. /\ Cardinality(Waiting(o)') \in Nat
          /\ Cardinality(Waiting(o)') <= Cardinality(Waiting(o)) + 1
      BY <1>5, <2>1, <2>3, OneMore
    <3> QED
      BY <1>2, <1>3, <2>1, <2>3, <3>1 DEF ClaimsPay
  <2> QED
    BY <2>2, <2>3
<1> QED
  BY <1>6 DEF ClaimsPay

\* start_ai_attempt turns a claim that waits into an attempt.
LEMMA StartPays ==
    ASSUME IInv, ClaimsPay, NEW w \in Worker, StartAttempt(w) PROVE ClaimsPay'
<1> DEFINE t == worker[w].token
<1>0. PICK h \in Op : h = worker[w].op
  BY DEF StartAttempt, IInv, Holding
<1>1. /\ worker[w].pc = "ready" /\ job' = job
      /\ aiRun' = [aiRun EXCEPT ![h].status = "running",
                                ![h].attempts = Append(@, "running")]
      /\ worker' = [worker EXCEPT ![w].pc = "working",
                                  ![w].attempt = Len(aiRun[h].attempts) + 1]
  BY <1>0 DEF StartAttempt
<1>2. aiRun \in [Op -> AiRunType] /\ worker \in [Worker -> WorkerType]
  BY DEF IInv, TypeOK
<1>3. /\ worker'[w].pc = "working" /\ worker'[w].op = h
      /\ \A v \in Worker : v # w => worker'[v] = worker[v]
  BY <1>0, <1>1, <1>2 DEF WorkerType
<1>4. \A o \in Op : Waiting(o)' \subseteq Waiting(o)
  BY <1>1, <1>3, WaitingKept
<1>5. t \in Waiting(h)
  BY <1>0, <1>1 DEF Waiting, WaitingOn
<1>6. t \notin Waiting(h)'
  <2>1. SUFFICES ASSUME NEW v \in WaitingOn(h)', worker'[v].token = t PROVE FALSE
    BY DEF Waiting
  <2>2. v \in Worker /\ v # w /\ worker'[v].pc # "idle" /\ worker'[v].op = h
    BY <1>3, <2>1 DEF WaitingOn
  <2>3. worker[v].pc # "idle" /\ worker[v].op = h /\ worker[v].token = t
    BY <1>3, <2>1, <2>2
  <2> QED
    BY <1>0, <1>1, <2>2, <2>3 DEF IInv, TokensDiffer
<1>7. ASSUME NEW o \in Op
      PROVE  Cardinality(Waiting(o)') + Len(aiRun'[o].attempts) <= job'[o].attempts
  <2>1. /\ Len(aiRun[o].attempts) \in Nat /\ Cardinality(Waiting(o)) \in Nat
        /\ IsFiniteSet(Waiting(o)) /\ job[o].attempts \in Nat
        /\ aiRun[o].attempts \in Seq(AttemptStatus)
    BY AttemptsLength, WaitingFinite, AttemptsAssumption DEF IInv, TypeOK, JobType
  <2>2. CASE o # h
    <3>1. Spends(o)
      BY <1>1, <1>2, <1>4, <2>2 DEF Spends
    <3> QED
      BY <3>1, SpendsPays
  <2>3. CASE o = h
    <3>1. Waiting(o)' \subseteq Waiting(o) \ {t}
      BY <1>4, <1>6, <2>3
    <3>2. t \in Waiting(o)
      BY <1>5, <2>3
    <3>3. /\ Cardinality(Waiting(o)') \in Nat
          /\ Cardinality(Waiting(o)') <= Cardinality(Waiting(o)) - 1
      BY <2>1, <3>1, <3>2, OneLess
    <3>4. aiRun'[o].attempts = Append(aiRun[o].attempts, "running")
      BY <1>1, <1>2, <2>3 DEF AiRunType
    <3>5. Len(aiRun'[o].attempts) = Len(aiRun[o].attempts) + 1
      BY <2>1, <3>4
    <3>6. /\ Cardinality(Waiting(o)) + Len(aiRun[o].attempts) <= job'[o].attempts
          /\ job'[o].attempts \in Nat
      BY <1>1, <2>1 DEF ClaimsPay
    <3> QED
      BY <2>1, <3>3, <3>5, <3>6
  <2> QED
    BY <2>2, <2>3
<1> QED
  BY <1>7 DEF ClaimsPay

LEMMA NextPays == ASSUME IInv, ClaimsPay, [Next]_vars PROVE ClaimsPay'
<1>1. ASSUME \A o \in Op : Spends(o) PROVE ClaimsPay'
  BY <1>1, SpendsPays DEF ClaimsPay
<1>2. CASE Command
  BY <1>1, <1>2, CommandSpends
<1>3. ASSUME NEW w \in Worker, TakeJob(w) \/ Proceed(w) \/ Progress(w) \/ Abandon(w)
      PROVE  ClaimsPay'
  BY <1>1, <1>3, ClaimPays, StartPays, WorkSpends DEF TakeJob
<1>4. ASSUME NEW p \in Op, ExpireLease(p) PROVE ClaimsPay'
  <2>1. job \in [Op -> JobType]
    BY DEF IInv, TypeOK
  <2>2. \A o \in Op : Spends(o)
    BY <1>4, <2>1, WorkersKept DEF ExpireLease, Spends, JobType
  <2> QED
    BY <1>1, <2>2
<1>5. CASE UNCHANGED vars
  BY <1>1, <1>5, WorkersKept DEF vars, Spends
<1> QED
  BY <1>2, <1>3, <1>4, <1>5 DEF Next

\* A job is claimed no more often than its limit, and an AI run has no more
\* attempts than its job had claims (store.claim_job, store.start_ai_attempt).
THEOREM AttemptsStayBounded == Spec => []AttemptsBounded
<1>1. Init => ClaimsPay
  <2> SUFFICES ASSUME Init, NEW o \in Op
               PROVE  Cardinality(Waiting(o)) + Len(aiRun[o].attempts) <= job[o].attempts
    BY DEF ClaimsPay
  <2>1. Waiting(o) = {}
    BY DEF Init, Idle, Waiting, WaitingOn
  <2>2. job[o].attempts = 0 /\ Len(aiRun[o].attempts) = 0
    BY DEF Init, NoAiRun
  <2> QED
    BY <2>1, <2>2, FS_EmptySet
<1>2. IInv /\ ClaimsPay => AttemptsBounded
  <2> SUFFICES ASSUME IInv, ClaimsPay, NEW o \in Op
               PROVE  /\ job[o].attempts <= payload[o].limit
                      /\ Len(aiRun[o].attempts) <= job[o].attempts
    BY DEF AttemptsBounded
  <2>1. /\ Cardinality(Waiting(o)) \in Nat /\ Len(aiRun[o].attempts) \in Nat
        /\ job[o].attempts \in Nat
    BY WaitingFinite, AttemptsLength, AttemptsAssumption DEF IInv, TypeOK, JobType
  <2> QED
    BY <2>1 DEF ClaimsPay, IInv, Leases
<1> QED
  BY <1>1, <1>2, NextPays, Invariance, PTL DEF Spec
-----------------------------------------------------------------------------
(* The candidate under review *)

\* The candidates of a collector that are under review, and whether the
\* collector shows one or will show it again.
Reviewed(c) == {o \in Of(c) : aiRun[o].review = "ready_review"}
Shows(c) == \/ collector[c].status = "ready_review"
            \/ /\ collector[c].status = "exploring"
               /\ payload[collector[c].activeOp].previousStatus = "ready_review"

Candidate(c) == IF Shows(c) THEN \E o \in Op : Reviewed(c) = {o} ELSE Reviewed(c) = {}

\* What is under way has no candidate yet.
NotReviewed == \A o \in Op : aiRun[o].review = "ready_review" => Exists(o) /\ ~Active(o)

Review == NotReviewed /\ \A c \in Collector : Candidate(c)

\* A step that changes no review status, and the collector's own only between
\* showing a candidate and holding it back.
LEMMA ReviewKept ==
    ASSUME Review,
           \A o \in Op : /\ aiRun'[o].review = "ready_review"
                              <=> aiRun[o].review = "ready_review"
                         /\ Exists(o) /\ ~Active(o) =>
                              /\ Exists(o)' /\ ~Active(o)'
                              /\ payload'[o].collector = payload[o].collector,
           \A c \in Collector : Shows(c)' <=> Shows(c)
    PROVE  Review'
<1>1. NotReviewed'
  BY DEF Review, NotReviewed
<1>2. ASSUME NEW c \in Collector PROVE Reviewed(c)' = Reviewed(c)
  BY DEF Review, NotReviewed, Reviewed, Of
<1>3. ASSUME NEW c \in Collector PROVE Candidate(c)'
  BY <1>2 DEF Review, Candidate
<1> QED
  BY <1>1, <1>3 DEF Review

\* What the guards of a command and the end of an operation say of collectors.
LEMMA CollectorFacts ==
    ASSUME IInv, NEW c \in Collector
    PROVE  /\ collector[c] \in CollectorType
           /\ collector[c].status = "exploring" =>
                 /\ collector[c].activeOp \in Op
                 /\ Active(collector[c].activeOp) /\ IsExplore(collector[c].activeOp)
                 /\ payload[collector[c].activeOp].collector = c
BY DEF IInv, TypeOK, OneTaskPerCollector, OneTask, Of, NoOp

LEMMA OperationFacts ==
    ASSUME IInv, NEW o \in Op, Active(o)
    PROVE  /\ payload[o] \in Payload /\ payload[o].collector \in Collector
           /\ collector[payload[o].collector].activeOp = o
           /\ collector[payload[o].collector].status = "exploring" <=> IsExplore(o)
           /\ o # NoOp
<1>1. payload[o] \in Payload /\ payload[o].collector \in Collector
  BY DEF IInv, Absent, Payload, Exists, Active, LiveStatus
<1>2. o # NoOp
  BY OpAssumption DEF NoOp
<1>3. OneTask(payload[o].collector)
  BY <1>1 DEF IInv, OneTaskPerCollector
<1> QED
  BY <1>1, <1>2, <1>3 DEF OneTask, Of

LEMMA CreateReview ==
    ASSUME IInv, Review, NEW o \in Op, NEW c \in Collector,
           CreateExplore(o, c) \/ CreateRun(o, c)
    PROVE  Review'
<1>1. /\ OnlyTouches(o) /\ ~Exists(o) /\ operation'[o].status = "queued"
      /\ \A p \in Of(c) : ~Active(p)
      /\ \A p \in Op \ {o} : payload'[p] = payload[p]
  BY CreateTouches
<1>2. PICK kind, limit, status :
         /\ CreateCommand(o, c, kind, limit, status)
         /\ \/ status = "exploring"
            \/ status = "published" /\ collector[c].status = "published"
  BY DEF CreateExplore, CreateRun
<1>3. /\ payload \in [Op -> Payload \cup {NoPayload}]
      /\ aiRun \in [Op -> AiRunType] /\ collector \in [Collector -> CollectorType]
  BY DEF IInv, TypeOK
<1>4. /\ payload'[o].previousStatus = collector[c].status
      /\ collector'[c].status = status /\ collector'[c].activeOp = o
      /\ \A d \in Collector : d # c => collector'[d] = collector[d]
  <2>1. payload' = [payload EXCEPT ![o] =
                     [kind |-> kind, collector |-> c,
                      previousStatus |-> collector[c].status,
                      revision |-> collector[c].revision, limit |-> limit]]
    BY <1>2 DEF CreateCommand
  <2>2. collector' = [collector EXCEPT ![c].status = status, ![c].activeOp = o]
    BY <1>2 DEF CreateCommand
  <2>3. payload'[o].previousStatus = collector[c].status
    BY <1>3, <2>1
  <2>4. /\ collector'[c].status = status /\ collector'[c].activeOp = o
        /\ \A d \in Collector : d # c => collector'[d] = collector[d]
    BY <1>3, <2>2 DEF CollectorType
  <2> QED
    BY <2>3, <2>4
<1>5. \A p \in Op : aiRun'[p].review = aiRun[p].review
  <2>1. aiRun' = aiRun \/ aiRun' = [aiRun EXCEPT ![o].status = "queued"]
    BY DEF CreateExplore, CreateRun
  <2> QED
    BY <1>3, <2>1 DEF AiRunType
<1>6. collector[c].status # "exploring"
  BY <1>1 DEF IInv, OneTaskPerCollector, OneTask
<1>7. Shows(c)' <=> Shows(c)
  BY <1>2, <1>4, <1>6 DEF Shows
<1>8. ASSUME NEW d \in Collector, d # c PROVE Shows(d)' <=> Shows(d)
  <2>1. collector'[d] = collector[d]
    BY <1>4, <1>8
  <2>2. collector[d].status = "exploring" =>
           payload'[collector[d].activeOp] = payload[collector[d].activeOp]
    <3>1. \A p \in Op : Active(p) => Exists(p)
      BY DEF Active, Exists, LiveStatus
    <3> QED
      BY <1>1, <3>1, CollectorFacts
  <2> QED
    BY <2>1, <2>2 DEF Shows
<1>9. \A p \in Op : Exists(p) => /\ Exists(p)' /\ (Active(p)' <=> Active(p))
                                 /\ payload'[p] = payload[p]
  BY <1>1 DEF OnlyTouches, Exists, Active
<1> QED
  BY <1>5, <1>7, <1>8, <1>9, ReviewKept

\* An operation that ends without a result gives the collector its old status
\* back, and with it the candidate it showed.
LEMMA EndsReview ==
    ASSUME IInv, Review, NEW o \in Op, Active(o), NEW s \in FinalStatus, NEW flag,
           FinishResources(o, s, flag)
    PROVE  Review'
<1> DEFINE c == payload[o].collector
<1>1. /\ payload[o] \in Payload /\ c \in Collector /\ collector[c].activeOp = o
      /\ collector[c].status = "exploring" <=> IsExplore(o)
      /\ o # NoOp
  BY OperationFacts
<1>2. /\ aiRun \in [Op -> AiRunType] /\ collector \in [Collector -> CollectorType]
      /\ operation \in [Op -> OperationType]
  BY DEF IInv, TypeOK
<1>3. payload' = payload /\ collector' = [collector EXCEPT ![c] = Released(collector[c], o)]
  BY DEF FinishResources
<1>4. /\ aiRun[o].review # "ready_review" /\ aiRun'[o].review # "ready_review"
      /\ \A p \in Op : p # o => aiRun'[p] = aiRun[p]
  BY <1>2 DEF FinishResources, Review, NotReviewed
<1>5. /\ collector'[c].status = IF IsExplore(o) THEN payload[o].previousStatus
                                                ELSE collector[c].status
      /\ \A d \in Collector : d # c => collector'[d] = collector[d]
  BY <1>1, <1>2, <1>3 DEF Released, CollectorType
<1>6. ASSUME NEW d \in Collector PROVE Shows(d)' <=> Shows(d)
  <2>1. CASE d # c
    BY <1>3, <1>5, <2>1 DEF Shows
  <2>2. CASE d = c /\ IsExplore(o)
    <3>1. payload[o].previousStatus # "exploring"
      BY <1>1 DEF Payload
    <3> QED
      BY <1>1, <1>3, <1>5, <2>2, <3>1 DEF Shows
  <2>3. CASE d = c /\ ~IsExplore(o)
    BY <1>1, <1>3, <1>5, <2>3 DEF Shows
  <2> QED
    BY <2>1, <2>2, <2>3
<1>7. \A p \in Op : Exists(p) /\ ~Active(p) => Exists(p)' /\ ~Active(p)'
  <2>1. OnlyTouches(o) /\ operation'[o].status = s
    BY FinishTouches
  <2> QED
    BY <2>1 DEF OnlyTouches, Exists, Active, FinalStatus, LiveStatus
<1> QED
  BY <1>3, <1>4, <1>6, <1>7, ReviewKept

\* publish_rule_bundle publishes the candidate that was under review.
LEMMA PublishReview ==
    ASSUME IInv, Review, NEW c \in Collector, Publish(c) PROVE Review'
<1>1. /\ aiRun \in [Op -> AiRunType] /\ collector \in [Collector -> CollectorType]
  BY DEF IInv, TypeOK
<1>2. /\ UNCHANGED <<operation, payload>>
      /\ collector' = [collector EXCEPT ![c].status = "published"]
  BY DEF Publish
<1>3. \A o \in Op : /\ o \in Reviewed(c) => aiRun'[o].review # "ready_review"
                    /\ o \notin Reviewed(c) => aiRun'[o] = aiRun[o]
  BY <1>1 DEF Publish, Reviewed, AiRunType
<1>4. /\ collector'[c].status = "published"
      /\ \A d \in Collector : d # c => collector'[d] = collector[d]
  BY <1>1, <1>2 DEF CollectorType
<1>5. NotReviewed'
  BY <1>2, <1>3 DEF Review, NotReviewed, Exists, Active, Reviewed
<1>6. ASSUME NEW d \in Collector PROVE Candidate(d)'
  <2>1. Of(d)' = Of(d)
    BY <1>2 DEF Of
  <2>2. CASE d = c
    <3>1. ~Shows(d)'
      BY <1>4, <2>2 DEF Shows
    <3>2. Reviewed(d)' = {}
      BY <1>3, <2>1, <2>2 DEF Reviewed, Of
    <3> QED
      BY <3>1, <3>2 DEF Candidate
  <2>3. CASE d # c
    <3>1. Shows(d)' <=> Shows(d)
      BY <1>2, <1>4, <2>3 DEF Shows
    <3>2. \A o \in Of(d) : o \in Op /\ o \notin Reviewed(c)
      BY <2>3 DEF Of, Reviewed
    <3>3. Reviewed(d)' = Reviewed(d)
      BY <1>3, <2>1, <3>2 DEF Reviewed
    <3> QED
      BY <3>1, <3>3 DEF Candidate, Review
  <2> QED
    BY <2>2, <2>3
<1> QED
  BY <1>5, <1>6 DEF Review

\* A committed exploration leaves its own candidate, and no other, under review.
LEMMA CommitReview ==
    ASSUME IInv, Review, NEW w \in Worker, CommitExplore(w) PROVE Review'
<1>0. PICK o \in Op : o = worker[w].op
  BY DEF CommitExplore, IInv, Holding
<1> DEFINE c == payload[o].collector
           ai == [aiRun EXCEPT ![o].attempts[worker[w].attempt] = "succeeded"]
<1>1. /\ Active(o) /\ IsExplore(o) /\ CommitResult(w, o, "ready_review")
      /\ aiRun' = ReadyForReview(ai, o)
  BY <1>0 DEF CommitExplore, CommitResult, Owned, Fenced
<1>2. c \in Collector
  BY <1>1, OperationFacts
<1>3. /\ aiRun \in [Op -> AiRunType] /\ collector \in [Collector -> CollectorType]
      /\ operation \in [Op -> OperationType]
  BY DEF IInv, TypeOK
<1>4. /\ payload' = payload
      /\ collector'[c].status = "ready_review"
      /\ \A d \in Collector : d # c => collector'[d] = collector[d]
  BY <1>1, <1>2, <1>3 DEF CommitResult, CollectorType
<1>5. \A p \in Op : ai[p].review = aiRun[p].review
  BY <1>3 DEF AiRunType
<1>6. /\ aiRun'[o].review = "ready_review"
      /\ \A p \in Op : p # o /\ p \in Of(c) => aiRun'[p].review # "ready_review"
      /\ \A p \in Op : p # o /\ p \notin Of(c) => aiRun'[p].review = aiRun[p].review
  <2>1. \A p \in Op : ai[p] \in [status : {"none"} \cup LiveStatus \cup FinalStatus,
                                 review : {"not_ready", "ready_review", "superseded", "published"},
                                 attempts : {ai[p].attempts}]
    BY <1>3 DEF AiRunType
  <2> HIDE DEF ai
  <2> QED
    BY <1>1, <1>5, <2>1 DEF ReadyForReview
<1>7. /\ operation'[o].status = "succeeded"
      /\ \A p \in Op : p # o => operation'[p] = operation[p]
  BY <1>1, <1>3 DEF CommitResult, OperationType
<1>8. NotReviewed'
  BY <1>6, <1>7 DEF Review, NotReviewed, Exists, Active, LiveStatus
<1>9. ASSUME NEW d \in Collector PROVE Candidate(d)'
  <2>1. Of(d)' = Of(d)
    BY <1>4 DEF Of
  <2>2. CASE d = c
    <3>1. Shows(d)'
      BY <1>4, <2>2 DEF Shows
    <3>2. Reviewed(d)' = {o}
      BY <1>6, <2>1, <2>2 DEF Reviewed, Of
    <3> QED
      BY <3>1, <3>2 DEF Candidate
  <2>3. CASE d # c
    <3>1. Shows(d)' <=> Shows(d)
      BY <1>4, <2>3 DEF Shows
    <3>2. \A p \in Of(d) : p \in Op /\ p # o /\ p \notin Of(c)
      BY <2>3 DEF Of
    <3>3. Reviewed(d)' = Reviewed(d)
      BY <1>6, <2>1, <3>2 DEF Reviewed
    <3> QED
      BY <3>1, <3>3 DEF Candidate, Review
  <2> QED
    BY <2>2, <2>3
<1> QED
  BY <1>8, <1>9 DEF Review

\* Every other step leaves review statuses, collectors' statuses and the set of
\* operations that are over alone, or only adds to the latter.
LEMMA QuietReview ==
    ASSUME Review, UNCHANGED payload,
           \A o \in Op : /\ aiRun'[o].review = aiRun[o].review
                         /\ \/ operation'[o].status = operation[o].status
                            \/ Active(o) /\ Exists(o)',
           \A c \in Collector : /\ collector'[c].status = collector[c].status
                                /\ \/ collector'[c].activeOp = collector[c].activeOp
                                   \/ collector[c].status # "exploring"
    PROVE  Review'
<1>1. \A c \in Collector : Shows(c)' <=> Shows(c)
  BY DEF Shows
<1>2. \A o \in Op : Exists(o) /\ ~Active(o) => Exists(o)' /\ ~Active(o)'
  BY DEF Exists, Active
<1> QED
  BY <1>1, <1>2, ReviewKept

LEMMA NextReview == ASSUME IInv, Review, [Next]_vars PROVE Review'
<1>0. /\ aiRun \in [Op -> AiRunType] /\ collector \in [Collector -> CollectorType]
      /\ operation \in [Op -> OperationType] /\ job \in [Op -> JobType]
  BY DEF IInv, TypeOK
<1>1. ASSUME NEW o \in Op, NEW c \in Collector, CreateExplore(o, c) \/ CreateRun(o, c)
      PROVE  Review'
  BY <1>1, CreateReview
<1>2. ASSUME NEW o \in Op, RequestCancel(o) PROVE Review'
  <2>1. CASE FinishResources(o, "cancelled", TRUE)
    BY <1>2, <2>1, EndsReview DEF RequestCancel, FinalStatus
  <2>2. CASE /\ operation' = [operation EXCEPT ![o].cancelRequested = TRUE]
             /\ UNCHANGED <<payload, aiRun, collector>>
    <3>1. \A p \in Op : operation'[p].status = operation[p].status
      BY <1>0, <2>2 DEF OperationType
    <3> QED
      BY <2>2, <3>1, QuietReview
  <2> QED
    BY <1>2, <2>1, <2>2 DEF RequestCancel
<1>3. ASSUME NEW c \in Collector, Publish(c) \/ Archive(c) \/ Restore(c) PROVE Review'
  <2>1. CASE Publish(c)
    BY <2>1, PublishReview
  <2>2. CASE Archive(c) \/ Restore(c)
    <3>1. PICK archived : SetArchived(c, archived)
      BY <2>2 DEF Archive, Restore
    <3>2. /\ UNCHANGED <<operation, payload, aiRun>>
          /\ \A d \in Collector : /\ collector'[d].status = collector[d].status
                                  /\ collector'[d].activeOp = collector[d].activeOp
      BY <1>0, <3>1 DEF SetArchived, CollectorType
    <3> QED
      BY <3>2, QuietReview
  <2> QED
    BY <1>3, <2>1, <2>2
<1>4. ASSUME NEW o \in Op, Ends(o) PROVE Review'
  BY <1>4, EndsReview DEF Ends
<1>5. ASSUME NEW w \in Worker, CommitExplore(w) PROVE Review'
  BY <1>5, CommitReview
<1>6. ASSUME NEW w \in Worker, CommitRun(w) PROVE Review'
  <2>0. PICK o \in Op : o = worker[w].op
    BY <1>6 DEF CommitRun, IInv, Holding
  <2> DEFINE c == payload[o].collector
             status == collector[c].status
  <2>1. /\ Active(o) /\ ~IsExplore(o) /\ CommitResult(w, o, status)
        /\ UNCHANGED <<payload, aiRun>>
    BY <1>6, <2>0 DEF CommitRun, CommitResult, Owned, Fenced
  <2>2. c \in Collector /\ status # "exploring"
    BY <2>1, OperationFacts
  <2>3. collector' = [collector EXCEPT ![c].activeOp = NoOp, ![c].status = status]
    BY <2>1 DEF CommitResult
  <2>4. \A d \in Collector : /\ collector'[d].status = collector[d].status
                             /\ \/ collector'[d].activeOp = collector[d].activeOp
                                \/ collector[d].status # "exploring"
    BY <1>0, <2>2, <2>3 DEF CollectorType
  <2>5. /\ operation'[o].status = "succeeded"
        /\ \A p \in Op : p # o => operation'[p] = operation[p]
    BY <1>0, <2>1 DEF CommitResult, OperationType
  <2>6. \A p \in Op : \/ operation'[p].status = operation[p].status
                      \/ Active(p) /\ Exists(p)'
    BY <2>1, <2>5 DEF Exists
  <2> QED
    BY <2>1, <2>4, <2>6, QuietReview
<1>7. ASSUME NEW w \in Worker, Progress(w) PROVE Review'
  <2>0. PICK o \in Op : o = worker[w].op
    BY <1>7 DEF Progress, IInv, Holding
  <2>1. /\ Active(o) /\ OnlyTouches(o) /\ operation'[o].status = "running"
        /\ UNCHANGED <<payload, collector>>
    BY <1>7, <2>0, ProgressTouches DEF Progress
  <2>2. \A p \in Op : aiRun'[p].review = aiRun[p].review
    BY <1>0, <1>7 DEF Progress, AiRunType
  <2>3. \A p \in Op : \/ operation'[p].status = operation[p].status
                      \/ Active(p) /\ Exists(p)'
    BY <2>1 DEF OnlyTouches, Exists
  <2> QED
    BY <2>1, <2>2, <2>3, QuietReview
<1>8. ASSUME NEW w \in Worker, StartAttempt(w) PROVE Review'
  <2>1. UNCHANGED <<operation, payload, collector>>
    BY <1>8 DEF StartAttempt
  <2>2. \A p \in Op : aiRun'[p].review = aiRun[p].review
    BY <1>0, <1>8 DEF StartAttempt, AiRunType
  <2> QED
    BY <2>1, <2>2, QuietReview
<1>9. ASSUME NEW w \in Worker,
             \/ Claim(w) \/ Begin(w) \/ Prepare(w) \/ MarkRunning(w) \/ Raise(w)
             \/ CancelSeen(w) \/ LeaseLost(w) \/ Abandon(w)
      PROVE  Review'
  <2>1. UNCHANGED <<operation, payload, collector, aiRun>>
    BY <1>9
    DEF Claim, Begin, Prepare, MarkRunning, Raise, CancelSeen, LeaseLost, Abandon
  <2> QED
    BY <2>1, QuietReview
<1>10. ASSUME NEW w \in Worker, ClaimEnds(w) \/ Fail(w) PROVE Review'
  BY <1>4, <1>10, ClaimEndsEnds, FailEnds
<1>11. ASSUME NEW o \in Op, ExpireLease(o) PROVE Review'
  BY <1>11, QuietReview DEF ExpireLease
<1>12. CASE UNCHANGED vars
  BY <1>12, QuietReview DEF vars
<1>13. CASE Command
  BY <1>1, <1>2, <1>3, <1>13 DEF Command
<1>14. ASSUME NEW w \in Worker, TakeJob(w) \/ Proceed(w) \/ Progress(w) \/ Abandon(w)
       PROVE  Review'
  BY <1>5, <1>6, <1>7, <1>8, <1>9, <1>10, <1>14 DEF TakeJob, Proceed
<1> QED
  BY <1>11, <1>12, <1>13, <1>14 DEF Next

\* A collector has one candidate under review exactly while it shows one, or
\* explores beside one (store.update_ai_run, publish_rule_bundle,
\* finish_resources).
THEOREM OneCandidate == Spec => []OneCandidateUnderReview
<1>1. Init => Review
  BY CollectorAssumption
  DEF Init, Review, NotReviewed, Candidate, Reviewed, Shows, Of, NoAiRun
<1>2. Review => OneCandidateUnderReview
  <2> SUFFICES ASSUME Review, NEW c \in Collector
               PROVE  Cardinality(Reviewed(c)) = (IF Shows(c) THEN 1 ELSE 0)
    BY DEF OneCandidateUnderReview, Reviewed, Shows
  <2> QED
    BY FS_EmptySet, FS_Singleton DEF Review, Candidate
<1> QED
  BY <1>1, <1>2, NextReview, Invariance, PTL DEF Spec
=============================================================================
