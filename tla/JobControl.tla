----------------------------- MODULE JobControl -----------------------------
(***************************************************************************)
(* The durable job queue of Extrio: the commands of the control plane, the  *)
(* lease and fencing protocol of job_control.py and store.claim_job, and    *)
(* the worker loop of worker.py, over one shared database.                  *)
(*                                                                          *)
(* Every action is one committed database transaction, or one step of a     *)
(* worker between two of them.  SQLite serialises transactions with BEGIN   *)
(* IMMEDIATE; on PostgreSQL they lock the job row and the collector.        *)
(*                                                                          *)
(* Time is abstracted to what the code compares: a lease is "live" while    *)
(* lease_until lies in the future and "expired" afterwards.  Renewing a     *)
(* live lease leaves it live, so a heartbeat that finds nothing wrong is a  *)
(* stuttering step; one that does is LeaseLost or CancelSeen.               *)
(***************************************************************************)
EXTENDS Integers, Sequences, FiniteSets

CONSTANTS Collector,    \* collectors (sources under management)
          Op,           \* job ids; an operation and its job share one
          Worker,       \* worker processes
          MaxAttempts,  \* claims a job may have: payload.maxJobAttempts, or 3
          MaxRevision,  \* bound: archive/restore commands on one collector
          NoCollector   \* the collector of a job that does not exist

ASSUME OpAssumption       == Op \subseteq Nat \ {0}
ASSUME AttemptsAssumption == MaxAttempts \in Nat \ {0}
ASSUME RevisionAssumption == MaxRevision \in Nat
ASSUME CollectorAssumption == NoCollector \notin Collector

VARIABLES operation,  \* row of operations: status and cancelRequested
          job,        \* row of jobs: status, attempts and lease_until
          payload,    \* immutable part of the job row
          aiRun,      \* row of ai_runs (explore jobs), with its ai_attempts
          run,        \* status of the row of runs (run jobs)
          collector,  \* row of collectors
          worker,     \* what each worker process holds in memory
          resultOf    \* history: the claim whose result was committed, or 0

vars == <<operation, job, payload, aiRun, run, collector, worker, resultOf>>

-----------------------------------------------------------------------------
(* Data *)

NoOp == 0

FinalStatus == {"succeeded", "failed", "cancelled", "timed_out"}
LiveStatus  == {"queued", "running"}
RunFinal    == FinalStatus \cup {"partially_succeeded"}

Limits == {1, MaxAttempts}    \* recovery runs get one claim

NoPayload == [kind |-> "none", collector |-> NoCollector,
              previousStatus |-> "draft", revision |-> 0, limit |-> 0]

Payload == [kind : {"explore", "run"}, collector : Collector,
            previousStatus : {"draft", "ready_review", "published"},
            revision : 0..MaxRevision, limit : Limits]

NoAiRun  == [status |-> "none", review |-> "not_ready", attempts |-> <<>>]
Idle     == [pc |-> "idle", op |-> NoOp, token |-> 0,
             exc |-> "none", attempt |-> 0]

AttemptStatus == {"running"} \cup FinalStatus

OperationType == [status : {"absent"} \cup LiveStatus \cup FinalStatus,
                  cancelRequested : BOOLEAN]
JobType       == [status   : {"none", "queued", "processing", "completed", "failed"},
                  attempts : 0..MaxAttempts,
                  lease    : {"none", "live", "expired"}]
AiRunType     == [status   : {"none"} \cup LiveStatus \cup FinalStatus,
                  review   : {"not_ready", "ready_review", "superseded", "published"},
                  attempts : Seq(AttemptStatus)]
CollectorType == [status   : {"draft", "exploring", "ready_review", "published"},
                  activeOp : Op \cup {NoOp},
                  archived : BOOLEAN,
                  revision : 0..MaxRevision]
WorkerType    == [pc : {"idle", "claimed", "owned", "ready", "working", "failing"},
                  op : Op \cup {NoOp}, token : 0..MaxAttempts,
                  exc : {"none", "error", "timed_out", "cancelled"},
                  attempt : Nat]

TypeOK ==
    /\ operation \in [Op -> OperationType]
    /\ job       \in [Op -> JobType]
    /\ payload   \in [Op -> Payload \cup {NoPayload}]
    /\ aiRun     \in [Op -> AiRunType]
    /\ run       \in [Op -> {"none"} \cup LiveStatus \cup RunFinal]
    /\ collector \in [Collector -> CollectorType]
    /\ worker    \in [Worker -> WorkerType]
    /\ resultOf  \in [Op -> 0..MaxAttempts]

-----------------------------------------------------------------------------
(* Predicates of the code *)

Exists(o)     == operation[o].status # "absent"
Active(o)     == operation[o].status \in LiveStatus
Terminal(o)   == operation[o].status \in FinalStatus
Of(c)         == {o \in Op : payload[o].collector = c}
IsExplore(o)  == payload[o].kind = "explore"

-----------------------------------------------------------------------------
(* Faults: definitions below as a plausible mistake would have written them.  *)
(* No specification uses them; each shows that a property notices its fault.  *)

\* Blocked: only runs are looked for, not queued or running explorations.
BlockedByRunOnly(c) == \E o \in Of(c) : run[o] \in LiveStatus

\* Claimable: the job of a worker that died is never offered again.
ClaimableWhenQueued(o) == job[o].status = "queued"

\* Exhausted: no limit, or the default where the job carries its own.
ExhaustedNever(o) == FALSE
ExhaustedByDefault(o) == job[o].attempts >= MaxAttempts

\* Fenced: any worker that once claimed the job passes.
FencedByLease(o, t) ==
    job[o].status = "processing" /\ job[o].lease = "live" /\ Active(o)

\* Fenced: the attempt number alone.
FencedByAttempt(o, t) == job[o].attempts = t

\* Owned: a requested cancellation does not stop a commit.
OwnedThoughCancelled(o, t) ==
    /\ job[o].status = "processing"
    /\ job[o].attempts = t
    /\ job[o].lease = "live"
    /\ Active(o)

\* ReadyForReview: an older candidate is not superseded.
ReadyBesideOthers(ai, o) ==
    [ai EXCEPT ![o].status = "succeeded", ![o].review = "ready_review"]

\* SetArchived: archived under a queued or running job.
SetArchivedUnderWork(c, archived) ==
    /\ collector[c].revision < MaxRevision
    /\ collector' = [collector EXCEPT ![c].archived = archived,
                                      ![c].revision = @ + 1]
    /\ UNCHANGED <<operation, job, payload, aiRun, run, worker, resultOf>>

\* ClaimAttempt: a reclaimed job keeps the number of the claim it replaces.
ClaimAttemptAgain(w, o) ==
    LET t == IF job[o].attempts = 0 THEN 1 ELSE job[o].attempts IN
    /\ job' = [job EXCEPT ![o] = [status |-> "processing", attempts |-> t,
                                  lease |-> "live"]]
    /\ worker' = [worker EXCEPT ![w] = [pc |-> "claimed", op |-> o, token |-> t,
                                        exc |-> "none", attempt |-> 0]]

\* collector_lifecycle.active_blockers: operations and AI runs that are not
\* terminal, live jobs, and runs that are not terminal.
Blocked(c) ==
    \E o \in Of(c) :
        \/ Active(o)
        \/ aiRun[o].status \in LiveStatus
        \/ job[o].status \in {"queued", "processing"}
        \/ run[o] \in LiveStatus

\* The next AUTOINCREMENT job id.
NextOp(o) == ~Exists(o) /\ \A p \in Op : p < o => Exists(p)

\* What claim_job selects from; it takes the smallest id.
Claimable(o) == \/ job[o].status = "queued"
                \/ job[o].status = "processing" /\ job[o].lease = "expired"
NextClaim(o) == Claimable(o) /\ \A p \in Op : p < o => ~Claimable(p)

\* claim_job: the claims of the job are used up.
Exhausted(o) == job[o].attempts >= payload[o].limit

\* job_control.owned_transaction(allow_cancel=True), for the job a worker
\* claimed as attempt t: the row is still processing under that attempt, the
\* lease has not run out and the operation is not terminal.
Fenced(o, t) ==
    /\ job[o].status = "processing"
    /\ job[o].attempts = t
    /\ job[o].lease = "live"
    /\ Active(o)

\* job_control.owned_transaction(): and no cancellation was requested.
Owned(o, t) == Fenced(o, t) /\ ~operation[o].cancelRequested

CloseRunning(attempts, s) ==
    [i \in DOMAIN attempts |-> IF attempts[i] = "running" THEN s ELSE attempts[i]]

\* The collector row after its operation o is over without a result.
Released(row, o) ==
    IF row.activeOp # o THEN row
    ELSE [row EXCEPT !.activeOp = NoOp,
                     !.status = IF IsExplore(o) THEN payload[o].previousStatus
                                                ELSE row.status]

\* job_control.finish_resources: operation, AI run and attempts or run,
\* collector and job in one transaction.
FinishResources(o, s, cancelRequested) ==
    /\ operation' = [operation EXCEPT ![o] = [status |-> s,
                                      cancelRequested |-> cancelRequested]]
    /\ job' = [job EXCEPT ![o].status = "failed", ![o].lease = "none"]
    /\ aiRun' = IF IsExplore(o)
                THEN [aiRun EXCEPT ![o] =
                        [status   |-> s, review |-> "not_ready",
                         attempts |-> CloseRunning(aiRun[o].attempts, s)]]
                ELSE aiRun
    /\ run' = IF IsExplore(o) THEN run ELSE [run EXCEPT ![o] = s]
    /\ collector' = [collector EXCEPT ![payload[o].collector] =
                        Released(collector[payload[o].collector], o)]
    /\ UNCHANGED <<payload, resultOf>>

\* store.update_ai_run with reviewStatus "ready_review": the AI run o becomes
\* the collector's only candidate under review.
ReadyForReview(ai, o) ==
    [p \in Op |->
        IF p = o THEN [status |-> "succeeded", review |-> "ready_review",
                       attempts |-> ai[o].attempts]
        ELSE IF p \in Of(payload[o].collector) /\ ai[p].review = "ready_review"
             THEN [ai[p] EXCEPT !.review = "superseded"]
             ELSE ai[p]]

-----------------------------------------------------------------------------
Init ==
    /\ operation = [o \in Op |-> [status |-> "absent", cancelRequested |-> FALSE]]
    /\ job       = [o \in Op |-> [status |-> "none", attempts |-> 0,
                                  lease |-> "none"]]
    /\ payload   = [o \in Op |-> NoPayload]
    /\ aiRun     = [o \in Op |-> NoAiRun]
    /\ run       = [o \in Op |-> "none"]
    /\ collector = [c \in Collector |-> [status |-> "draft", activeOp |-> NoOp,
                                         archived |-> FALSE, revision |-> 0]]
    /\ worker    = [w \in Worker |-> Idle]
    /\ resultOf  = [o \in Op |-> 0]

(* Commands of the control plane *)

\* store.create_async_command: the guards every command shares, the operation,
\* the collector's activeOperationId and the queued job.
CreateCommand(o, c, kind, limit, status) ==
    /\ NextOp(o)
    /\ ~collector[c].archived
    /\ ~Blocked(c)
    /\ operation' = [operation EXCEPT ![o].status = "queued"]
    /\ job' = [job EXCEPT ![o].status = "queued"]
    /\ payload' = [payload EXCEPT ![o] =
                     [kind |-> kind, collector |-> c,
                      previousStatus |-> collector[c].status,
                      revision |-> collector[c].revision, limit |-> limit]]
    /\ collector' = [collector EXCEPT ![c].status = status, ![c].activeOp = o]
    /\ UNCHANGED <<worker, resultOf>>

\* POST /collectors/{id}/explorations and /repairs.
CreateExplore(o, c) ==
    /\ CreateCommand(o, c, "explore", MaxAttempts, "exploring")
    /\ aiRun' = [aiRun EXCEPT ![o].status = "queued"]
    /\ UNCHANGED run

\* POST /collectors/{id}/runs, reprocess-rejected, the scheduler and recovery.
CreateRun(o, c) ==
    /\ collector[c].status = "published"
    /\ \E limit \in Limits : CreateCommand(o, c, "run", limit, "published")
    /\ run' = [run EXCEPT ![o] = "queued"]
    /\ UNCHANGED aiRun

\* job_control.request_cancel: a job no worker holds is cancelled at once.
RequestCancel(o) ==
    /\ Active(o)
    /\ ~operation[o].cancelRequested
    /\ IF job[o].status = "queued" \/ job[o].lease # "live"
       THEN FinishResources(o, "cancelled", TRUE)
       ELSE /\ operation' = [operation EXCEPT ![o].cancelRequested = TRUE]
            /\ UNCHANGED <<job, payload, aiRun, run, collector, resultOf>>
    /\ UNCHANGED worker

\* store.publish_rule_bundle: the newest candidate under review is published.
Publish(c) ==
    LET reviewed == {o \in Of(c) : aiRun[o].review = "ready_review"}
    IN  /\ ~collector[c].archived
        /\ collector[c].status = "ready_review"
        /\ collector' = [collector EXCEPT ![c].status = "published"]
        /\ aiRun' = [o \in Op |->
             IF o \notin reviewed THEN aiRun[o]
             ELSE [aiRun[o] EXCEPT !.review =
                     IF \A p \in reviewed : p <= o THEN "published"
                                                   ELSE "superseded"]]
        /\ UNCHANGED <<operation, job, payload, run, worker, resultOf>>

\* collector_lifecycle.lifecycle_command, archive and restore: refused while
\* anything is under way; a management write advances managementRevision.
SetArchived(c, archived) ==
    /\ ~Blocked(c)
    /\ collector[c].revision < MaxRevision
    /\ collector' = [collector EXCEPT ![c].archived = archived,
                                      ![c].revision = @ + 1]
    /\ UNCHANGED <<operation, job, payload, aiRun, run, worker, resultOf>>

Archive(c) == SetArchived(c, TRUE)
Restore(c) == SetArchived(c, FALSE)

-----------------------------------------------------------------------------
(* The queue: store.claim_job and the passing of time *)

\* An attempt is a claim: it takes the next number and a fresh lease.
ClaimAttempt(w, o) ==
    /\ job' = [job EXCEPT ![o].status = "processing", ![o].attempts = @ + 1,
                          ![o].lease = "live"]
    /\ worker' = [worker EXCEPT ![w] =
                    [pc |-> "claimed", op |-> o, token |-> job[o].attempts + 1,
                     exc |-> "none", attempt |-> 0]]

Claim(w) ==
    /\ worker[w].pc = "idle"
    /\ \E o \in Op :
         /\ NextClaim(o)
         /\ ~operation[o].cancelRequested
         /\ ~Exhausted(o)
         /\ ClaimAttempt(w, o)
    /\ UNCHANGED <<operation, payload, aiRun, run, collector, resultOf>>

\* claim_job ends a job that was cancelled under a lease now expired, or whose
\* claims are used up.  (Its branch for an operation that is already terminal
\* is not reachable: JobFollowsOperation.)
ClaimEnds(w) ==
    /\ worker[w].pc = "idle"
    /\ \E o \in Op :
         /\ NextClaim(o)
         /\ operation[o].cancelRequested \/ Exhausted(o)
         /\ FinishResources(o, IF operation[o].cancelRequested
                               THEN "cancelled" ELSE "failed",
                            operation[o].cancelRequested)
    /\ UNCHANGED worker

\* lease_until passes: the holder was not renewing, or not fast enough.
ExpireLease(o) ==
    /\ job[o].lease = "live"
    /\ job' = [job EXCEPT ![o].lease = "expired"]
    /\ UNCHANGED <<operation, payload, aiRun, run, collector, worker, resultOf>>

-----------------------------------------------------------------------------
(* The worker: Worker.process, _process_owned and fail *)

\* The points where a worker's next transaction is an owned_transaction.
AtFence(w) == \/ worker[w].pc \in {"claimed", "working"}
              \/ worker[w].pc = "ready" /\ ~IsExplore(worker[w].op)

\* process: the first renewal, before anything else.
Begin(w) ==
    /\ worker[w].pc = "claimed"
    /\ Owned(worker[w].op, worker[w].token)
    /\ worker' = [worker EXCEPT ![w].pc = "owned"]
    /\ UNCHANGED <<operation, job, payload, aiRun, run, collector, resultOf>>

\* _process_owned: the collector is read, outside any transaction, and must
\* still be the one the command was accepted for.
Prepare(w) ==
    LET o == worker[w].op
        c == payload[o].collector
        same == ~collector[c].archived /\ collector[c].revision = payload[o].revision
    IN  /\ worker[w].pc = "owned"
        /\ worker' = [worker EXCEPT ![w].pc = IF same THEN "ready" ELSE "failing",
                                    ![w].exc = IF same THEN "none" ELSE "error"]
        /\ UNCHANGED <<operation, job, payload, aiRun, run, collector, resultOf>>

\* store.start_ai_attempt: a transaction of its own, which asks nothing of the
\* lease.
StartAttempt(w) ==
    LET o == worker[w].op IN
    /\ worker[w].pc = "ready"
    /\ IsExplore(o)
    /\ aiRun' = [aiRun EXCEPT ![o].status = "running",
                              ![o].attempts = Append(@, "running")]
    /\ worker' = [worker EXCEPT ![w].pc = "working",
                                ![w].attempt = Len(aiRun[o].attempts) + 1]
    /\ UNCHANGED <<operation, job, payload, run, collector, resultOf>>

\* The run row becomes running, under the fence.
MarkRunning(w) ==
    LET o == worker[w].op IN
    /\ worker[w].pc = "ready"
    /\ ~IsExplore(o)
    /\ Owned(o, worker[w].token)
    /\ run' = [run EXCEPT ![o] = "running"]
    /\ worker' = [worker EXCEPT ![w].pc = "working"]
    /\ UNCHANGED <<operation, job, payload, aiRun, collector, resultOf>>

\* The progress callback: operation and AI run advance together.
Progress(w) ==
    LET o == worker[w].op IN
    /\ worker[w].pc = "working"
    /\ Owned(o, worker[w].token)
    /\ operation' = [operation EXCEPT ![o].status = "running"]
    /\ aiRun' = IF IsExplore(o) THEN [aiRun EXCEPT ![o].status = "running"]
                                ELSE aiRun
    /\ UNCHANGED <<job, payload, run, collector, worker, resultOf>>

\* Fault, for CommitResult: the job is not finished with its operation.
CommitWithoutJob(w, o, status) ==
    /\ Owned(o, worker[w].token)
    /\ operation' = [operation EXCEPT ![o].status = "succeeded"]
    /\ collector' = [collector EXCEPT ![payload[o].collector].activeOp = NoOp,
                                      ![payload[o].collector].status = status]
    /\ worker' = [worker EXCEPT ![w] = Idle]
    /\ resultOf' = [resultOf EXCEPT ![o] = worker[w].token]
    /\ UNCHANGED <<job, payload>>

\* What both commits share: the operation succeeds, the collector is free,
\* the job is done, and the worker forgets it.
CommitResult(w, o, status) ==
    /\ Owned(o, worker[w].token)
    /\ operation' = [operation EXCEPT ![o].status = "succeeded"]
    /\ job' = [job EXCEPT ![o].status = "completed", ![o].lease = "none"]
    /\ collector' = [collector EXCEPT ![payload[o].collector].activeOp = NoOp,
                                      ![payload[o].collector].status = status]
    /\ worker' = [worker EXCEPT ![w] = Idle]
    /\ resultOf' = [resultOf EXCEPT ![o] = worker[w].token]
    /\ UNCHANGED payload

\* The candidate, its preview and its AI run; this worker's attempt is closed,
\* an attempt a lost worker left behind is not.
CommitExplore(w) ==
    LET o == worker[w].op IN
    /\ worker[w].pc = "working"
    /\ IsExplore(o)
    /\ CommitResult(w, o, "ready_review")
    /\ aiRun' = ReadyForReview(
                  [aiRun EXCEPT ![o].attempts[worker[w].attempt] = "succeeded"], o)
    /\ UNCHANGED run

\* The run, its items, checkpoint and deliveries.  A run that met no quality
\* gate is stored as failed by an operation that succeeded.
CommitRun(w) ==
    LET o == worker[w].op IN
    /\ worker[w].pc = "working"
    /\ ~IsExplore(o)
    /\ CommitResult(w, o, collector[payload[o].collector].status)
    /\ \E s \in {"succeeded", "partially_succeeded", "failed"} :
         run' = [run EXCEPT ![o] = s]
    /\ UNCHANGED aiRun

\* An exception leaves _process_owned: an error at any step, a TimeoutError
\* from the exploration or from the run's duration budget.
Raise(w) ==
    /\ worker[w].pc \in {"claimed", "owned", "ready", "working"}
    /\ \E exc \in {"error", "timed_out"} :
         /\ exc = "timed_out" => worker[w].pc = "working"
         /\ worker' = [worker EXCEPT ![w].pc = "failing", ![w].exc = exc]
    /\ UNCHANGED <<operation, job, payload, aiRun, run, collector, resultOf>>

\* owned_transaction raises JobCancelled, in the heartbeat or in the task.
CancelSeen(w) ==
    /\ AtFence(w)
    /\ Fenced(worker[w].op, worker[w].token)
    /\ operation[worker[w].op].cancelRequested
    /\ worker' = [worker EXCEPT ![w].pc = "failing", ![w].exc = "cancelled"]
    /\ UNCHANGED <<operation, job, payload, aiRun, run, collector, resultOf>>

\* owned_transaction raises JobLeaseLost: the worker drops the job silently.
LeaseLost(w) ==
    /\ AtFence(w) \/ worker[w].pc = "failing"
    /\ ~Fenced(worker[w].op, worker[w].token)
    /\ worker' = [worker EXCEPT ![w] = Idle]
    /\ UNCHANGED <<operation, job, payload, aiRun, run, collector, resultOf>>

\* Worker.fail: a cancellation outranks the exception that was raised.
Fail(w) ==
    LET o == worker[w].op
        cancelled == operation[o].cancelRequested \/ worker[w].exc = "cancelled"
    IN  /\ worker[w].pc = "failing"
        /\ Fenced(o, worker[w].token)
        /\ FinishResources(o, IF cancelled THEN "cancelled"
                              ELSE IF worker[w].exc = "timed_out" THEN "timed_out"
                              ELSE "failed",
                           operation[o].cancelRequested)
        /\ worker' = [worker EXCEPT ![w] = Idle]

\* The process dies, or stop_event ends it; the lease is left to expire.
Abandon(w) ==
    /\ worker[w].pc # "idle"
    /\ worker' = [worker EXCEPT ![w] = Idle]
    /\ UNCHANGED <<operation, job, payload, aiRun, run, collector, resultOf>>

-----------------------------------------------------------------------------
Command == \/ \E o \in Op : \/ \E c \in Collector : \/ CreateExplore(o, c)
                                                    \/ CreateRun(o, c)
                            \/ RequestCancel(o)
           \/ \E c \in Collector : \/ Publish(c)
                                   \/ Archive(c)
                                   \/ Restore(c)

TakeJob(w) == Claim(w) \/ ClaimEnds(w)

\* The steps a worker that stays alive goes on taking.
Proceed(w) == \/ Begin(w)         \/ Prepare(w)
              \/ StartAttempt(w)  \/ MarkRunning(w)
              \/ CommitExplore(w) \/ CommitRun(w)
              \/ Raise(w)         \/ CancelSeen(w)
              \/ LeaseLost(w)     \/ Fail(w)

Next == \/ Command
        \/ \E w \in Worker : TakeJob(w) \/ Proceed(w) \/ Progress(w) \/ Abandon(w)
        \/ \E o \in Op : ExpireLease(o)

Spec == Init /\ [][Next]_vars

\* A live worker renews its lease; the lease of a worker that is gone runs out.
Held(o) == \E w \in Worker : /\ worker[w].pc # "idle"
                             /\ worker[w].op = o
                             /\ worker[w].token = job[o].attempts
LeaseRunsOut(o) == ~Held(o) /\ ExpireLease(o)

Fairness == /\ \A w \in Worker : WF_vars(Proceed(w))
            /\ WF_vars(\E w \in Worker : TakeJob(w))
            /\ \A o \in Op : WF_vars(LeaseRunsOut(o))

FairSpec == Spec /\ Fairness

-----------------------------------------------------------------------------
(* Properties *)

\* The workers that could still commit something for o.
Owners(o) == {w \in Worker : /\ worker[w].pc # "idle"
                             /\ worker[w].op = o
                             /\ Fenced(o, worker[w].token)}

\* A reclaimed job has one owner: of the workers that claimed it over time, at
\* most one passes owned_transaction (job_control.py:20-37).
SingleOwner == \A o \in Op : \A v, w \in Owners(o) : v = w

\* A result is committed once, and by the latest claim of the job: a worker
\* that was overtaken cannot write items, checkpoint or candidate.
FencedCommit ==
    [][\A o \in Op : resultOf'[o] # resultOf[o] =>
          /\ resultOf[o] = 0
          /\ resultOf'[o] = job[o].attempts]_vars

\* An accepted cancellation is what the operation ends with, whoever ends it:
\* the request, the worker or the next claim; nothing is committed after it.
CancelHonoured ==
    \A o \in Op :
        /\ Terminal(o) /\ operation[o].cancelRequested =>
              operation[o].status = "cancelled" /\ resultOf[o] = 0
        /\ operation[o].status = "cancelled" => operation[o].cancelRequested

\* Operation, job and run end in the same transaction, on every path that ends
\* them: cancellation, commit, failure and exhaustion.
JobFollowsOperation ==
    \A o \in Op :
        /\ Active(o) <=> job[o].status \in {"queued", "processing"}
        /\ operation[o].status = "succeeded" <=> job[o].status = "completed"
        /\ payload[o].kind = "run" =>
              /\ Active(o) <=> run[o] \in LiveStatus
              /\ job[o].status = "failed" => run[o] = operation[o].status

\* A collector's activeOperationId is its one operation under way, and the
\* collector is "exploring" exactly while that operation explores.
OneTask(c) ==
    LET a == collector[c].activeOp IN
    /\ \A o \in Of(c) : Active(o) => o = a
    /\ a # NoOp => a \in Of(c) /\ Active(a)
    /\ collector[c].status = "exploring" <=> a # NoOp /\ IsExplore(a)

OneTaskPerCollector == \A c \in Collector : OneTask(c)

\* What a command was accepted for holds until its operation ends: neither
\* archiving nor restoring slips in, so the worker's own check cannot fail.
JobContextStable ==
    \A o \in Op : Active(o) =>
        LET row == collector[payload[o].collector] IN
        ~row.archived /\ row.revision = payload[o].revision

\* There is one candidate under review exactly when the collector shows one,
\* or will show it again if the exploration under way ends without a result.
OneCandidateUnderReview ==
    \A c \in Collector :
        LET row == collector[c]
            reviewed == {o \in Of(c) : aiRun[o].review = "ready_review"}
            shows == \/ row.status = "ready_review"
                     \/ /\ row.status = "exploring"
                        /\ payload[row.activeOp].previousStatus = "ready_review"
        IN  Cardinality(reviewed) = (IF shows THEN 1 ELSE 0)

\* A job is claimed at most as often as its limit, across crashes and reclaims,
\* and an AI run has at most one attempt for each claim.
AttemptsBounded ==
    \A o \in Op : /\ job[o].attempts <= payload[o].limit
                  /\ Len(aiRun[o].attempts) <= job[o].attempts

\* What is final stays: no late worker, cancellation or claim changes an
\* operation, job or run that is over.
TerminalStable ==
    [][\A o \in Op : Terminal(o) =>
          /\ operation'[o] = operation[o]
          /\ job'[o] = job[o]
          /\ run'[o] = run[o]]_vars

\* The AI run ends as its operation does: "atomically keep the live Operation
\* and durable AiRun phase history aligned" (store.py:1771).
AiRunFollowsOperation ==
    \A o \in Op : IsExplore(o) /\ Terminal(o) =>
        aiRun[o].status = operation[o].status

\* The queue, leases and workers keep the promise made to the client.
Lifecycle == INSTANCE OperationLifecycle WITH
    state  <- [o \in Op |-> IF Active(o) THEN "active" ELSE operation[o].status],
    owner  <- [o \in Op |-> payload[o].collector],
    cancel <- [o \in Op |-> operation[o].cancelRequested]

KeepsPromise == Lifecycle!Spec
=============================================================================
