--------------------------- MODULE BoundedRecovery ---------------------------
(***************************************************************************)
(* Recovery batches.  When a source has asked to slow down, an engineer may *)
(* authorise a batch: a few further runs, after cool-downs that grow, until *)
(* one of them has verifiably gone on from where the failed run stopped,    *)
(* within a budget of requests and a deadline.  While a batch is active, and *)
(* as long as the source asked to wait, no other work may touch its hosts.  *)
(*                                                                          *)
(* The dispatcher, the workers and the engineers act on the same rows.  What *)
(* a run reads is Coverage, who may commit it is JobControl; here a run ends *)
(* in one of the ways a batch tells apart.  Explorations are source work    *)
(* like ordinary runs.  All collectors of the model share a host: the guard *)
(* does not compare the others.                                             *)
(***************************************************************************)
EXTENDS Integers, Sequences, SequencesExt, FiniteSets, FiniteSetsExt

CONSTANTS Collector,
          Started,        \* those with a traversal under way at the start
          MaxOrdinary,    \* bound: runs that are not of a batch
          MaxChanges,     \* bound: changes by engineers, workers lost
          MaxTime,        \* bound: the clock
          Delays,         \* DELAYS, growing cool-downs
          Waits,          \* waits the source may ask for, 0: none
          Lifetime,       \* expiresAt - createdAt
          MaxAttempts,    \* maxAttempts: runs of a batch
          JobAttempts,    \* maxJobAttempts of ordinary runs
          RequestLimit,   \* REQUEST_LIMIT: requests of a run of a batch
          None

RecoveryAssumption ==
    /\ MaxOrdinary \in Nat \ {0} /\ MaxAttempts \in Nat \ {0}
    /\ MaxChanges \in Nat /\ MaxTime \in Nat
    /\ Delays \in Seq(Nat) \ {<<>>}
    /\ Started \subseteq Collector
    /\ 0 \in Waits /\ Waits \subseteq Nat /\ Lifetime \in Nat /\ RequestLimit \in Nat
    /\ None \notin Nat

VARIABLES now,      \* the clock
          rows,     \* collector rows with their checkpoints
          runs,     \* runs with their operations and jobs, in order of creation
          batches,  \* recovery batches, by the run they were created for
          sent,     \* requests sent for a batch at most: history
          changes   \* changes so far

vars == <<now, rows, runs, batches, sent, changes>>

-----------------------------------------------------------------------------
MaxRuns  == MaxOrdinary * (MaxAttempts + 1)
RunId    == 1..MaxRuns
Context  == 1..(MaxChanges + 1)

\* coverageProgress: the context it is of and a version.
Progress == [context : Context, version : 1..(MaxRuns + 1)]

Row == [context    : Context,        \* rule, policy, requirement, lifecycle
        ready      : BOOLEAN,        \* published, active, its rule verifiable
        scheduled  : BOOLEAN,
        progress   : Progress \cup {None},
        checkpoint : 0..MaxRuns,
        latest     : RunId \cup {None}]

Run == [collector : Collector,
        batch     : RunId \cup {None},
        context   : Context,
        status    : {"queued", "running", "succeeded", "failed", "cancelled"},
        cancel    : BOOLEAN,          \* cancelRequested of its operation
        owned     : BOOLEAN,          \* a worker is at it
        claims    : Nat,              \* attempts of its job
        stop      : {"not_applicable", "source_rate_limited", "max_pages",
                     "checkpoint_reached", "detail_fetch_incomplete"},
        before    : Progress \cup {None},
        after     : Progress \cup {None},
        checkpoint : 0..MaxRuns,      \* checkpointBefore
        advanced  : 0..MaxRuns,       \* checkpointAfter, 0: none
        ended     : Nat,
        wait      : Waits]            \* retryAfterSeconds

Reason == {"source_rate_limited", "continuation_running", "cancel_requested",
           "deadline_reached", "context_changed", "progress_changed",
           "attempt_limit", "server_wait_exceeds_deadline",
           "continuation_verified", "run_not_recoverable", "dispatch_rejected"}

Batch == [collector  : Collector,
          status     : {"cooling_down", "running", "cancelling",
                        "recovered", "cancelled", "needs_attention"},
          reason     : Reason,
          expires    : Nat,
          next       : Nat \cup {None},      \* nextAttemptAt
          notBefore  : Nat \cup {None},      \* sourceNotBefore, hold_until
          attempts   : Seq(RunId),
          active     : RunId \cup {None},     \* activeRunId
          reserved   : Nat,
          cancel     : BOOLEAN,
          context    : Context,
          progress   : Progress,
          checkpoint : 0..MaxRuns]

Active == {"cooling_down", "running", "cancelling"}
Live   == {"queued", "running"}

\* The types; and a batch waits for a moment just while it cools down, and for a
\* run just while it is running or cancelling.
TypeOK ==
    /\ now \in 0..MaxTime
    /\ rows \in [Collector -> Row]
    /\ runs \in Seq(Run) /\ Len(runs) <= MaxRuns
    /\ DOMAIN batches \subseteq DOMAIN runs
    /\ \A b \in DOMAIN batches :
         /\ batches[b] \in Batch
         /\ batches[b].next # None <=> batches[b].status = "cooling_down"
         /\ batches[b].active # None <=> batches[b].status \in {"running", "cancelling"}
    /\ sent \in [RunId -> Nat]
    /\ changes \in 0..MaxChanges

LiveRuns == {r \in DOMAIN runs : runs[r].status \in Live}

-----------------------------------------------------------------------------
(* Faults: definitions below as a plausible mistake would have written them. *)

\* ClaimLimit: a run of a batch is claimed again as any other.
ClaimLimitOfAny(run) == JobAttempts

\* Reserved: a batch that is being cancelled lets other work begin.
ReservedUnlessCancelling(owner) ==
    \E b \in DOMAIN batches \ {owner} :
        \/ batches[b].status \in {"cooling_down", "running"}
        \/ batches[b].notBefore # None /\ batches[b].notBefore > now

\* Cool: only what the batch itself waits for is kept.
CoolOwnDelay(batch, run) ==
    LET n   == Len(batch.attempts)
        due == run.ended + Delays[Min({n + 1, Len(Delays)})]
    IN  IF n >= MaxAttempts \/ due >= batch.expires
        THEN [batch EXCEPT !.status = "needs_attention", !.reason = "attempt_limit",
                           !.next = None, !.notBefore = due]
        ELSE [batch EXCEPT !.status = "cooling_down", !.reason = "source_rate_limited",
                           !.next = due, !.notBefore = due]

\* Cancelled: leaves the end of the batch to the dispatcher in every case.
CancelledLater(batch) ==
    [batch EXCEPT !.cancel = TRUE, !.status = "cancelling",
                  !.reason = "cancel_requested", !.next = None]

\* Stopped: the moment of the next attempt stays where it was.
StoppedAsItWas(batch, status, reason) ==
    [batch EXCEPT !.status = status, !.reason = reason]

-----------------------------------------------------------------------------
Init ==
    /\ now     = 0
    /\ rows    = [c \in Collector |->
                    [context |-> 1, ready |-> TRUE, scheduled |-> FALSE,
                     progress |-> IF c \in Started THEN [context |-> 1, version |-> 1]
                                                     ELSE None,
                     checkpoint |-> 0, latest |-> None]]
    /\ runs    = <<>>
    /\ batches = [b \in {} |-> None]
    /\ sent    = [b \in RunId |-> 0]
    /\ changes = 0

Tock ==
    /\ now < MaxTime
    /\ now' = now + 1
    /\ UNCHANGED <<rows, runs, batches, sent, changes>>

-----------------------------------------------------------------------------
(* Engineers *)

\* A new policy deletes the progress, a new rule or requirement does not.  Rule
\* and requirement change only while the collector has no run.
ChangeContext(c) ==
    /\ changes < MaxChanges
    /\ changes' = changes + 1
    /\ \E policy \in BOOLEAN :
         /\ policy \/ \A r \in LiveRuns : runs[r].collector # c
         /\ rows' = [rows EXCEPT ![c].context = @ + 1,
                       ![c].progress = IF policy THEN None ELSE @,
                       ![c].checkpoint = IF policy THEN 0 ELSE @]
    /\ UNCHANGED <<now, runs, batches, sent>>

\* The key of the rule's signature is retired: no run of it can be created.
RetireKey(c) ==
    /\ changes < MaxChanges
    /\ changes' = changes + 1
    /\ rows' = [rows EXCEPT ![c].ready = FALSE]
    /\ UNCHANGED <<now, runs, batches, sent>>

SwitchSchedule(c) ==
    /\ changes < MaxChanges
    /\ changes' = changes + 1
    /\ rows' = [rows EXCEPT ![c].scheduled = ~@]
    /\ UNCHANGED <<now, runs, batches, sent>>

\* guard_source_work: a batch of someone else is active, or its hosts must wait.
Reserved(owner) ==
    \E b \in DOMAIN batches \ {owner} :
        \/ batches[b].status \in Active
        \/ batches[b].notBefore # None /\ batches[b].notBefore > now

CanCreateRun(c, owner) ==
    /\ rows[c].ready
    /\ \A r \in LiveRuns : runs[r].collector # c
    /\ ~Reserved(owner)

ValidProgress(row) ==
    IF row.progress # None /\ row.progress.context = row.context
    THEN row.progress ELSE None

NewRun(c, owner) ==
    [collector |-> c, batch |-> owner, context |-> rows[c].context,
     status |-> "queued", cancel |-> FALSE, owned |-> FALSE, claims |-> 0,
     stop |-> "not_applicable", before |-> ValidProgress(rows[c]), after |-> None,
     checkpoint |-> rows[c].checkpoint, advanced |-> 0, ended |-> 0, wait |-> 0]

\* By hand or by a schedule.
CreateRun(c) ==
    /\ Cardinality({r \in DOMAIN runs : runs[r].batch = None}) < MaxOrdinary
    /\ CanCreateRun(c, None)
    /\ runs' = Append(runs, NewRun(c, None))
    /\ UNCHANGED <<now, rows, batches, sent, changes>>

\* cool: how long to wait after a run that was told to, or that it is too long.
Cool(batch, run) ==
    LET n       == Len(batch.attempts)
        due     == run.ended + Max({Delays[Min({n + 1, Len(Delays)})], run.wait})
        waiting == [batch EXCEPT !.notBefore = due]
        Stop(reason) == [waiting EXCEPT !.status = "needs_attention",
                                        !.reason = reason, !.next = None]
    IN  IF n >= MaxAttempts THEN Stop("attempt_limit")
        ELSE IF due >= batch.expires THEN Stop("server_wait_exceeds_deadline")
        ELSE [waiting EXCEPT !.status = "cooling_down",
                             !.reason = "source_rate_limited", !.next = due]

NewBatch(r) ==
    LET c == runs[r].collector
    IN  Cool([collector |-> c, status |-> "cooling_down",
              reason |-> "source_rate_limited", expires |-> now + Lifetime,
              next |-> None, notBefore |-> None, attempts |-> <<>>, active |-> None,
              reserved |-> 0, cancel |-> FALSE, context |-> rows[c].context,
              progress |-> rows[c].progress, checkpoint |-> rows[c].checkpoint],
             runs[r])

\* start: the latest run was told to wait and left everything as it was.  A run
\* of a batch is no seed.
StartBatch(r) ==
    LET run == runs[r]
        row == rows[run.collector]
    IN  /\ now + Lifetime <= MaxTime
        /\ r \notin DOMAIN batches /\ run.batch = None
        /\ row.latest = r /\ row.ready /\ ~row.scheduled
        /\ run.status = "failed" /\ run.stop = "source_rate_limited"
        /\ run.context = row.context
        /\ row.progress # None
        /\ run.before = row.progress /\ run.after = row.progress
        /\ ~Reserved(None) /\ LiveRuns = {}
        /\ batches' = [b \in DOMAIN batches \cup {r} |->
                         IF b = r THEN NewBatch(r) ELSE batches[b]]
        /\ UNCHANGED <<now, rows, runs, sent, changes>>

\* What request_stop makes of a batch: at once, or when its run has ended.
Cancelled(batch) ==
    IF batch.active = None
    THEN [batch EXCEPT !.cancel = TRUE, !.status = "cancelled",
                       !.reason = "cancel_requested", !.next = None]
    ELSE [batch EXCEPT !.cancel = TRUE, !.status = "cancelling",
                       !.reason = "cancel_requested", !.next = None]

\* The operation of a batch's run is asked to cancel, if it is not over.
CancelOf(batch) ==
    [r \in DOMAIN runs |->
       IF r = batch.active /\ r \in LiveRuns THEN [runs[r] EXCEPT !.cancel = TRUE]
                                             ELSE runs[r]]

RequestStop(b) ==
    /\ batches[b].status \in Active
    /\ changes < MaxChanges
    /\ changes' = changes + 1
    /\ batches' = [batches EXCEPT ![b] = Cancelled(@)]
    /\ runs' = CancelOf(batches[b])
    /\ UNCHANGED <<now, rows, sent>>

-----------------------------------------------------------------------------
(* The dispatcher: tick, for one active batch *)

Stopped(batch, status, reason) ==
    [batch EXCEPT !.status = status, !.reason = reason, !.next = None]

Drifted(batch) ==
    \/ rows[batch.collector].context # batch.context
    \/ rows[batch.collector].scheduled

Moved(batch) ==
    \/ rows[batch.collector].progress # batch.progress
    \/ rows[batch.collector].checkpoint # batch.checkpoint

\* continuation_verified: the run has read on, and what it left is still there.
Continued(batch, run) ==
    LET row == rows[batch.collector] IN
    /\ run.status = "succeeded"
    /\ IF run.advanced # 0
       THEN row.checkpoint = run.advanced /\ row.progress = None
       ELSE /\ run.after # None /\ run.after # batch.progress
            /\ run.after = row.progress

\* The run of the batch has ended.
Judged(batch, run) ==
    LET over == [batch EXCEPT !.active = None] IN
    IF batch.status = "cancelling"
    THEN Stopped(over, IF batch.cancel THEN "cancelled" ELSE "needs_attention",
                 batch.reason)
    ELSE IF \/ Drifted(batch)
            \/ run.before # batch.progress
            \/ run.checkpoint # batch.checkpoint
            \/ run.context # batch.context
    THEN Stopped(over, "needs_attention", "context_changed")
    ELSE IF run.stop = "source_rate_limited"
    THEN IF run.after # batch.progress \/ rows[batch.collector].progress # batch.progress
         THEN Stopped(over, "needs_attention", "progress_changed")
         ELSE Cool(over, run)
    ELSE IF Continued(batch, run)
    THEN Stopped([over EXCEPT !.notBefore = None], "recovered", "continuation_verified")
    ELSE Stopped(over, "needs_attention", "run_not_recoverable")

\* The run is still going: past the deadline, or when asked to, it is cancelled.
TickRunning(b) ==
    LET batch == batches[b] IN
    /\ batch.active \in LiveRuns
    /\ now >= batch.expires \/ batch.cancel
    /\ batch.status # "cancelling" \/ ~runs[batch.active].cancel
    /\ runs' = CancelOf(batch)
    /\ batches' = [batches EXCEPT ![b].status = "cancelling",
                     ![b].reason = IF batch.cancel THEN "cancel_requested"
                                                   ELSE "deadline_reached"]
    /\ UNCHANGED <<now, rows, sent, changes>>

Spent(batch) == Len(batch.attempts) >= MaxAttempts

\* Why a cooling batch ends here, or "none".
EndOfCooling(b, batch) ==
    IF now >= batch.expires THEN "deadline_reached"
    ELSE IF Drifted(batch)  THEN "context_changed"
    ELSE IF Moved(batch)    THEN "progress_changed"
    ELSE IF now < batch.next THEN "none"
    ELSE IF Spent(batch)    THEN "attempt_limit"
    ELSE IF ~CanCreateRun(batch.collector, b) THEN "dispatch_rejected"
    ELSE "none"

\* One transaction: what became of the last run and, when it is time, the next.
TickCooling(b) ==
    /\ batches[b].status \in Active
    /\ batches[b].active \notin LiveRuns
    /\ \E batch \in {IF batches[b].active = None THEN batches[b]
                     ELSE Judged(batches[b], runs[batches[b].active])} :
       \E end \in {IF batch.status = "cooling_down" THEN EndOfCooling(b, batch)
                                                    ELSE "none"} :
         IF batch.status = "cooling_down" /\ end = "none" /\ now >= batch.next
         THEN /\ runs' = Append(runs, NewRun(batch.collector, b))
              /\ batches' = [batches EXCEPT ![b] =
                   [batch EXCEPT !.status = "running", !.active = Len(runs) + 1,
                                 !.attempts = Append(@, Len(runs) + 1),
                                 !.reserved = @ + RequestLimit, !.next = None,
                                 !.reason = "continuation_running"]]
         ELSE /\ batches' = [batches EXCEPT ![b] =
                   IF end = "none" THEN batch
                   ELSE Stopped(batch, "needs_attention", end)]
              /\ batches' # batches
              /\ runs' = runs
    /\ UNCHANGED <<now, rows, sent, changes>>

-----------------------------------------------------------------------------
(* Workers *)

\* A run of a batch is never carried out again by another worker.
ClaimLimit(run) == IF run.batch = None THEN JobAttempts ELSE 1

\* validate_attempt: the batch still wants this run, now, and as it was planned.
Valid(r) ==
    runs[r].batch # None =>
        LET batch == batches[runs[r].batch] IN
        /\ batch.status = "running" /\ batch.active = r /\ ~batch.cancel
        /\ now < batch.expires
        /\ batch.notBefore # None => now >= batch.notBefore
        /\ ~Drifted(batch) /\ ~Moved(batch)

\* claim_job, and the checks before the first request: the run begins or ends.
\* A run that is left behind is claimed again when its lease has run out.
ClaimRun(r) ==
    LET run == runs[r] IN
    /\ r \in LiveRuns
    /\ ~run.owned
    /\ IF run.cancel
       THEN runs' = [runs EXCEPT ![r].status = "cancelled"] /\ sent' = sent
       ELSE IF run.claims >= ClaimLimit(run) \/ ~Valid(r) \/ ~rows[run.collector].ready
       THEN runs' = [runs EXCEPT ![r].status = "failed"] /\ sent' = sent
       ELSE /\ runs' = [runs EXCEPT ![r].status = "running", ![r].owned = TRUE,
                                    ![r].claims = @ + 1]
            /\ sent' = IF run.batch = None THEN sent
                       ELSE [sent EXCEPT ![run.batch] = @ + RequestLimit]
    /\ UNCHANGED <<now, rows, batches, changes>>

LoseWorker(r) ==
    /\ r \in LiveRuns /\ runs[r].owned
    /\ changes < MaxChanges
    /\ changes' = changes + 1
    /\ runs' = [runs EXCEPT ![r].owned = FALSE]
    /\ UNCHANGED <<now, rows, batches, sent>>

\* A result that may not be committed: the operation was cancelled, or rule or
\* policy are no longer those of the run.
AbortRun(r) ==
    /\ r \in LiveRuns /\ runs[r].owned
    /\ runs[r].cancel \/ rows[runs[r].collector].context # runs[r].context
    /\ runs' = [runs EXCEPT ![r].owned = FALSE,
                  ![r].status = IF runs[r].cancel THEN "cancelled" ELSE "failed"]
    /\ UNCHANGED <<now, rows, batches, sent, changes>>

\* How a run ends, with the progress and the checkpoint it leaves.
Ends(r) ==
    LET run == [runs[r] EXCEPT !.owned = FALSE, !.ended = now]
    IN  {[run EXCEPT !.status = "failed", !.stop = "source_rate_limited",
                     !.after = run.before, !.wait = w] : w \in Waits}
        \cup {[run EXCEPT !.status = "succeeded", !.stop = "max_pages",
                          !.after = [context |-> run.context, version |-> r + 1]],
              [run EXCEPT !.status = "succeeded", !.stop = "checkpoint_reached",
                          !.advanced = r],
              [run EXCEPT !.status = "failed", !.stop = "detail_fetch_incomplete"]}

\* One transaction: run, progress and checkpoint.
EndRun(r) ==
    /\ r \in LiveRuns /\ runs[r].owned
    /\ ~runs[r].cancel
    /\ rows[runs[r].collector].context = runs[r].context
    /\ \E run \in Ends(r) :
         /\ runs' = [runs EXCEPT ![r] = run]
         /\ rows' = [rows EXCEPT ![run.collector].latest = r,
                       ![run.collector].progress = run.after,
                       ![run.collector].checkpoint =
                           IF run.advanced = 0 THEN @ ELSE run.advanced]
    /\ UNCHANGED <<now, batches, sent, changes>>

-----------------------------------------------------------------------------
Tick(b) == TickRunning(b) \/ TickCooling(b)

Work(r) == ClaimRun(r) \/ AbortRun(r) \/ EndRun(r)

Next ==
    \/ Tock
    \/ \E c \in Collector :
         ChangeContext(c) \/ RetireKey(c) \/ SwitchSchedule(c) \/ CreateRun(c)
    \/ \E r \in DOMAIN runs : StartBatch(r) \/ Work(r) \/ LoseWorker(r)
    \/ \E b \in DOMAIN batches : RequestStop(b) \/ Tick(b)

Spec == Init /\ [][Next]_vars

\* The clock, the loop of the control plane, and workers that serve the queue.
Fairness ==
    /\ WF_vars(Tock)
    /\ WF_vars(\E b \in DOMAIN batches : Tick(b))
    /\ WF_vars(\E r \in DOMAIN runs : Work(r))

FairSpec == Spec /\ Fairness

-----------------------------------------------------------------------------
(* Properties *)

\* The requests a batch has sent were reserved before, and its budget is never
\* exceeded: not over retries, workers that are lost and runs claimed again.
BudgetHonoured ==
    \A b \in DOMAIN batches :
        /\ sent[b] <= batches[b].reserved
        /\ batches[b].reserved <= MaxAttempts * RequestLimit

\* While a batch is active its run is the only work on its hosts, until that run
\* has ended, through cancellation and deadline.
HostReserved ==
    \A b \in DOMAIN batches :
        batches[b].status \in Active =>
            \A r \in LiveRuns : runs[r].batch = b /\ r = batches[b].active

\* A batch that was cancelled or whose context was lost takes no further notice
\* of its run.
Abandoned(batch) ==
    batch.status = "cancelling" \/ batch.reason \in
        {"cancel_requested", "context_changed"}

\* No run begins before the wait is over that the source asked of a run of a
\* batch, or of the run it was created for; whoever starts it and whatever
\* became of the batch.
WaitHonoured ==
    [][\A r \in DOMAIN runs :
         (~runs[r].owned /\ runs'[r].owned) =>
            \A b \in DOMAIN batches : Abandoned(batches[b]) \/
                \A q \in {b} \cup ToSet(batches[b].attempts) :
                    runs[q].stop = "source_rate_limited" =>
                        now >= runs[q].ended + runs[q].wait]_vars

\* Every batch comes to an end, by its deadline and the end of its last run.
\* One at a time is active on a host, so that it ends when none is active.
RecoveryEnds == []<>(\A b \in DOMAIN batches : batches[b].status \notin Active)
=============================================================================
