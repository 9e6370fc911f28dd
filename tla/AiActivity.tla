------------------------------ MODULE AiActivity ------------------------------
(***************************************************************************)
(* What is kept of one exploration for whoever looks at it later: the       *)
(* history of its phases, written into the operation and into the AI run,   *)
(* the attempts of the workers that had it, and the model calls they made.  *)
(* Phases and ends are written under the lease of the job (job_control.py); *)
(* the start of an attempt and the record of a model call ask for nothing,  *)
(* so workers that lost the job go on writing those.                        *)
(* Times, metrics and token counts are left out: a call counts as one.      *)
(***************************************************************************)
EXTENDS Naturals, Sequences

CONSTANTS Phase,       \* phases an exploration reports, none "queued" or "completed"
          MaxClaims,   \* claims of the job (maxJobAttempts, three in the code)
          MaxEntries,  \* bound on the entries of a history
          MaxCalls     \* bound on the model calls recorded

ActivityAssumption == "completed" \notin Phase /\ MaxClaims \in Nat /\ MaxCalls \in Nat

VARIABLES operation,    \* status, request to cancel, history of phases
          aiRun,        \* history of phases, number of attempts, number of calls billed
          attempts,     \* per AI attempt: its status
          invocations,  \* the model calls recorded, each with its attempt
          job,          \* status, claims, whether the latest holds its lease
          worker        \* per claim: where its worker is, its AI attempt

activityVars == <<operation, aiRun, attempts, invocations, job, worker>>

Claims == 1..MaxClaims
Ended  == {"succeeded", "failed", "cancelled", "timed_out"}

\* An entry also names the claim that wrote it, 0 for the API: the code does not keep it.
Entry == [phase : Phase \cup {"queued", "completed"},
          status : {"running", "succeeded", "failed"}, by : 0..MaxClaims]

TypeOK ==
    /\ operation \in [status : {"queued", "running"} \cup Ended, cancelRequested : BOOLEAN,
                      activity : Seq(Entry)]
    /\ aiRun \in [activity : Seq(Entry), attemptCount : 0..MaxClaims, calls : 0..MaxCalls]
    /\ attempts \in Seq({"running"} \cup Ended)
    /\ invocations \in Seq(1..MaxClaims)
    /\ job \in [status : {"queued", "processing", "completed", "failed"},
                claims : 0..MaxClaims, held : BOOLEAN]
    /\ worker \in [Claims -> [at : {"none", "claimed", "exploring", "calling", "gone"},
                              attempt : 0..MaxClaims]]

\* The command was accepted.
Init ==
    LET queued == <<[phase |-> "queued", status |-> "running", by |-> 0]>>
    IN  /\ operation = [status |-> "queued", cancelRequested |-> FALSE, activity |-> queued]
        /\ aiRun = [activity |-> queued, attemptCount |-> 0, calls |-> 0]
        /\ attempts = <<>>
        /\ invocations = <<>>
        /\ job = [status |-> "queued", claims |-> 0, held |-> FALSE]
        /\ worker = [n \in Claims |-> [at |-> "none", attempt |-> 0]]

-----------------------------------------------------------------------------
(* The history of phases *)

Last(s) == s[Len(s)]

\* The history with its open phase closed.
Closed(s, status) ==
    IF Last(s).status = "running" THEN [s EXCEPT ![Len(s)].status = status] ELSE s

\* A phase begins: one that is under way already goes on.
Advanced(s, phase, n) ==
    IF Last(s).phase = phase /\ Last(s).status = "running"
    THEN s
    ELSE Append(Closed(s, "succeeded"), [phase |-> phase, status |-> "running", by |-> n])

\* The exploration ends: only a failure marks the phase it happened in, and only
\* success adds the phase "completed".
Finished(s, status, n) ==
    LET closed == Closed(s, IF status = "failed" THEN "failed" ELSE "succeeded")
    IN  IF status = "succeeded" /\ Last(s).phase # "completed"
        THEN Append(closed, [phase |-> "completed", status |-> "succeeded", by |-> n])
        ELSE closed

\* Fault in UpdateActivity: the end is told to the operation alone.
UpdateOperationOnly(status, history, historyOfRun) ==
    /\ operation' = [operation EXCEPT !.status = status, !.activity = history]
    /\ aiRun' = IF status \in Ended THEN aiRun ELSE [aiRun EXCEPT !.activity = historyOfRun]

\* Operation and AI run take the same step, each in its own history.
UpdateActivity(status, history, historyOfRun) ==
    /\ operation' = [operation EXCEPT !.status = status, !.activity = history]
    /\ aiRun' = [aiRun EXCEPT !.activity = historyOfRun]

\* Both histories end, at the hands of claim n.
End(status, n) == UpdateActivity(status, Finished(operation.activity, status, n),
                                 Finished(aiRun.activity, status, n))

\* Every attempt still running ends as the operation does.
AttemptsEnded(status) ==
    [i \in DOMAIN attempts |-> IF attempts[i] = "running" THEN status ELSE attempts[i]]

\* The operation, its attempts and its job end.
FinishResources(status) ==
    /\ End(status, job.claims)
    /\ attempts' = AttemptsEnded(status)
    /\ job' = [job EXCEPT !.status = "failed", !.held = FALSE]

-----------------------------------------------------------------------------
(* The workers *)

\* Fault in Owned: that some worker holds the job is taken for holding it.
HeldBySomeone(n) == job.status = "processing" /\ job.held

\* The attempt number and the lease, asked for inside the transaction.
Owned(n) == job.status = "processing" /\ job.claims = n /\ job.held

Move(n, from, to) ==
    /\ worker[n].at = from
    /\ worker' = [worker EXCEPT ![n].at = to]

\* The job is claimed, for the first time or after its lease ran out.
Claim ==
    /\ job.status = "queued" \/ (job.status = "processing" /\ ~job.held)
    /\ \/ /\ operation.cancelRequested
          /\ FinishResources("cancelled")
          /\ UNCHANGED <<worker, invocations>>
       \/ /\ ~operation.cancelRequested
          /\ job.claims = MaxClaims
          /\ FinishResources("failed")
          /\ UNCHANGED <<worker, invocations>>
       \/ /\ ~operation.cancelRequested
          /\ job.claims < MaxClaims
          /\ job' = [status |-> "processing", claims |-> job.claims + 1, held |-> TRUE]
          /\ Move(job.claims + 1, "none", "claimed")
          /\ UNCHANGED <<operation, aiRun, attempts, invocations>>

\* An attempt is counted and begun, whoever has the job by now.
StartAttempt(n) ==
    /\ worker[n].at = "claimed"
    /\ worker' = [worker EXCEPT ![n] = [at |-> "exploring", attempt |-> Len(attempts) + 1]]
    /\ attempts' = Append(attempts, "running")
    /\ aiRun' = [aiRun EXCEPT !.attemptCount = Len(attempts) + 1]
    /\ UNCHANGED <<operation, invocations, job>>

\* The exploration reports a phase.
Report(n, phase) ==
    /\ worker[n].at = "exploring"
    /\ Owned(n) /\ ~operation.cancelRequested
    /\ Len(Advanced(operation.activity, phase, n)) <= MaxEntries
    /\ UpdateActivity("running", Advanced(operation.activity, phase, n),
                      Advanced(aiRun.activity, phase, n))
    /\ UNCHANGED <<attempts, invocations, job, worker>>

CallModel(n) ==
    /\ Len(invocations) < MaxCalls
    /\ Move(n, "exploring", "calling")
    /\ UNCHANGED <<operation, aiRun, attempts, invocations, job>>

\* Fault in Billed: the total is counted from the calls of the attempt alone.
BilledOfAttempt(a) == Len(SelectSeq(invocations, LAMBDA b : b = a)) + 1

\* The number of calls billed once a call of attempt a is recorded.
Billed(a) == aiRun.calls + 1

\* A model call is over - answered, failed or broken off - and is recorded.
RecordInvocation(n) ==
    /\ Len(invocations) < MaxCalls
    /\ Move(n, "calling", "exploring")
    /\ invocations' = Append(invocations, worker[n].attempt)
    /\ aiRun' = [aiRun EXCEPT !.calls = Billed(worker[n].attempt)]
    /\ UNCHANGED <<operation, attempts, job>>

\* The candidate is committed.
Succeed(n) ==
    /\ Owned(n) /\ ~operation.cancelRequested
    /\ Move(n, "exploring", "gone")
    /\ End("succeeded", n)
    /\ attempts' = [attempts EXCEPT ![worker[n].attempt] = "succeeded"]
    /\ job' = [job EXCEPT !.status = "completed", !.held = FALSE]
    /\ UNCHANGED invocations

\* An exception ends the exploration, before its attempt began or after.
Fail(n) ==
    /\ Owned(n)
    /\ Move(n, "claimed", "gone") \/ Move(n, "exploring", "gone")
    /\ \E status \in {"failed", "timed_out"} :
           FinishResources(IF operation.cancelRequested THEN "cancelled" ELSE status)
    /\ UNCHANGED invocations

\* The worker stops, dies or finds its lease lost: it writes nothing more.
Leave(n) ==
    /\ worker[n].at \in {"claimed", "exploring", "calling"}
    /\ worker' = [worker EXCEPT ![n].at = "gone"]
    /\ UNCHANGED <<operation, aiRun, attempts, invocations, job>>

LeaseRunsOut ==
    /\ job.held
    /\ job' = [job EXCEPT !.held = FALSE]
    /\ UNCHANGED <<operation, aiRun, attempts, invocations, worker>>

\* A request to cancel ends what no worker holds, and is a mark for one that does.
RequestCancel ==
    /\ operation.status \notin Ended /\ ~operation.cancelRequested
    /\ \/ /\ job.held
          /\ operation' = [operation EXCEPT !.cancelRequested = TRUE]
          /\ UNCHANGED <<aiRun, attempts, job>>
       \/ /\ ~job.held
          /\ operation' = [status |-> "cancelled", cancelRequested |-> TRUE,
                           activity |-> Finished(operation.activity, "cancelled", job.claims)]
          /\ aiRun' = [aiRun EXCEPT !.activity = Finished(@, "cancelled", job.claims)]
          /\ attempts' = AttemptsEnded("cancelled")
          /\ job' = [job EXCEPT !.status = "failed"]
    /\ UNCHANGED <<invocations, worker>>

Next == \/ Claim \/ LeaseRunsOut \/ RequestCancel
        \/ \E n \in Claims :
              \/ StartAttempt(n) \/ CallModel(n) \/ RecordInvocation(n)
              \/ Succeed(n) \/ Fail(n) \/ Leave(n)
              \/ \E phase \in Phase : Report(n, phase)

Spec == Init /\ [][Next]_activityVars

-----------------------------------------------------------------------------
(* Properties *)

\* Operation and AI run tell one history (store.py:1759 update_ai_activity,
\* docs/contracts/api-contract.md:89): its phases follow one another, the last is
\* open just as long as the operation is, and it was written by claims in their order,
\* never by a worker whose job another one had taken.
OneHistory ==
    LET history == operation.activity
    IN  /\ aiRun.activity = history
        /\ \A i \in DOMAIN history :
              (history[i].status = "running") <=> (i = Len(history) /\ operation.status \notin Ended)
        /\ \A i, j \in DOMAIN history : i < j => history[i].by <= history[j].by

\* A failure is told by the phase it happened in, success by "completed", and no
\* attempt of an exploration that was not committed succeeded (store.py:97,
\* worker.py:272).
EndTold ==
    /\ operation.status = "failed" <=>
          \E i \in DOMAIN operation.activity : operation.activity[i].status = "failed"
    /\ operation.status = "succeeded" <=>
          \E i \in DOMAIN operation.activity : operation.activity[i].phase = "completed"
    /\ \A i \in DOMAIN attempts :
          attempts[i] \in Ended => operation.status = attempts[i]
    /\ operation.status = "succeeded" <=> \E i \in DOMAIN attempts : attempts[i] = "succeeded"

\* Every recorded call is billed once, also the calls of workers that lost the job or
\* outlived the operation, and belongs to an attempt the AI run counts
\* (store.py:1720 record_model_invocation).
BillKept ==
    /\ aiRun.calls = Len(invocations)
    /\ aiRun.attemptCount = Len(attempts)
    /\ \A i \in DOMAIN invocations : invocations[i] \in DOMAIN attempts

\* What is told of an exploration is one history, its end and its bill.
ActivityTruthful == OneHistory /\ EndTold /\ BillKept
=============================================================================
