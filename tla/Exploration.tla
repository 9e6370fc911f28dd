----------------------------- MODULE Exploration -----------------------------
(***************************************************************************)
(* One AI run (worker.py, explorer.py, adaptive_compile.py): the model is   *)
(* asked for a list stage until it proves itself on the page, then for a    *)
(* rule until its samples are without an issue, or, in a repair, for the    *)
(* rule alone.  The budget of calls and two counters of no progress end the *)
(* loops.  A worker that is lost leaves the budget to the next claim in the *)
(* evidence of the run.  What the model answers is any answer.              *)
(***************************************************************************)
EXTENDS Integers, FiniteSets

CONSTANTS MaxCalls,     \* TaskBudget.max_calls
          MaxClaims,    \* maxJobAttempts
          Fixed,        \* what later answers may not change: list stages (their
                        \* pagination aside), contracts
          OldContract,  \* that of the rule a repair starts from
          Reading       \* parts of the pages that can be read

ExplorationAssumption == MaxCalls \in Nat /\ MaxClaims \in Nat /\ OldContract \in Fixed

VARIABLES kind,      \* of the run
          job,       \* jobs row with its operation
          evidence,  \* ai_runs.evidence: the calls booked
          session,   \* AdaptiveSession of each claim's worker, while there is one
          candidate, \* collector row: the rule to be reviewed
          asked,     \* history: model calls that were made, by purpose
          late,      \* history: those each claim made when it was no longer its own
          proved     \* history: what each claim had to keep, once it is known

explorationVars == <<kind, job, evidence, session, candidate, asked, late, proved>>

-----------------------------------------------------------------------------
Kinds == {"explore", "repair", "repair_without_contract"}
Claim == 1..MaxClaims
Ended == {"succeeded", "failed", "cancelled"}

\* Issues: one the samples of a plan show, or the response itself is rejected.
\* What a plan with issues would have fixed does not matter.
Issues == SUBSET {"sample", "rejected"}
NotProven == "not proven"
Plan == [fixed : Fixed, issues : {{}}] \cup [fixed : {NotProven}, issues : {{"sample"}}]
Signature == [purpose : {"discover", "compile"}, plan : Plan] \cup Reading

NoSession == [pc |-> "none"]
NoCandidate == [by |-> 0]
NoPlan == [fixed |-> "none"]

Session == [pc : {"claimed", "asking", "booked", "calling", "judging", "committing", "failing"},
            purpose : {"discover", "compile"}, calls : 0..MaxCalls,
            stalled : 0..3, seen : SUBSET Signature,
            previous : Issues, readOn : BOOLEAN, validationStalled : 0..3,
            proven : Fixed \cup {NotProven}, plan : Plan \cup {NoPlan}]

TypeOK ==
    /\ kind \in Kinds
    /\ job \in [status : {"queued", "processing"} \cup Ended, claims : 0..MaxClaims,
                leased : BOOLEAN, cancelRequested : BOOLEAN]
    /\ evidence \in 0..MaxCalls
    /\ \A n \in Claim : session[n] \in Session \cup {NoSession}
    /\ candidate \in [fixed : Fixed, issues : Issues, by : Claim] \cup {NoCandidate}
    /\ asked \in [{"discover", "compile"} -> 0..MaxCalls]
    /\ late \in [Claim -> Nat]
    /\ proved \in [Claim -> Fixed \cup {NotProven}]

pc(n) == session[n].pc
Repair == kind # "explore"

\* The calls discovery leaves to the compilation.
Reserve == IF MaxCalls \div 2 < 4 THEN MaxCalls \div 2 ELSE 4

-----------------------------------------------------------------------------
(* Faults: definitions below as a plausible mistake would have written them. *)

\* Fault in Prior: a new claim starts with a budget of its own.
PriorForgotten == 0

\* Fault in CallsLeft: discovery may use up what the compilation needs.
CallsLeftToAll(s) == MaxCalls - s.calls

\* Fault in Owned: the lease and the cancellation are not looked at.
OwnedByClaim(n) == job.status = "processing"

\* Fault in Judged: any verdict counts as news.
JudgedAnew(s, issues) ==
    [s EXCEPT !.previous = issues, !.readOn = FALSE, !.validationStalled = 0]

\* Fault in Candidate: the answer's own list stage or contract is taken over.
CandidateAsAnswered(n) ==
    [fixed |-> session[n].plan.fixed, issues |-> session[n].previous, by |-> n]

-----------------------------------------------------------------------------
\* A repair keeps the old contract; an exploration has to prove a list stage first.
KeptFromTheStart == IF kind = "repair" THEN OldContract ELSE NotProven

Init ==
    /\ kind \in Kinds
    /\ job = [status |-> "queued", claims |-> 0, leased |-> FALSE, cancelRequested |-> FALSE]
    /\ evidence = 0
    /\ session = [n \in Claim |-> NoSession]
    /\ candidate = NoCandidate
    /\ asked = [p \in {"discover", "compile"} |-> 0]
    /\ late = [n \in Claim |-> 0]
    /\ proved = [n \in Claim |-> KeptFromTheStart]

\* owned_transaction, allow_cancel or not: the claim's lease still holds.
Fenced(n) == job.status = "processing" /\ job.claims = n /\ job.leased
Owned(n)  == Fenced(n) /\ ~job.cancelRequested

\* For the history: the claim was overtaken or its lease has ended, or the run was
\* cancelled or has ended.
Lost(n) == \/ job.status # "processing" \/ job.claims # n
           \/ ~job.leased \/ job.cancelRequested

-----------------------------------------------------------------------------
(* The job of the run: JobControl, for one operation *)

Finished(status) == [job EXCEPT !.status = status, !.leased = FALSE]

\* A worker claims the job; the claim ends it when it was cancelled or is used up.
ClaimJob ==
    /\ job.status \in {"queued", "processing"} /\ ~job.leased
    /\ \/ /\ ~job.cancelRequested /\ job.claims < MaxClaims
          /\ job' = [job EXCEPT !.status = "processing", !.claims = @ + 1, !.leased = TRUE]
          /\ session' = [session EXCEPT ![job.claims + 1] = [pc |-> "claimed",
                 purpose |-> "discover", calls |-> 0, stalled |-> 0, seen |-> {},
                 previous |-> {}, readOn |-> TRUE, validationStalled |-> 0,
                 proven |-> KeptFromTheStart, plan |-> NoPlan]]
       \/ /\ job.cancelRequested \/ job.claims = MaxClaims
          /\ job' = Finished(IF job.cancelRequested THEN "cancelled" ELSE "failed")
          /\ UNCHANGED session
    /\ UNCHANGED <<kind, evidence, candidate, asked, late, proved>>

\* The worker was too slow to renew it, or is gone.
LeaseExpires ==
    /\ job.leased
    /\ job' = [job EXCEPT !.leased = FALSE]
    /\ UNCHANGED <<kind, evidence, session, candidate, asked, late, proved>>

RequestCancel ==
    /\ job.status \notin Ended /\ ~job.cancelRequested
    /\ job' = [(IF job.leased THEN job ELSE Finished("cancelled")) EXCEPT !.cancelRequested = TRUE]
    /\ UNCHANGED <<kind, evidence, session, candidate, asked, late, proved>>

-----------------------------------------------------------------------------
(* AdaptiveSession: a session after an answer or a verdict *)

\* What the loops have counted no longer matters to a task that fails.
Failing(s) == [s EXCEPT !.pc = "failing", !.stalled = 0, !.seen = {}, !.previous = {},
                        !.readOn = FALSE, !.validationStalled = 0, !.plan = NoPlan]

\* _progress: an answer that brought something new, or nothing.
Progress(s, new) ==
    IF new \ s.seen # {}
    THEN [s EXCEPT !.seen = @ \cup new, !.stalled = 0]
    ELSE IF s.stalled = 2 THEN Failing([s EXCEPT !.stalled = 3])
    ELSE [s EXCEPT !.stalled = @ + 1]

\* validate_feedback: the same issues again, with nothing read in between.
Judged(s, issues) ==
    LET again == issues # {} /\ s.previous # {} /\ s.previous \subseteq issues
                 /\ ~s.readOn
    IN  [s EXCEPT !.previous = issues, !.readOn = FALSE,
                  !.validationStalled = IF again THEN @ + 1 ELSE 0]

\* What happens to issues: the next round, unless the task is over.
Corrected(s, issues) ==
    LET judged == [Judged(s, issues) EXCEPT !.plan = NoPlan] IN
    IF judged.validationStalled >= 3 \/ judged.calls >= MaxCalls
    THEN Failing(judged) ELSE [judged EXCEPT !.pc = "asking"]

\* _phase_calls_remaining
CallsLeft(s) ==
    MaxCalls - s.calls - (IF s.purpose = "discover" THEN Reserve ELSE 0)

To(n, s) == session' = [session EXCEPT ![n] = s]
Unshared == UNCHANGED <<kind, job, evidence, candidate, asked, late, proved>>

-----------------------------------------------------------------------------
(* A worker with its claim *)

\* The budget that earlier claims have left.
Prior == evidence

\* start_ai_attempt, and a session with what the evidence says.
Begin(n) ==
    /\ pc(n) = "claimed"
    /\ To(n, [session[n] EXCEPT !.pc = "asking", !.calls = Prior,
                                !.purpose = IF Repair THEN "compile" ELSE "discover"])
    /\ Unshared

\* reserve and notify: a call is booked in the evidence, by a claim that still holds.
Ask(n) ==
    /\ pc(n) = "asking" /\ kind # "repair_without_contract"
    /\ IF CallsLeft(session[n]) <= 0
       THEN To(n, Failing(session[n])) /\ Unshared
       ELSE /\ Owned(n)
            /\ To(n, [session[n] EXCEPT !.pc = "booked", !.calls = @ + 1])
            /\ evidence' = session[n].calls + 1
            /\ UNCHANGED <<kind, job, candidate, asked, late, proved>>

\* The booked request goes out: nobody looks at the claim again before it.
Call(n) ==
    /\ pc(n) = "booked"
    /\ To(n, [session[n] EXCEPT !.pc = "calling"])
    /\ asked' = [asked EXCEPT ![session[n].purpose] = @ + 1]
    /\ late' = IF Lost(n) THEN [late EXCEPT ![n] = @ + 1] ELSE late
    /\ UNCHANGED <<kind, job, evidence, candidate, proved>>

\* There is no contract to keep: the compilation fails before it asks.
RefuseRepair(n) ==
    /\ pc(n) = "asking" /\ kind = "repair_without_contract" /\ Owned(n)
    /\ To(n, Corrected(session[n], {"rejected"})) /\ Unshared

\* The input was too long, or the answer is no action of the protocol.
AnswerUnusable(n) ==
    /\ pc(n) = "calling"
    /\ LET asking == [session[n] EXCEPT !.pc = "asking"] IN
       To(n, asking) \/ To(n, Progress(asking, {}))
    /\ Unshared

\* The call fails: that is progress of none, and a verdict on the round.
AnswerFails(n) ==
    /\ pc(n) = "calling"
    /\ LET s == Progress(session[n], {}) IN
       To(n, IF s.pc = "failing" THEN s ELSE Corrected(s, {"rejected"}))
    /\ Unshared

\* The model reads on.
AnswerRead(n) ==
    /\ pc(n) = "calling" /\ Owned(n)
    /\ \E read \in SUBSET Reading \ {{}} :
         LET s == Progress([session[n] EXCEPT !.pc = "asking"], read) IN
         To(n, IF read \subseteq session[n].seen THEN s
               ELSE [s EXCEPT !.readOn = TRUE])
    /\ Unshared

AnswerProposal(n) ==
    /\ pc(n) = "calling" /\ Owned(n)
    /\ \E plan \in Plan :
         To(n, Progress([session[n] EXCEPT !.pc = "judging", !.plan = plan],
                        {[purpose |-> session[n].purpose, plan |-> plan]}))
    /\ Unshared

\* The list stage is tried on the page: a stage that works is fixed.
JudgeDiscovery(n) ==
    /\ pc(n) = "judging" /\ session[n].purpose = "discover"
    /\ LET plan == session[n].plan IN
       \/ To(n, Corrected(session[n], {"rejected"})) /\ UNCHANGED proved
       \/ /\ plan.issues # {} /\ To(n, Corrected(session[n], plan.issues))
          /\ UNCHANGED proved
       \/ /\ plan.issues = {}
          /\ To(n, [session[n] EXCEPT !.pc = "asking", !.purpose = "compile",
                                      !.proven = plan.fixed, !.plan = NoPlan,
                                      !.seen = @ \cap Reading])
          /\ proved' = [proved EXCEPT ![n] = plan.fixed]
    /\ UNCHANGED <<kind, job, evidence, candidate, asked, late>>

\* _validate_candidate: the rule as it would be published, on every sample.
JudgeRule(n) ==
    /\ pc(n) = "judging" /\ session[n].purpose = "compile" /\ Owned(n)
    /\ LET plan == session[n].plan IN
       \/ To(n, Corrected(session[n], {"rejected"}))
       \/ /\ plan.issues # {} /\ To(n, Corrected(session[n], plan.issues))
       \/ /\ plan.issues = {}
          /\ To(n, [Judged(session[n], {}) EXCEPT !.pc = "committing", !.seen = {}])
    /\ Unshared

\* The list stage is the one of discovery, the contract the old one in a repair.
Candidate(n) ==
    [fixed |-> session[n].proven, issues |-> session[n].previous, by |-> n]

Commit(n) ==
    /\ pc(n) = "committing" /\ Owned(n)
    /\ candidate' = Candidate(n)
    /\ job' = Finished("succeeded")
    /\ To(n, NoSession)
    /\ UNCHANGED <<kind, evidence, asked, late, proved>>

\* The source fails, a time or token limit is reached, there is no model.
Abort(n) ==
    /\ pc(n) \notin {"none", "failing"}
    /\ To(n, Failing(session[n])) /\ Unshared

\* Worker.fail, also of a task that learns of its cancellation.
Fail(n) ==
    /\ pc(n) = "failing" \/ (pc(n) # "none" /\ job.cancelRequested)
    /\ Fenced(n)
    /\ job' = Finished(IF job.cancelRequested THEN "cancelled" ELSE "failed")
    /\ To(n, NoSession)
    /\ UNCHANGED <<kind, evidence, candidate, asked, late, proved>>

\* A lease that was lost is noticed by renew_job or by the next transaction.
GiveUp(n) ==
    /\ pc(n) # "none" /\ ~Fenced(n)
    /\ To(n, NoSession) /\ Unshared

Crash(n) ==
    /\ pc(n) # "none"
    /\ To(n, NoSession) /\ Unshared

Answer(n) == AnswerUnusable(n) \/ AnswerFails(n) \/ AnswerRead(n) \/ AnswerProposal(n)

Work(n) == Begin(n) \/ Ask(n) \/ Call(n) \/ RefuseRepair(n) \/ Answer(n) \/ JudgeDiscovery(n)
           \/ JudgeRule(n) \/ Commit(n) \/ Fail(n) \/ GiveUp(n)

Next == \/ ClaimJob \/ LeaseExpires \/ RequestCancel
        \/ \E n \in Claim : Work(n) \/ Abort(n) \/ Crash(n)

Spec == Init /\ [][Next]_explorationVars

\* Workers work and claim what is to be claimed; a lease that nobody renews expires.
Fairness ==
    /\ \A n \in Claim : WF_explorationVars(Work(n))
    /\ WF_explorationVars(ClaimJob)
    /\ WF_explorationVars(LeaseExpires /\ pc(job.claims) = "none")

FairSpec == Spec /\ Fairness

-----------------------------------------------------------------------------
(* Properties *)

\* Lost workers and new claims give no call back: all calls of the run stay within
\* its budget, and those of discovery leave the compilation its part of it.
CallsBudgeted ==
    /\ asked["discover"] + asked["compile"] <= MaxCalls
    /\ asked["discover"] <= MaxCalls - Reserve

\* A candidate is one whose last verdict was without an issue, found by the claim
\* that holds the job.  Its list stage is the one discovery has proved on the page,
\* and a repair keeps the contract of the rule it repairs.
CandidateProven ==
    candidate # NoCandidate =>
        /\ job.status = "succeeded" /\ candidate.by = job.claims
        /\ candidate.issues = {}
        /\ candidate.fixed = proved[candidate.by]

\* A worker that has lost its claim, or whose run was cancelled or has ended in
\* other hands, makes one call more at most: the one it had booked before.
LateCallsBounded == \A n \in Claim : late[n] <= 1

\* Every run ends: by its calls and by the counters of no progress, the clock aside.
ExplorationEnds == <>(job.status \in Ended)
=============================================================================
