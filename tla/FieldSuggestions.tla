-------------------------- MODULE FieldSuggestions --------------------------
(***************************************************************************)
(* Field suggestions of Extrio: a collection's engineers ask a model for    *)
(* fields; workers claim the request for a lease, ask the model and store   *)
(* the answer; an engineer applies it to the draft it was made for.         *)
(***************************************************************************)
EXTENDS Integers, FiniteSets, FiniteSetsExt

CONSTANTS Worker,          \* workers
          Idle,            \* a worker that has claimed nothing
          MaxAttempts,     \* claims of a suggestion
          MaxSuggestions,  \* bound: suggestions asked for
          MaxRevision,     \* bound: revisions of the collection
          MaxFaults        \* bound: workers that die or stall

SuggestionAssumption ==
    /\ MaxAttempts \in Nat \ {0} /\ MaxRevision \in Nat \ {0}
    /\ MaxSuggestions \in Nat /\ MaxFaults \in Nat

VARIABLES collection,  \* revision and whether it is archived
          suggestion,  \* rows of field_suggestions, oldest first
          worker,      \* what each worker has claimed
          faults       \* faults so far

suggestionVars == <<collection, suggestion, worker, faults>>

-----------------------------------------------------------------------------
Id == 1..MaxSuggestions

\* answer: the attempt whose answer the row bears, 0 for none.
Row == [status  : {"absent", "queued", "running", "succeeded", "failed"},
        base    : 0..MaxRevision, attempt : 0..MaxAttempts,
        lease   : {"none", "live", "expired"},
        answer  : 0..MaxAttempts, applied : BOOLEAN]

TypeOK ==
    /\ collection \in [revision : 1..MaxRevision, archived : BOOLEAN]
    /\ suggestion \in [Id -> Row]
    /\ worker \in [Worker -> [suggestion : Id, attempt : 1..MaxAttempts] \cup {Idle}]
    /\ faults \in 0..MaxFaults

-----------------------------------------------------------------------------
(* Faults: definitions below as a plausible mistake would have written them. *)

\* Fault in StillOwned: the attempt is not compared.
StillOwnedByAny(s, attempt) == suggestion[s].status = "running"

\* Fault in UsedUp: one claim too many.
UsedUpLater(s) == suggestion[s].attempt > MaxAttempts

-----------------------------------------------------------------------------
Init ==
    /\ collection = [revision |-> 1, archived |-> FALSE]
    /\ suggestion = [s \in Id |-> [status |-> "absent", base |-> 0, attempt |-> 0,
                                   lease |-> "none", answer |-> 0, applied |-> FALSE]]
    /\ worker     = [w \in Worker |-> Idle]
    /\ faults     = 0

(* Engineers: field_workflow_command, and what else changes the collection. *)

Active(s) == suggestion[s].status \in {"queued", "running"}

\* "field-suggestions": one at a time for a collection.
Ask(s) ==
    /\ ~collection.archived
    /\ suggestion[s].status = "absent" /\ \A t \in 1..(s - 1) : suggestion[t].status # "absent"
    /\ \A t \in Id : ~Active(t)
    /\ suggestion' = [suggestion EXCEPT ![s].status = "queued",
                                        ![s].base = collection.revision]
    /\ UNCHANGED <<collection, worker, faults>>

Revise == /\ collection.revision < MaxRevision
          /\ collection' = [collection EXCEPT !.revision = @ + 1]

\* "apply-suggestion": once, and only onto the revision it was made for.
Apply(s) ==
    /\ ~collection.archived
    /\ suggestion[s].status = "succeeded" /\ ~suggestion[s].applied
    /\ suggestion[s].base = collection.revision
    /\ Revise
    /\ suggestion' = [suggestion EXCEPT ![s].applied = TRUE]
    /\ UNCHANGED <<worker, faults>>

\* "apply-template" and every edit of the collection; and its archive and return.
Edit == /\ ~collection.archived /\ Revise
        /\ UNCHANGED <<suggestion, worker, faults>>

Archive == /\ collection.revision < MaxRevision
           /\ collection' = [revision |-> collection.revision + 1,
                             archived |-> ~collection.archived]
           /\ UNCHANGED <<suggestion, worker, faults>>

-----------------------------------------------------------------------------
(* Workers *)

Claimable == {s \in Id : \/ suggestion[s].status = "queued"
                         \/ suggestion[s].status = "running"
                            /\ suggestion[s].lease = "expired"}

UsedUp(s) == suggestion[s].attempt >= MaxAttempts

\* claim_suggestion: the oldest; one whose claims are used up ends instead.
Claim(w) ==
    /\ worker[w] = Idle /\ Claimable # {}
    /\ \E s \in {Min(Claimable)} :
         IF UsedUp(s)
         THEN /\ suggestion' = [suggestion EXCEPT ![s].status = "failed"]
              /\ UNCHANGED worker
         ELSE /\ suggestion' = [suggestion EXCEPT ![s].status = "running",
                                ![s].attempt = @ + 1, ![s].lease = "live"]
              /\ worker' = [worker EXCEPT ![w] =
                              [suggestion |-> s, attempt |-> suggestion[s].attempt + 1]]
    /\ UNCHANGED <<collection, faults>>

\* finish_suggestion asks whether the attempt is still the one that runs.
StillOwned(s, attempt) == /\ suggestion[s].status = "running"
                          /\ suggestion[s].attempt = attempt

\* The model answered, or failed, or timed out: Worker.process and Worker.fail.
Answer(w, status) ==
    /\ worker[w] # Idle
    /\ \E job \in {worker[w]} :
         suggestion' =
            IF StillOwned(job.suggestion, job.attempt)
            THEN [suggestion EXCEPT ![job.suggestion] =
                    [@ EXCEPT !.status = status, !.lease = "none",
                              !.answer = IF status = "succeeded" THEN job.attempt
                                                                 ELSE 0]]
            ELSE suggestion
    /\ worker' = [worker EXCEPT ![w] = Idle]
    /\ UNCHANGED <<collection, faults>>

Fault == faults < MaxFaults /\ faults' = faults + 1

\* The worker dies or is stopped; its successor knows nothing of the claim.
Die(w) ==
    /\ worker[w] # Idle /\ Fault
    /\ worker' = [worker EXCEPT ![w] = Idle]
    /\ UNCHANGED <<collection, suggestion>>

Held(s) == \E w \in Worker : worker[w] = [suggestion |-> s,
                                          attempt |-> suggestion[s].attempt]

\* 120 seconds pass.  The call of the model is given up after 95, so the worker
\* that still holds the claim then was stalled.
Expire(s) ==
    /\ suggestion[s].status = "running" /\ suggestion[s].lease = "live"
    /\ IF Held(s) THEN Fault ELSE UNCHANGED faults
    /\ suggestion' = [suggestion EXCEPT ![s].lease = "expired"]
    /\ UNCHANGED <<collection, worker>>

AnswerAny(w) == \E status \in {"succeeded", "failed"} : Answer(w, status)

Next == \/ \E s \in Id : Ask(s) \/ Apply(s) \/ Expire(s)
        \/ Edit \/ Archive
        \/ \E w \in Worker : Claim(w) \/ AnswerAny(w) \/ Die(w)

\* Workers go on polling, come to an answer, and find time for suggestions
\* between their jobs (worker.py:641); time passes.
Fairness ==
    /\ \A w \in Worker : /\ WF_suggestionVars(Claim(w))
                         /\ WF_suggestionVars(AnswerAny(w))
    /\ \A s \in Id : WF_suggestionVars(Expire(s) /\ ~Held(s))

Spec == Init /\ [][Next]_suggestionVars /\ Fairness

-----------------------------------------------------------------------------
(* Properties *)

\* Every suggestion that was asked for ends for good, by the answer of its latest
\* claim if it succeeds, whatever became of the workers that had it before.
AllAnswered == \A s \in Id : /\ ~Active(s)
                              /\ suggestion[s].status = "succeeded"
                                   => suggestion[s].answer = suggestion[s].attempt

EndsForGood == <>[]AllAnswered
=============================================================================
