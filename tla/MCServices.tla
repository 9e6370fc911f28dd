----------------------------- MODULE MCServices -----------------------------
(***************************************************************************)
(* A small instance of four parts of Extrio that share no rows:             *)
(* WebhookDelivery, Accounts, FieldSuggestions and Exploration.  A behaviour *)
(* is one of any of them, with the others at rest in one of their initial   *)
(* states.                                                                  *)
(***************************************************************************)
EXTENDS WebhookDelivery

CONSTANTS Client, User, MaxPassword
CONSTANTS Worker, Idle, MaxAttempts, MaxSuggestions, MaxRevision, MaxStalls
CONSTANTS MaxCalls, MaxClaims, Fixed, OldContract, Reading

VARIABLES user, session, request                                    \* Accounts
VARIABLES collection, suggestion, worker, stalls                    \* FieldSuggestions
VARIABLES kind, job, evidence, aiSession, candidate, asked, late, proved  \* Exploration
VARIABLE part                                                       \* which one moves

A == INSTANCE Accounts
S == INSTANCE FieldSuggestions WITH MaxFaults <- MaxStalls, faults <- stalls
X == INSTANCE Exploration WITH session <- aiSession

ASSUME ServicesAssumption ==
    A!AccountsAssumption /\ S!SuggestionAssumption /\ X!ExplorationAssumption

accountVars     == <<user, session, request>>
suggestionVars  == <<collection, suggestion, worker, stalls>>
explorationVars == <<kind, job, evidence, aiSession, candidate, asked, late, proved>>
MCVars          == <<part, vars, accountVars, suggestionVars, explorationVars>>

MCInit == /\ part \in {"deliveries", "accounts", "suggestions", "exploration"}
          /\ Init /\ A!Init /\ S!Init /\ X!Init
          /\ part # "exploration" => kind = "explore"

DeliveriesNext  == /\ part = "deliveries" /\ Next
                   /\ UNCHANGED <<part, accountVars, suggestionVars, explorationVars>>
AccountsNext    == /\ part = "accounts" /\ A!Next
                   /\ UNCHANGED <<part, vars, suggestionVars, explorationVars>>
SuggestionsNext == /\ part = "suggestions" /\ S!Next
                   /\ UNCHANGED <<part, vars, accountVars, explorationVars>>
ExplorationNext == /\ part = "exploration" /\ X!Next
                   /\ UNCHANGED <<part, vars, accountVars, suggestionVars>>

MCNext == DeliveriesNext \/ AccountsNext \/ SuggestionsNext \/ ExplorationNext

\* The fairness of WebhookDelivery, FieldSuggestions and Exploration, where they are
\* what moves.
DeliveriesFair ==
    /\ \A w \in Dispatcher : WF_vars(part = "deliveries" /\ Proceed(w))
    /\ WF_vars(part = "deliveries" /\ \E w \in Dispatcher : Claim(w))
    /\ \A d \in Delivery : /\ WF_vars(part = "deliveries" /\ BecomeDue(d))
                           /\ WF_vars(part = "deliveries" /\ LeaseRunsOut(d))
SuggestionsFair ==
    /\ \A w \in Worker : /\ WF_suggestionVars(part = "suggestions" /\ S!Claim(w))
                         /\ WF_suggestionVars(part = "suggestions" /\ S!AnswerAny(w))
    /\ \A s \in S!Id :
          WF_suggestionVars(part = "suggestions" /\ S!Expire(s) /\ ~S!Held(s))
ExplorationFair ==
    /\ \A n \in X!Claim : WF_explorationVars(part = "exploration" /\ X!Work(n))
    /\ WF_explorationVars(part = "exploration" /\ X!ClaimJob)
    /\ WF_explorationVars(part = "exploration" /\ X!LeaseExpires
                            /\ X!pc(job.claims) = "none")

MCSpec == /\ MCInit /\ [][MCNext]_MCVars
          /\ DeliveriesFair /\ SuggestionsFair /\ ExplorationFair

-----------------------------------------------------------------------------
(* The properties of the four parts *)

\* Every variable of the four parts has its type.
AllTypesOK == TypeOK /\ A!TypeOK /\ S!TypeOK /\ X!TypeOK

\* Accounts: an enabled administrator remains, and no session outlives the
\* password it was opened with.
AccountsSound == A!AdministratorRemains /\ A!SessionsFollowPassword

\* Exploration: a candidate was found without an issue and keeps what it has to,
\* within the calls of its run and those left to its phase.
CandidateProven == X!CandidateProven /\ X!CallsBudgeted

\* Exploration: after its claim is lost or the run is cancelled, a worker makes no
\* more calls than the one it had booked.
LateCallsBounded == X!LateCallsBounded

\* WebhookDelivery: every delivery is settled.
\* FieldSuggestions: every suggestion ends, by the answer of its latest claim.
\* Exploration: every run ends.
\* One formula for the three, as a behaviour stays with its part.
AllEnd == <>[](/\ part = "deliveries" => AllSettled
               /\ part = "suggestions" => S!AllAnswered
               /\ part = "exploration" => job.status \in X!Ended)
=============================================================================
