------------------------------ MODULE MCDispatch ------------------------------
(***************************************************************************)
(* A small instance of the parts that decide which work begins: Schedules;  *)
(* BoundedRecovery, the batches of runs after a source asked to slow down;  *)
(* CatalogRun, the rows of a catalog; and Commands, what clients ask for    *)
(* under an idempotency key.  A behaviour is one of any of them, with the   *)
(* others at rest in one of their initial states.                           *)
(***************************************************************************)
EXTENDS Schedules

CONSTANTS Source, Started, MaxOrdinary, MaxChanges, Horizon, Delays, Waits, Lifetime,
          MaxAttempts, JobAttempts, RequestLimit, None
CONSTANTS Entry, Host, BatchRequests, MainRequests, ReviewRequests, Slots, MaxInvocations
CONSTANTS Process, Command, Idle, MaxCollections, MaxSources, MaxSinks, MaxCrashes

VARIABLES clock, rows, sourceRuns, batches, sent, changes           \* BoundedRecovery
VARIABLES manifest, ledger, memory, row, todo, requested, refused, invocations
                                                                     \* CatalogRun
VARIABLES collections, sources, sinks, receipts, handler, answers, crashes  \* Commands
VARIABLE part                                                        \* which one moves

R == INSTANCE BoundedRecovery
       WITH Collector <- Source, MaxTime <- Horizon, now <- clock, runs <- sourceRuns
C == INSTANCE CatalogRun
I == INSTANCE Commands

ASSUME MCDispatchAssumption == /\ R!RecoveryAssumption /\ C!CatalogAssumption
                                /\ I!CommandsAssumption

recoveryVars == <<clock, rows, sourceRuns, batches, sent, changes>>
catalogVars  == <<manifest, ledger, memory, row, todo, requested, refused, invocations>>
commandVars  == <<collections, sources, sinks, receipts, handler, answers, crashes>>
MCVars       == <<part, vars, recoveryVars, catalogVars, commandVars>>

-----------------------------------------------------------------------------
(* Values of the constants *)

\* Cool-downs that grow, and waits shorter, longer and beyond the deadline.
GrowingDelays == <<1, 2>>

Cmd(key, kind, urls, target, revision) ==
    [key |-> key, kind |-> kind, urls |-> urls, target |-> target, revision |-> revision]

\* A source, a batch of sources for a collection that is made, edited, archived,
\* published and deleted meanwhile, an agent that wants one of the urls, and a key
\* that is used for two requests.
SomeCommands == {Cmd(1, "source", <<1>>, 0, 0), Cmd(2, "batch", <<1, 2>>, 1, 0),
                 Cmd(4, "create", <<>>, 0, 0), Cmd(4, "create", <<>>, 0, 1),
                 Cmd(5, "edit", <<>>, 1, 1), Cmd(6, "delete", <<>>, 1, 1),
                 Cmd(7, "archive", <<>>, 1, 1), Cmd(8, "publish", <<>>, 1, 2),
                 Cmd(9, "sink", <<1>>, 0, 0), Cmd(10, "agent", <<2>>, 0, 0)}

\* Rows of a catalog are numbers here, and hosts too: one order of each is enough.
Rank(entry) == 3 * entry.host
               + (CASE entry.kind = "main" -> 0 [] entry.kind = "review" -> 1 [] OTHER -> 2)

-----------------------------------------------------------------------------
MCInit == /\ part \in {"schedules", "recovery", "catalog", "commands", "sinks"}
          /\ Init /\ R!Init /\ C!Init /\ I!Init
          /\ \A e, f \in Entry : e < f => Rank(manifest[e]) <= Rank(manifest[f])
          /\ \E e \in Entry : manifest[e].host = 1
          /\ part # "catalog" => \A e \in Entry : manifest[e] = [host |-> 1, kind |-> "main"]

\* Sinks and sources have nothing in common but their receipts: one after the other.
Served  == {p \in Process : handler[p] # Idle}
OneKind == \A p \in Served : handler[p].cmd.kind = "sink" <=> part = "sinks"

SchedulesNext == /\ part = "schedules" /\ Next
                 /\ UNCHANGED <<part, recoveryVars, catalogVars, commandVars>>
RecoveryNext  == /\ part = "recovery" /\ R!Next
                 /\ UNCHANGED <<part, vars, catalogVars, commandVars>>
CatalogNext   == /\ part = "catalog" /\ C!Next
                 /\ UNCHANGED <<part, vars, recoveryVars, commandVars>>
CommandsNext  == /\ part \in {"commands", "sinks"} /\ I!Next
                 /\ UNCHANGED <<part, vars, recoveryVars, catalogVars>> /\ OneKind'

MCNext == SchedulesNext \/ RecoveryNext \/ CatalogNext \/ CommandsNext

\* The fairness of Schedules and of BoundedRecovery, where they are what moves;
\* nobody owes a catalog another invocation, or a command another try.
MCFairness ==
    /\ \A p \in Planner : WF_vars(part = "schedules" /\ (ListPending(p) \/ Dispatch(p)))
    /\ WF_recoveryVars(part = "recovery" /\ R!Tock)
    /\ WF_recoveryVars(part = "recovery" /\ \E b \in DOMAIN batches : R!Tick(b))
    /\ WF_recoveryVars(part = "recovery" /\ \E r \in DOMAIN sourceRuns : R!Work(r))

MCSpec == MCInit /\ [][MCNext]_MCVars /\ MCFairness

-----------------------------------------------------------------------------
(* The properties of the four parts *)

\* Every variable of the four parts has its type.
AllTypesOK == TypeOK /\ R!TypeOK /\ C!TypeOK /\ I!TypeOK

\* BoundedRecovery and CatalogRun: no budget of requests is exceeded or given back over
\* crashes, retries and new invocations, that of a batch of runs, of a catalog or of
\* one of its rows; and a host is left to the batch that holds it.
BudgetsHold == R!BudgetHonoured /\ R!HostReserved /\ C!BudgetsHold

\* BoundedRecovery and CatalogRun: the wait a source asks for is kept, and in a catalog a
\* host that refused is left alone and a row that has its result is not read again.
SourcesRespected == R!WaitHonoured /\ C!SettledForGood

\* Commands: what a key stands for is done once, and leaves nothing half made.
CommandsSound == I!NothingDangling /\ I!CommandsOnce

\* Schedules and BoundedRecovery: an occurrence that was claimed is decided, and a batch
\* comes to an end.
EventuallyDecided == /\ part = "schedules" => Decided
                     /\ part = "recovery" => R!RecoveryEnds

\* Commands, for the run with two sinks: a retry makes no second one.
RetryMakesNothingNew == I!RetryMakesNothingNew
=============================================================================
