------------------------------ MODULE Schedules ------------------------------
(***************************************************************************)
(* Schedules of Extrio: the due occurrences a control plane claims, the runs *)
(* it dispatches for them, the edits of engineers in between, and the       *)
(* automatic pause after runs that failed one after another.                *)
(*                                                                          *)
(* Several control planes poll the same tables and may be restarted at any  *)
(* point; a claimed occurrence that was not dispatched is found by the next *)
(* poll.  How a run is carried out is JobControl; here it only ends.        *)
(***************************************************************************)
EXTENDS Integers, Sequences, SequencesExt, FiniteSets

CONSTANTS Collector,    \* collectors, each with one schedule
          Planner,      \* control planes running schedule_dispatch_loop
          PauseAfter,   \* CONSECUTIVE_FAILURE_PAUSE_THRESHOLD
          MaxTime,      \* bound: instants of the clock
          MaxRevision,  \* bound: revisions a schedule is edited to
          MaxManual,    \* bound: runs started by engineers
          MaxRestarts,  \* bound: restarts of control planes and workers
          Manual        \* the origin of a run no schedule asked for

ASSUME BoundAssumption ==
    /\ PauseAfter \in Nat \ {0} /\ MaxTime \in Nat /\ MaxRevision \in Nat \ {0}
    /\ MaxManual \in Nat /\ MaxRestarts \in Nat

\* Switching off the last edit is a revision more.
Revision == 1..(MaxRevision + 1)
Instant  == 1..MaxTime

\* occurrenceKey: the hash of schedule, revision and scheduled time.
Key == [collector : Collector, revision : Revision, at : Instant]

ASSUME OriginAssumption == Manual \notin Key

VARIABLES now,         \* the clock
          collector,   \* rows of collectors: lifecycle and whether published
          schedule,    \* rows of collector_schedules
          occurrence,  \* rows of schedule_occurrences
          runs,        \* runs of a collector, oldest first
          checks,      \* automatic pause checks workers still have to make
          planner,     \* the list of occurrences a control plane works through
          renewed,     \* history: enabled by an engineer since the latest run
          restarts     \* restarts so far

vars == <<now, collector, schedule, occurrence, runs, checks, planner, renewed,
          restarts>>

-----------------------------------------------------------------------------
Never == 0

Run == [origin : Key \cup {Manual}, status : {"live", "failed", "other"}]

TypeOK ==
    /\ now \in 0..MaxTime
    /\ collector \in [Collector -> [lifecycle : {"active", "archived", "deleted"},
                                    published : BOOLEAN]]
    /\ schedule \in [Collector -> [enabled  : BOOLEAN,
                                   revision : Revision,
                                   nextRunAt : Instant \cup {Never}]]
    /\ occurrence \in [Key -> {"absent", "claimed", "dispatched", "skipped"}]
    /\ runs \in [Collector -> Seq(Run)]
    /\ checks \in [Collector -> Nat]
    /\ planner \in [Planner -> SUBSET Key]
    /\ renewed \in [Collector -> BOOLEAN]
    /\ restarts \in 0..MaxRestarts

Live(c) == runs[c] # <<>> /\ Last(runs[c]).status = "live"

\* recent_run_statuses: the newest PauseAfter runs all failed.
FailureStreak(c) ==
    /\ Len(runs[c]) >= PauseAfter
    /\ \A i \in (Len(runs[c]) - PauseAfter + 1)..Len(runs[c]) :
          runs[c][i].status = "failed"

-----------------------------------------------------------------------------
(* Faults: definitions below as a plausible mistake would have written them. *)

\* SwitchedOff: a schedule that is off already gets a new revision all the same.
SwitchedOffAgain(row) == [enabled |-> FALSE, revision |-> row.revision + 1,
                          nextRunAt |-> Never]

\* CanRun: an active run is not looked for.
CanRunBesideOthers(c) == collector[c].lifecycle = "active" /\ collector[c].published

\* StillPending: the status the list was read with is trusted.
StillPendingWhenListed(k) == TRUE

\* StillScheduled: the revision is not compared.
StillScheduledAnyRevision(k) == schedule[k.collector].enabled

\* Pending: what was claimed in this poll, not what an earlier one left behind.
PendingJustClaimed ==
    {k \in Key : occurrence[k] = "claimed" /\ k.at = now}

-----------------------------------------------------------------------------
Init ==
    /\ now        = 0
    /\ collector  = [c \in Collector |-> [lifecycle |-> "active", published |-> FALSE]]
    /\ schedule   = [c \in Collector |-> [enabled |-> FALSE, revision |-> 1,
                                          nextRunAt |-> Never]]
    /\ occurrence = [k \in Key |-> "absent"]
    /\ runs       = [c \in Collector |-> <<>>]
    /\ checks     = [c \in Collector |-> 0]
    /\ planner    = [p \in Planner |-> {}]
    /\ renewed    = [c \in Collector |-> FALSE]
    /\ restarts   = 0

(* Engineers *)

\* next_schedule_time: some instant after the given one, or none within the bound.
NextTimes(t) == {i \in Instant : i > t} \cup (IF t = MaxTime THEN {Never} ELSE {})

\* store.save_schedule, switching off: disable_schedule, maybe_pause_schedule.
SwitchedOff(row) ==
    IF row.enabled THEN [enabled |-> FALSE, revision |-> row.revision + 1,
                         nextRunAt |-> Never]
                   ELSE row

\* store.save_schedule locks the collector, and to enable requires it active.
CanEdit(c, enabled) ==
    /\ collector[c].lifecycle # "deleted"
    /\ enabled => collector[c].lifecycle = "active"

\* PUT /collectors/{id}/schedule: every write is a new revision.
EditSchedule(c, enabled) ==
    /\ CanEdit(c, enabled)
    /\ schedule[c].revision < MaxRevision
    /\ \E t \in NextTimes(now) :
         schedule' = [schedule EXCEPT ![c] =
            [enabled |-> enabled, revision |-> @.revision + 1,
             nextRunAt |-> IF enabled THEN t ELSE Never]]
    /\ renewed' = [renewed EXCEPT ![c] = enabled]
    /\ UNCHANGED <<now, collector, occurrence, runs, checks, planner, restarts>>

\* collector_lifecycle.lifecycle_command: archive, restore and delete, each of
\* which switches the schedule off.
SetLifecycle(c, lifecycle) ==
    /\ collector[c].lifecycle # "deleted"
    /\ ~Live(c)
    /\ collector' = [collector EXCEPT ![c].lifecycle = lifecycle]
    /\ schedule' = [schedule EXCEPT ![c] = SwitchedOff(@)]
    /\ UNCHANGED <<now, occurrence, runs, checks, planner, renewed, restarts>>

\* A rule is published; or an exploration that had taken the published rule out
\* of service ends without a result.
Publish(c) ==
    /\ collector[c].lifecycle = "active" /\ ~collector[c].published
    /\ collector' = [collector EXCEPT ![c].published = TRUE]
    /\ UNCHANGED <<now, schedule, occurrence, runs, checks, planner, renewed, restarts>>

\* An exploration takes the rule out of service; the schedule stays as it is.
Explore(c) ==
    /\ collector[c].lifecycle = "active" /\ collector[c].published /\ ~Live(c)
    /\ collector' = [collector EXCEPT ![c].published = FALSE]
    /\ UNCHANGED <<now, schedule, occurrence, runs, checks, planner, renewed, restarts>>

\* collector_lifecycle.definition_command, through invalidate_execution: a new
\* intent or source address needs a new rule.
Redefine(c) ==
    /\ collector[c].lifecycle = "active" /\ ~Live(c)
    /\ collector' = [collector EXCEPT ![c].published = FALSE]
    /\ schedule' = [schedule EXCEPT ![c] = SwitchedOff(@)]
    /\ UNCHANGED <<now, occurrence, runs, checks, planner, renewed, restarts>>

-----------------------------------------------------------------------------
(* Runs *)

\* The guards of app.create_run_operation and store.create_async_command.
CanRun(c) == /\ collector[c].lifecycle = "active"
             /\ collector[c].published
             /\ ~Live(c)

\* The run, its operation and its job.
CreateRun(c, origin) ==
    /\ runs' = [runs EXCEPT ![c] = Append(@, [origin |-> origin, status |-> "live"])]
    /\ renewed' = [renewed EXCEPT ![c] = FALSE]

\* POST /collectors/{id}/runs; a run of the recovery tick is created the same way.
StartRun(c) ==
    /\ CanRun(c)
    /\ Cardinality({i \in DOMAIN runs[c] : runs[c][i].origin = Manual}) < MaxManual
    /\ CreateRun(c, Manual)
    /\ UNCHANGED <<now, collector, schedule, occurrence, checks, planner, restarts>>

Ended(c, status) == [runs EXCEPT ![c] = [@ EXCEPT ![Len(@)].status = status]]

\* A worker commits or fails the run; if it failed, a check is still to follow.
EndRun(c, status) ==
    /\ Live(c)
    /\ runs' = Ended(c, status)
    /\ checks' = [checks EXCEPT ![c] = IF status = "failed" THEN @ + 1 ELSE @]
    /\ UNCHANGED <<now, collector, schedule, occurrence, planner, renewed, restarts>>

\* store.claim_job ends a run whose claims are used up: failed, with no check.
ExhaustRun(c) ==
    /\ Live(c)
    /\ runs' = Ended(c, "failed")
    /\ UNCHANGED <<now, collector, schedule, occurrence, checks, planner, renewed,
                   restarts>>

\* Worker.maybe_pause_schedule_after_failures, a transaction of its own.
PauseCheck(c) ==
    /\ checks[c] > 0
    /\ checks' = [checks EXCEPT ![c] = @ - 1]
    /\ schedule' = IF FailureStreak(c) /\ collector[c].lifecycle # "deleted"
                   THEN [schedule EXCEPT ![c] = SwitchedOff(@)] ELSE schedule
    /\ UNCHANGED <<now, collector, occurrence, runs, planner, renewed, restarts>>

\* The worker dies between the end of the run and the check.
LoseCheck(c) ==
    /\ checks[c] > 0
    /\ restarts < MaxRestarts
    /\ restarts' = restarts + 1
    /\ checks' = [checks EXCEPT ![c] = @ - 1]
    /\ UNCHANGED <<now, collector, schedule, occurrence, runs, planner, renewed>>

-----------------------------------------------------------------------------
(* The control planes: app.schedule_dispatch_loop *)

Due(c) == /\ schedule[c].enabled
          /\ schedule[c].nextRunAt # Never /\ schedule[c].nextRunAt <= now
          /\ collector[c].lifecycle = "active"

KeyOf(c) == [collector |-> c, revision |-> schedule[c].revision,
             at |-> schedule[c].nextRunAt]

\* store.claim_due_schedules, which begins a poll: one transaction for all that
\* are due.  A poll that finds none is a stuttering step.
ClaimDue(p) ==
    LET due == {c \in Collector : Due(c)}
        keys == {KeyOf(c) : c \in due}
    IN  /\ planner[p] = {}
        /\ due # {}
        /\ occurrence' = [k \in Key |->
              IF k \in keys /\ occurrence[k] = "absent" THEN "claimed"
                                                        ELSE occurrence[k]]
        /\ \E next \in [due -> NextTimes(now)] :
             schedule' = [c \in Collector |->
                IF c \in due THEN [schedule[c] EXCEPT !.nextRunAt = next[c]]
                             ELSE schedule[c]]
        /\ UNCHANGED <<now, collector, runs, checks, planner, renewed, restarts>>

\* What pending_schedule_occurrences reads, outside of any transaction: claims
\* of any control plane, at any time before, that were not dispatched.
Pending == {k \in Key : occurrence[k] = "claimed"}

ListPending(p) ==
    /\ planner[p] = {}
    /\ planner' = [planner EXCEPT ![p] = Pending]
    /\ UNCHANGED <<now, collector, schedule, occurrence, runs, checks, renewed,
                   restarts>>

\* dispatch_schedule_occurrence reads the occurrence again under the lock,
StillPending(k) == occurrence[k] = "claimed"

\* and refuses one that was claimed under another revision.
StillScheduled(k) == /\ schedule[k.collector].enabled
                     /\ schedule[k.collector].revision = k.revision

\* The next occurrence of the list, in the order of the claims: the run and
\* its receipt commit together.  The run may also be refused by parts that are
\* not modelled here: the integrity of its rule, a recovery batch.
Dispatch(p) ==
    /\ \E k \in planner[p], refused \in BOOLEAN :
         LET c == k.collector
             starts == /\ StillPending(k) /\ StillScheduled(k)
                       /\ CanRun(c) /\ ~refused
         IN  /\ \A j \in planner[p] : k.at <= j.at
             /\ IF starts THEN CreateRun(c, k) ELSE UNCHANGED <<runs, renewed>>
             /\ occurrence' = IF StillPending(k)
                   THEN [occurrence EXCEPT ![k] = IF starts THEN "dispatched"
                                                            ELSE "skipped"]
                   ELSE occurrence
             /\ planner' = [planner EXCEPT ![p] = @ \ {k}]
    /\ UNCHANGED <<now, collector, schedule, checks, restarts>>

\* The process is restarted, or a dispatch is given up for an exception that no
\* one expects: part or all of the list is left as it was claimed.
Restart(p) ==
    /\ restarts < MaxRestarts
    /\ restarts' = restarts + 1
    /\ \E lost \in SUBSET planner[p] \ {{}} :
         planner' = [planner EXCEPT ![p] = @ \ lost]
    /\ UNCHANGED <<now, collector, schedule, occurrence, runs, checks, renewed>>

Tick == /\ now < MaxTime
        /\ now' = now + 1
        /\ UNCHANGED <<collector, schedule, occurrence, runs, checks, planner, renewed,
                       restarts>>

-----------------------------------------------------------------------------
Next == \/ Tick
        \/ \E c \in Collector :
              \/ \E enabled \in BOOLEAN : EditSchedule(c, enabled)
              \/ \E l \in {"active", "archived", "deleted"} : SetLifecycle(c, l)
              \/ Publish(c)  \/ Explore(c) \/ Redefine(c)
              \/ StartRun(c) \/ \E s \in {"failed", "other"} : EndRun(c, s)
              \/ ExhaustRun(c)
              \/ PauseCheck(c) \/ LoseCheck(c)
        \/ \E p \in Planner : ClaimDue(p) \/ ListPending(p) \/ Dispatch(p) \/ Restart(p)

Spec == Init /\ [][Next]_vars

\* Each control plane goes on polling; it may be restarted MaxRestarts times.
FairSpec == Spec /\ \A p \in Planner : WF_vars(ListPending(p) \/ Dispatch(p))

-----------------------------------------------------------------------------
(* Properties *)

\* However many control planes find an occurrence, and wherever they are
\* restarted, it has one run if it was dispatched and none otherwise; and only
\* the newest run of a collector can be live, scheduled or not (overlapPolicy
\* "forbid").
NoDoubleRun ==
    /\ \A k \in Key :
          LET started == {i \in DOMAIN runs[k.collector] :
                             runs[k.collector][i].origin = k}
          IN  Cardinality(started) = (IF occurrence[k] = "dispatched" THEN 1 ELSE 0)
    /\ \A c \in Collector : \A i \in DOMAIN runs[c] :
          runs[c][i].status = "live" => i = Len(runs[c])

\* A run a schedule starts is one the schedule as it is now asked for: an
\* occurrence claimed before a pause, an edit or an archive is not revived.
NoRevival ==
    [][\A c \in Collector :
          /\ Len(runs'[c]) > Len(runs[c])
          /\ Last(runs'[c]).origin # Manual
          => /\ schedule[c].enabled
             /\ Last(runs'[c]).origin.revision = schedule[c].revision
             /\ collector[c].lifecycle = "active"]_vars

\* A claimed occurrence ends as dispatched or skipped, also if the control
\* plane that claimed it is gone.  Each is claimed once, so that all are decided
\* when none is left open for good.
Decided == []<>(\A k \in Key : occurrence[k] # "claimed")

\* Once all checks were made, a schedule is off after PauseAfter failed runs in
\* a row, unless an engineer has enabled it since
\* (docs/releases/v0.2-acceptance.md:294).
PausedAfterFailures ==
    \A c \in Collector :
        FailureStreak(c) /\ checks[c] = 0 /\ schedule[c].enabled => renewed[c]
=============================================================================
