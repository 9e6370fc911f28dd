--------------------------- MODULE SourceManagement ---------------------------
(***************************************************************************)
(* What people may do with one source and the collections it can belong to. *)
(* A collection's field versions are frozen and numbered; a source is bound *)
(* to one, moves to another by a migration, and to another collection by a  *)
(* reassignment.  Rules are compiled by explorations for the definition and *)
(* the version of that moment, edited by hand, reviewed and published.      *)
(*                                                                          *)
(* A command shows a plan first and is given the digest of what it showed:  *)
(* a command with a stale digest or revision is refused and changes         *)
(* nothing, so the actions are the commands whose plan is still true.  An   *)
(* answered command that is repeated with its key replays its receipt.      *)
(* Leases, retries and cancellation of the job are JobControl.              *)
(***************************************************************************)
EXTENDS Integers, Sequences, FiniteSets, FiniteSetsExt

CONSTANTS Collections,
          Home,         \* the collection the source was created for
          Definitions,  \* what a source is asked for: intent and URL
          First,        \* its first definition
          MaxVersions,  \* bound: field versions published
          MaxJobs,      \* bound: explorations and runs, the recorded ones included
          MaxEdits,     \* bound: edits of a candidate by hand
          MaxCommands,  \* bound: managementRevision
          None

ASSUME ManagementAssumption ==
    /\ Home \in Collections /\ First \in Definitions
    /\ MaxVersions \in Nat /\ MaxJobs \in Nat \ {0}
    /\ MaxEdits \in Nat /\ MaxCommands \in Nat

VARIABLES source,       \* the collector row
          collections,  \* status and active version of each collection
          versions,     \* version n was frozen for the collection versions[n]
          rules,        \* rule n is the spec rules[n]
          migration,    \* the collection_migrations row, or None
          job,          \* the source's queued or processing job, or None
          history,      \* operations with their run or ai_run, and who owns them
          edit          \* what update_candidate_rule has read of the row, or None

vars == <<source, collections, versions, rules, migration, job, history, edit>>

-----------------------------------------------------------------------------
Legacy  == 0                      \* tender_notice_v4, which is no row
Version == Legacy..MaxVersions

\* gatherSpec: compiled by the history entry job for a definition, a collection and
\* a version of its fields, and edited since.
Spec_ == [definition : Definitions, collection : Collections, version : Version,
          job : 1..MaxJobs, edits : 0..MaxEdits]

Status == {"draft", "exploring", "ready_review", "published"}

Source == [status     : Status,
           lifecycle  : {"active", "archived", "deleted"},
           revision   : 0..MaxCommands,
           definition : Definitions,
           collection : Collections,
           version    : Version,
           pending    : Version \cup {None},
           stage      : {"awaiting_compile", "ready_review", "failed", None},
           candidate  : Spec_ \cup {None},
           rule       : 1..MaxJobs \cup {None},
           operation  : 1..MaxJobs \cup {None},
           moved      : BOOLEAN]

Collection == [status : {"absent", "active", "archived", "deleted"},
               active : Version]

Migration == [target : Version, status : Status, candidate : Spec_ \cup {None}]

Context == [definition : Definitions, collection : Collections, version : Version,
            migrating : BOOLEAN]

Job == [kind : {"explore", "repair", "run"}, operation : 1..MaxJobs,
        previous : Status, revision : 0..MaxCommands, context : Context \cup {None}]

Entry == [kind      : {"ai_run", "run"},
          made      : Collections,
          review    : {"not_ready", "ready_review", "published", "superseded"},
          rule      : 1..MaxJobs \cup {None},
          resource  : Collections \cup {None},
          operation : Collections \cup {None}]

\* None is NULL: no id, no stage, and no row.
ASSUME NoneAssumption ==
    /\ None \notin Collections /\ None \notin Version /\ None \notin 1..MaxJobs
    /\ None \notin {"awaiting_compile", "ready_review", "failed"}
    /\ None \notin Spec_ /\ None \notin Source /\ None \notin Migration
    /\ None \notin Job /\ None \notin Context

TypeOK ==
    /\ source \in Source
    /\ collections \in [Collections -> Collection]
    /\ versions \in Seq(Collections) /\ Len(versions) <= MaxVersions
    /\ rules \in Seq(Spec_) /\ Len(rules) <= MaxJobs
    /\ migration \in Migration \cup {None}
    /\ job \in Job \cup {None}
    /\ history \in Seq(Entry) /\ Len(history) <= MaxJobs
    /\ edit \in Source \cup {None}

-----------------------------------------------------------------------------
\* create_collector, and what an installation from before the ownership table holds:
\* a published rule with the exploration that made it, or runs that name no rule.
FreshSource ==
    [status |-> "draft", lifecycle |-> "active", revision |-> 0,
     definition |-> First, collection |-> Home, version |-> Legacy,
     pending |-> None, stage |-> None, candidate |-> None, rule |-> None,
     operation |-> None, moved |-> FALSE]

FirstSpec == [definition |-> First, collection |-> Home, version |-> Legacy,
              job |-> 1, edits |-> 0]

Unowned(kind) == [kind |-> kind, made |-> Home, review |-> "not_ready",
                  rule |-> None, resource |-> None, operation |-> None]

Init ==
    /\ collections = [k \in Collections |->
            [status |-> IF k = Home THEN "active" ELSE "absent",
             active |-> Legacy]]
    /\ versions = <<>> /\ migration = None /\ job = None /\ edit = None
    /\ \/ source = FreshSource /\ rules = <<>> /\ history = <<>>
       \/ /\ source = [FreshSource EXCEPT !.status = "published", !.rule = 1,
                                          !.candidate = FirstSpec]
          /\ rules = <<FirstSpec>>
          /\ history = <<[Unowned("ai_run") EXCEPT !.review = "published",
                                                   !.rule = 1]>>
       \/ /\ source = FreshSource /\ rules = <<>> /\ history = <<Unowned("run")>>

-----------------------------------------------------------------------------
(* Who may do what.  The commands run on the API's event loop or under its  *)
(* mutation_lock, and so do the edits: while an edit is between its read     *)
(* and its write only the worker and the MCP server, processes of their     *)
(* own, act.                                                                *)

ApiFree == edit = None

\* require_active and lock_collector.
Active == source.lifecycle = "active"

\* store.has_active_run.
RunActive == job # None /\ job.kind = "run"

\* Fault in OperationActive: explorations are forgotten.
RunOnly == RunActive /\ source.operation = job.operation

\* The operation the row names is not terminal.
OperationActive == job # None /\ source.operation = job.operation

\* active_blockers and the pending migration of lifecycle_plan.
Blocked == job # None \/ source.pending # None \/ migration # None

\* invalidate_execution.
Invalidated(s) == [s EXCEPT !.status = "draft", !.rule = None, !.candidate = None,
                            !.operation = None]

\* save_collector(management_write=True).
Managed(s) == [s EXCEPT !.revision = @ + 1]

\* Fault in VersionOf: only a migration is thought of.
PendingOnly(s) == s.pending

\* store.get_collection_version for the version the source is bound to.
VersionOf(s) == IF s.pending # None THEN s.pending ELSE s.version

\* attribution: none once the collection's row is gone.
Attribution(k) == IF collections[k].status \in {"active", "archived"} THEN k ELSE None

RuleAttribution(r) == IF r = None THEN None ELSE Attribution(rules[r].collection)

-----------------------------------------------------------------------------
(* Collections and their field versions. *)

CreateCollection(k) ==
    /\ ApiFree
    /\ collections[k].status = "absent"
    /\ collections' = [collections EXCEPT ![k].status = "active"]
    /\ UNCHANGED <<source, versions, rules, migration, job, history, edit>>

\* change_collection: archive or restore.  Names, intents and field drafts change
\* without a trace here: a draft becomes a version only when it is published.
ChangeCollection(k) ==
    /\ ApiFree
    /\ collections[k].status \in {"active", "archived"}
    /\ \E s \in {"active", "archived"} \ {collections[k].status} :
          collections' = [collections EXCEPT ![k].status = s]
    /\ UNCHANGED <<source, versions, rules, migration, job, history, edit>>

\* publish_collection_version: the sources stay bound as they were.
PublishVersion(k) ==
    /\ ApiFree
    /\ collections[k].status = "active"
    /\ Len(versions) < MaxVersions
    /\ versions' = Append(versions, k)
    /\ collections' = [collections EXCEPT ![k].active = Len(versions')]
    /\ UNCHANGED <<source, rules, migration, job, history, edit>>

HasSources(k) == source.lifecycle # "deleted" /\ source.collection = k

Owns(k) == \E n \in DOMAIN history : k \in {history[n].resource, history[n].operation}

\* delete_collection.
DeleteCollection(k) ==
    /\ ApiFree
    /\ collections[k].status \in {"active", "archived"}
    /\ ~HasSources(k) /\ ~Owns(k) /\ \A n \in DOMAIN versions : versions[n] # k
    /\ collections' = [collections EXCEPT ![k].status = "deleted"]
    /\ UNCHANGED <<source, versions, rules, migration, job, history, edit>>

-----------------------------------------------------------------------------
(* Migrations to another version of the same collection. *)

\* migration_command; the blockers are migration_plan's.
StartMigration ==
    /\ ApiFree /\ Active
    /\ \E v \in DOMAIN versions :
          /\ versions[v] = source.collection /\ source.version # v
          /\ collections[source.collection].status # "archived"
          /\ source.pending = None
          /\ ~RunActive /\ ~OperationActive
          /\ migration' = [target |-> v, status |-> source.status,
                           candidate |-> source.candidate]
          /\ source' = [source EXCEPT !.pending = v, !.stage = "awaiting_compile",
                                      !.status = "draft"]
    /\ UNCHANGED <<collections, versions, rules, job, history, edit>>

\* Fault in CancelMigration: the status is restored, the candidate is not.
CancelKeepingCandidate ==
    /\ ApiFree /\ Active
    /\ migration # None /\ source.pending = migration.target
    /\ ~OperationActive
    /\ source' = [source EXCEPT !.status = migration.status, !.pending = None,
                                !.stage = None, !.operation = None]
    /\ migration' = None
    /\ UNCHANGED <<collections, versions, rules, job, history, edit>>

\* migration_command(cancel=True).  The definition cannot have changed meanwhile.
CancelMigration ==
    /\ ApiFree /\ Active
    /\ migration # None /\ source.pending = migration.target
    /\ ~OperationActive
    /\ source' = [source EXCEPT !.status = migration.status,
                                !.candidate = migration.candidate,
                                !.pending = None, !.stage = None, !.operation = None]
    /\ migration' = None
    /\ UNCHANGED <<collections, versions, rules, job, history, edit>>

-----------------------------------------------------------------------------
(* The source's own definition, life and collection. *)

\* definition_command: a new name changes nothing here but the revision.
ChangeDefinition ==
    /\ ApiFree /\ Active
    /\ job = None /\ source.pending = None
    /\ source.revision < MaxCommands
    /\ \E d \in Definitions :
          source' = LET s == IF d = source.definition THEN source
                             ELSE Invalidated(source)
                    IN  Managed([s EXCEPT !.definition = d])
    /\ UNCHANGED <<collections, versions, rules, migration, job, history, edit>>

\* history_snapshot: whom a recorded resource and its operation belong to.
ResourceOwner(e) ==
    IF e.resource # None THEN e.resource
    ELSE IF RuleAttribution(e.rule) # None THEN RuleAttribution(e.rule)
    ELSE IF e.kind = "ai_run" /\ ~source.moved THEN Attribution(source.collection)
    ELSE None

OperationOwner(e) ==
    IF e.operation # None THEN e.operation
    ELSE IF ResourceOwner(e) # None THEN ResourceOwner(e)
    ELSE IF ~source.moved THEN Attribution(source.collection)
    ELSE None

Unresolved ==
    \E n \in DOMAIN history : None \in {ResourceOwner(history[n]),
                                        OperationOwner(history[n])}

\* Fault in Frozen: the operations are left to their runs.
FrozenResources ==
    [n \in DOMAIN history |->
        [history[n] EXCEPT !.resource = ResourceOwner(history[n])]]

\* freeze_history: a row once written stays.
Frozen == [n \in DOMAIN history |->
              [history[n] EXCEPT !.resource = ResourceOwner(history[n]),
                                 !.operation = OperationOwner(history[n])]]

\* lifecycle_command; the tombstone of a deletion is the lifecycle "deleted".
ChangeLifecycle ==
    /\ ApiFree
    /\ source.lifecycle # "deleted" /\ ~Blocked
    /\ source.revision < MaxCommands
    /\ \E l \in {"active", "archived", "deleted"} :
          /\ source' = Managed([source EXCEPT !.lifecycle = l])
          /\ history' = IF l = "deleted" THEN Frozen ELSE history
    /\ UNCHANGED <<collections, versions, rules, migration, job, edit>>

\* reassignment_command.  The target's intent becomes the source's.
Reassign ==
    /\ ApiFree /\ Active
    /\ ~Blocked /\ ~Unresolved
    /\ source.revision < MaxCommands
    /\ \E k \in Collections \ {source.collection}, d \in Definitions :
          /\ collections[k].status = "active"
          /\ source' = Managed([Invalidated(source) EXCEPT
                                   !.collection = k, !.version = collections[k].active,
                                   !.definition = d, !.moved = TRUE])
    /\ history' = Frozen
    /\ UNCHANGED <<collections, versions, rules, migration, job, edit>>

-----------------------------------------------------------------------------
(* Explorations and runs: create_async_command and the worker. *)

\* record_new_history: a run belongs to its rule's collection, everything else to
\* the source's of now.
Recorded(kind, rule) ==
    LET here == Attribution(source.collection)
        own  == RuleAttribution(rule)
    IN  [kind |-> kind, made |-> source.collection, review |-> "not_ready",
         rule |-> rule, resource |-> IF own # None THEN own ELSE here,
         operation |-> here]

Enqueue(kind, entry, status) ==
    /\ Active /\ job = None /\ Len(history) < MaxJobs
    /\ history' = Append(history, entry)
    /\ job' = [kind |-> kind, operation |-> Len(history'), previous |-> source.status,
               revision |-> source.revision, context |-> None]
    /\ source' = [source EXCEPT !.status = status, !.operation = Len(history')]
    /\ UNCHANGED <<collections, versions, rules, migration, edit>>

\* _start_exploration.
StartExploration ==
    /\ ApiFree
    /\ ~OperationActive
    /\ Enqueue("explore", Recorded("ai_run", None), "exploring")

\* _start_repair.
StartRepair ==
    /\ ApiFree
    /\ ~OperationActive
    /\ source.pending = None /\ source.candidate # None
    /\ Enqueue("repair", Recorded("ai_run", None), "exploring")

\* create_run_operation, from the API or, during an edit, from the MCP server.
StartRun ==
    /\ source.pending = None
    /\ source.status = "published" /\ source.rule # None
    /\ Enqueue("run", Recorded("run", source.rule), source.status)

\* _process_owned reads the row it will compile for.  A repair keeps the contract of
\* the candidate it repairs.
Begin ==
    /\ Active
    /\ job # None /\ job.kind # "run" /\ job.context = None
    /\ job.revision = source.revision
    /\ job' = [job EXCEPT !.context =
                  [definition |-> source.definition, collection |-> source.collection,
                   version |-> IF job.kind = "repair" /\ source.candidate # None
                               THEN source.candidate.version ELSE VersionOf(source),
                   migrating |-> source.stage # None]]
    /\ UNCHANGED <<source, collections, versions, rules, migration, history, edit>>

\* The worker is lost and another claims the job.
Reclaim ==
    /\ job # None /\ job.context # None
    /\ job' = [job EXCEPT !.context = None]
    /\ UNCHANGED <<source, collections, versions, rules, migration, history, edit>>

\* update_ai_run: a generation that comes up for review supersedes the older ones.
UnderReview(h, o) ==
    [n \in DOMAIN h |->
        IF n = o THEN [h[n] EXCEPT !.review = "ready_review"]
        ELSE IF h[n].review = "ready_review" THEN [h[n] EXCEPT !.review = "superseded"]
        ELSE h[n]]

\* The commit of an exploration: its own columns over the row of now, the migration's
\* stage as it was read.
CommitExploration ==
    /\ job # None /\ job.context # None
    /\ source' = [source EXCEPT
           !.status = "ready_review", !.operation = None,
           !.candidate = [definition |-> job.context.definition,
                          collection |-> job.context.collection,
                          version |-> job.context.version,
                          job |-> job.operation, edits |-> 0],
           !.stage = IF job.context.migrating THEN "ready_review" ELSE @]
    /\ history' = UnderReview(history, job.operation)
    /\ job' = None
    /\ UNCHANGED <<collections, versions, rules, migration, edit>>

CommitRun ==
    /\ RunActive
    /\ source' = [source EXCEPT !.operation = None]
    /\ job' = None
    /\ UNCHANGED <<collections, versions, rules, migration, history, edit>>

\* finish_resources, after a failure, a cancellation or the last attempt.
FailJob ==
    /\ job # None
    /\ source' = IF ~OperationActive THEN source
                 ELSE IF job.kind = "run" THEN [source EXCEPT !.operation = None]
                 ELSE [source EXCEPT !.operation = None, !.status = job.previous,
                                     !.stage = IF @ # None THEN "failed" ELSE @]
    /\ job' = None
    /\ UNCHANGED <<collections, versions, rules, migration, history, edit>>

-----------------------------------------------------------------------------
(* Editing and publishing the candidate. *)

\* update_candidate_rule: read, check and validate against the sample pages ...
ReadForEdit ==
    /\ ApiFree /\ Active
    /\ source.operation = None /\ ~RunActive
    /\ source.candidate # None /\ source.candidate.edits < MaxEdits
    /\ edit' = source
    /\ UNCHANGED <<source, collections, versions, rules, migration, job, history>>

\* save_collector refuses a row that management commands have changed since.
Unmanaged == edit.revision = source.revision /\ edit.lifecycle = source.lifecycle

\* ... and write the whole row, or answer with a conflict.
WriteEdit ==
    /\ edit # None
    /\ source' = IF Unmanaged
                 THEN [edit EXCEPT !.status = "ready_review",
                                   !.candidate.edits = @ + 1]
                 ELSE source
    /\ edit' = None
    /\ UNCHANGED <<collections, versions, rules, migration, job, history>>

\* publish_rule_bundle: the candidate must be for the version under review.
Matches(spec) ==
    VersionOf(source) # Legacy =>
        /\ versions[VersionOf(source)] = source.collection
        /\ spec.version = VersionOf(source)

\* _publish_latest_ai_run: of those that wait for review the latest is published, the
\* others are superseded.
Reviewed(h, rule) ==
    LET waiting == {n \in DOMAIN h : h[n].review = "ready_review"}
    IN  [n \in DOMAIN h |->
            IF n \notin waiting THEN h[n]
            ELSE IF n = Max(waiting)
                 THEN [h[n] EXCEPT !.review = "published", !.rule = rule]
                 ELSE [h[n] EXCEPT !.review = "superseded"]]

\* _publish_rule and persist_published_rule.
PublishRule ==
    /\ ApiFree /\ Active
    /\ source.status = "ready_review" /\ source.candidate # None
    /\ Matches(source.candidate)
    /\ Len(rules) < MaxJobs
    /\ rules' = Append(rules, source.candidate)
    /\ history' = Reviewed(history, Len(rules'))
    /\ source' = [source EXCEPT !.status = "published", !.rule = Len(rules'),
                                !.version = VersionOf(source),
                                !.pending = None,
                                !.stage = IF source.pending = None THEN @ ELSE None]
    /\ migration' = IF source.pending = None THEN migration ELSE None
    /\ UNCHANGED <<collections, versions, job, edit>>

-----------------------------------------------------------------------------
Next ==
    \/ \E k \in Collections : CreateCollection(k) \/ ChangeCollection(k)
                              \/ PublishVersion(k) \/ DeleteCollection(k)
    \/ StartMigration \/ CancelMigration
    \/ ChangeDefinition \/ ChangeLifecycle \/ Reassign
    \/ StartExploration \/ StartRepair \/ StartRun
    \/ Begin \/ Reclaim \/ CommitExploration \/ CommitRun \/ FailJob
    \/ ReadForEdit \/ WriteEdit \/ PublishRule

Spec == Init /\ [][Next]_vars

-----------------------------------------------------------------------------
(* Properties. *)

Contract(spec) == <<spec.definition, spec.collection, spec.version>>

\* The rule a source runs was compiled for what the source is today: its intent and
\* URL, its collection and the field version it is bound to; and a source that shows
\* itself as published shows the very candidate that was reviewed and published.
\* Edits and explorations write over a row read earlier, migrations put one back.
RuleFits ==
    /\ source.rule # None => Contract(rules[source.rule]) = Contract(source)
    /\ source.status = "published" =>
          /\ source.rule # None
          /\ source.candidate = rules[source.rule]

\* A candidate waits for a review of what it was compiled for, and the migration
\* under way can always be found again: row, pending version and stage agree.
MigrationAgrees ==
    /\ (source.pending = None) = (migration = None)
    /\ (source.stage = None) = (migration = None)
    /\ migration # None => migration.target = source.pending
    /\ source.stage = "ready_review" /\ source.status = "ready_review" =>
          source.candidate.version = source.pending

\* What was done for a collection stays that collection's, wherever the source goes,
\* and once the source has moved nothing it did before is left without an owner.
HistoryAttributed ==
    \A n \in DOMAIN history :
        LET e == history[n] IN
        /\ {e.resource, e.operation} \subseteq {e.made, None}
        /\ source.collection # e.made => None \notin {e.resource, e.operation}
        /\ Owns(e.made) => collections[e.made].status \in {"active", "archived"}

\* The published rule of a generation is the one it generated.
PublishedItsOwn ==
    \A n \in DOMAIN history :
        history[n].kind = "ai_run" /\ history[n].rule # None =>
            rules[history[n].rule].job = n
=============================================================================
