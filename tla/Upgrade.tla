------------------------------- MODULE Upgrade -------------------------------
(***************************************************************************)
(* How a database of an earlier release becomes one of this release         *)
(* (store.py, initialize; store_backfills.py): SQL scripts, each in a       *)
(* transaction with its record, then rows completed in batches of their     *)
(* own, at last a marker.  One process at a time does it, behind a lock     *)
(* that a dead process loses, and any step may be its last; only what finds *)
(* or makes the database complete serves.                                   *)
(* One collector, its operations in the order of their ids, which is not    *)
(* the order they were made in; a run stands beside an operation of kind    *)
(* run, an AI run is what an operation of kind explore lacks.               *)
(***************************************************************************)
EXTENDS Naturals, FiniteSets

CONSTANTS Process,   \* commands and services of this release
          Script,    \* the SQL scripts, in their order: 1..n
          Op,        \* operations, in the order of their ids: 1..n
          BatchSize, \* rows of a batch (200 in the code)
          Nobody,
          None       \* no AI run, no owner

VARIABLES legacy,  \* what the earlier release left
          auto,    \* services migrate as they start (database_auto_migrate)
          db,      \* the database
          gate,    \* who holds the initialization lock
          proc     \* per process: what it is, where it is, the scripts it found
                   \* missing, the last id of its batches

upgradeVars == <<legacy, auto, db, gate, proc>>

Kinds  == {"run", "ai_run", "operation"}
AiRuns == [result : {"pending", "candidate_ready", "no_candidate"},
           review : {"not_ready", "ready_review", "published", "superseded"}]
Owners == {"source", "rule", None}

UpgradeAssumption ==
    /\ BatchSize \in Nat \ {0}
    /\ Nobody \notin Process
    /\ None \notin AiRuns \cup {"source", "rule"}

\* The order in which the stages of the data migration follow each other.
After(stage) ==
    CASE stage = "collections" -> "payloads" [] stage = "payloads" -> "ai_runs"
      [] stage = "ai_runs" -> "policy"       [] stage = "policy" -> "schedule"
      [] stage = "schedule" -> "run"         [] stage = "run" -> "ai_run"
      [] stage = "ai_run" -> "operation"     [] stage = "operation" -> "mark"
Stage == {"collections", "payloads", "ai_runs", "policy", "schedule", "mark"} \cup Kinds

TypeOK ==
    /\ auto \in BOOLEAN
    /\ gate \in Process \cup {Nobody}
    /\ proc \in [Process -> [role : {"command", "service"}, todo : SUBSET Script, last : {0} \cup Op,
                             at : {"down", "waiting", "schema", "data", "up"} \cup Stage]]
    /\ db \in [ran : [Script -> 0..2], collections : BOOLEAN, filled : SUBSET Op,
               ai_run : [Op -> AiRuns \cup {None}], named : SUBSET Op,
               policy : BOOLEAN, checkpoint : BOOLEAN, schedule : BOOLEAN,
               owner : [Kinds \X Op -> Owners], marker : BOOLEAN]

-----------------------------------------------------------------------------
(* What the earlier release left *)

Explores == {i \in Op : legacy.op[i].kind = "explore"}

\* Fault in Latest: the exploration of the greatest id.
LatestById(i) == \A j \in Explores : j <= i

\* The exploration made last.
Latest(i) == \A j \in Explores : legacy.op[j].born <= legacy.op[i].born

\* Only what was made last may still wait, and a candidate, which a source has unless
\* it is a draft, comes from an exploration;
\* a source that moved between collections was of a release that has policies; an
\* archived one has nothing queued (that it is archived matters where it has no policy).
Left(l) ==
    /\ \A i, j \in Op : /\ i # j => l.op[i].born # l.op[j].born
                        /\ l.op[i].status = "queued" => l.op[i].born >= l.op[j].born
    /\ l.status # "draft" => \E i \in Op : l.op[i].kind = "explore" /\ l.op[i].status = "succeeded"
    /\ l.moved => l.policy /\ l.bound
    /\ l.checkpoint => l.status = "published"
    /\ l.archived => ~l.policy /\ \A i \in Op : l.op[i].status # "queued"

Legacies == {l \in [op : [Op -> [kind : {"explore", "run"}, born : Op,
                                status : {"queued", "succeeded", "failed"}]],
                   status : {"draft", "ready_review", "published"},
                   bound : BOOLEAN, moved : BOOLEAN, archived : BOOLEAN,
                   policy : BOOLEAN, checkpoint : BOOLEAN] : Left(l)}

\* A process in a role, at a place, that found no script missing.
Fresh(role, at) == [role |-> role, todo |-> {}, last |-> 0, at |-> at]

\* Of the scripts the first ran long ago.
Init ==
    /\ legacy \in Legacies
    /\ auto \in BOOLEAN
    /\ db = [ran |-> [s \in Script |-> IF s = 1 THEN 1 ELSE 0], collections |-> FALSE, filled |-> {},
             ai_run |-> [i \in Op |-> None], named |-> {},
             policy |-> legacy.policy, checkpoint |-> legacy.checkpoint, schedule |-> FALSE,
             owner |-> [x \in Kinds \X Op |-> None], marker |-> FALSE]
    /\ gate = Nobody
    /\ proc = [p \in Process |-> Fresh("service", "down")]

-----------------------------------------------------------------------------
(* Processes start and end *)

Goes(p, at) == proc' = [proc EXCEPT ![p].at = at, ![p].last = 0]

\* extrio-migrate takes the instance's lock for itself, a service shares it.
Begin(p) ==
    /\ proc[p].at = "down"
    /\ \E role \in {"command", "service"} :
          /\ \A q \in Process : proc[q].at # "down" => role = "service" /\ proc[q].role = "service"
          /\ proc' = [proc EXCEPT ![p] = Fresh(role, "waiting")]
    /\ UNCHANGED <<legacy, auto, db, gate>>

\* Fault in EnterGate: the processes of an instance do not wait for each other.
FreeForAll == TRUE

\* The lock of the initialization: one process at a time.
Free == gate = Nobody

\* The process enters and sees which scripts are missing.
EnterGate(p) ==
    /\ proc[p].at = "waiting" /\ Free
    /\ gate' = p
    /\ proc' = [proc EXCEPT ![p].at = "schema", ![p].todo = {s \in Script : db.ran[s] = 0}]
    /\ UNCHANGED <<legacy, auto, db>>

\* A process dies, or ends with an error, a refusal or a request to stop; the lock is
\* released with its connection or descriptor.
Stop(p) ==
    /\ proc[p].at # "down"
    /\ gate' = IF gate = p THEN Nobody ELSE gate
    /\ proc' = [proc EXCEPT ![p] = Fresh(@.role, "down")]
    /\ UNCHANGED <<legacy, auto, db>>

Migrates(p) == proc[p].role = "command" \/ auto

-----------------------------------------------------------------------------
(* The schema *)

\* A script and its record, in one transaction.
Ran(s) == [db EXCEPT !.ran[s] = @ + 1]

\* The next script runs; one that fails leaves nothing and ends the process (Stop).
\* A process that may not migrate ends too.
RunScript(p) ==
    /\ proc[p].at = "schema" /\ Migrates(p)
    /\ \E s \in proc[p].todo :
          /\ \A t \in proc[p].todo : s <= t
          /\ db' = Ran(s)
          /\ proc' = [proc EXCEPT ![p].todo = @ \ {s}]
    /\ UNCHANGED <<legacy, auto, gate>>

SchemaReady(p) ==
    /\ proc[p].at = "schema" /\ proc[p].todo = {}
    /\ Goes(p, "data")
    /\ UNCHANGED <<legacy, auto, db, gate>>

-----------------------------------------------------------------------------
(* The data *)

\* Fault in Complete: whoever finds rows of AI runs takes the work for done.
CompleteWhenBegun == db.marker \/ \E i \in Op : db.ai_run[i] # None

\* The marker tells that all of it was done.
Complete == db.marker

\* A process finds the data complete and serves, or begins to complete it.
LookAtData(p) ==
    /\ proc[p].at = "data"
    /\ IF Complete
       THEN /\ gate' = Nobody
            /\ Goes(p, IF proc[p].role = "command" THEN "down" ELSE "up")
       ELSE /\ Migrates(p)
            /\ Goes(p, "collections")
            /\ UNCHANGED gate
    /\ UNCHANGED <<legacy, auto, db>>

\* The collections that sources name.
WithCollections == [db EXCEPT !.collections = TRUE]

\* An active source without a policy gets the default one, and begins without a
\* checkpoint; an archived one stays without.
WithPolicy == IF db.policy \/ legacy.archived THEN db
              ELSE [db EXCEPT !.policy = TRUE, !.checkpoint = FALSE]

\* A source without a schedule gets one.
WithSchedule == [db EXCEPT !.schedule = TRUE]

\* The stages that are one transaction each.
Single(p) ==
    /\ proc[p].at \in {"collections", "policy", "schedule"}
    /\ db' = CASE proc[p].at = "collections" -> WithCollections
               [] proc[p].at = "policy"      -> WithPolicy
               [] proc[p].at = "schedule"    -> WithSchedule
    /\ Goes(p, After(proc[p].at))
    /\ UNCHANGED <<legacy, auto, gate>>

\* The AI run of an exploration that has none: it has a review where it is the
\* latest, as its source tells.
AiRun(i) ==
    LET op == legacy.op[i] IN
    CASE op.status = "queued" -> [result |-> "pending", review |-> "not_ready"]
      [] op.status = "failed" -> [result |-> "no_candidate", review |-> "not_ready"]
      [] op.status = "succeeded" ->
            [result |-> IF Latest(i) /\ legacy.status = "draft" THEN "no_candidate" ELSE "candidate_ready",
             review |-> IF Latest(i) /\ legacy.status # "draft" THEN legacy.status ELSE "superseded"]

\* What operation i made.
Made(i) == IF legacy.op[i].kind = "run" THEN "run" ELSE "ai_run"

\* Whose a row is: that of the rule it used or was published as; an operation that of
\* what it made; else the source's, where the source was never moved.
OwnerOf(kind, i) ==
    LET ruled == /\ legacy.bound
                 /\ \/ kind = "run"
                    \/ kind = "ai_run" /\ db.ai_run[i].review = "published"
    IN  CASE ruled -> "rule"
          [] kind = "operation" /\ db.owner[<<Made(i), i>>] # None -> db.owner[<<Made(i), i>>]
          [] OTHER -> IF kind = "run" \/ legacy.moved THEN None ELSE "source"

\* The rows a stage goes through, by their ids.
RowsOf(stage) ==
    CASE stage \in {"payloads", "operation"} -> Op
      [] stage = "ai_runs" -> {i \in Op : db.ai_run[i] = None}
      [] stage = "run"     -> Op \ Explores
      [] stage = "ai_run"  -> {i \in Op : db.ai_run[i] # None}

\* Rows get the fields this release reads.
WithFields(batch) == [db EXCEPT !.filled = @ \cup batch]

\* Explorations get their AI runs, and their jobs name them.
WithAiRuns(batch) ==
    [db EXCEPT !.ai_run = [i \in Op |-> IF i \in batch \cap Explores THEN AiRun(i) ELSE @[i]],
               !.named  = @ \cup (batch \cap Explores)]

\* Rows without an owner get the one that can be told; it is never changed.
WithOwners(kind, batch) ==
    [db EXCEPT !.owner = [x \in Kinds \X Op |->
        IF x[1] = kind /\ x[2] \in batch /\ @[x] = None THEN OwnerOf(kind, x[2]) ELSE @[x]]]

Completed(stage, batch) ==
    CASE stage = "payloads" -> WithFields(batch)
      [] stage = "ai_runs"  -> WithAiRuns(batch)
      [] stage \in Kinds    -> WithOwners(stage, batch)

\* The next batch of rows, in a transaction of its own; when none is left, the next stage.
Batch(p) ==
    LET stage == proc[p].at
        ahead == {i \in RowsOf(stage) : i > proc[p].last}
        batch == {i \in ahead : Cardinality({j \in ahead : j < i}) < BatchSize}
    IN
    /\ stage \in {"payloads", "ai_runs"} \cup Kinds
    /\ IF ahead = {}
       THEN Goes(p, After(stage)) /\ UNCHANGED db
       ELSE /\ db' = Completed(stage, batch)
            /\ proc' = [proc EXCEPT ![p].last = CHOOSE i \in batch : \A j \in batch : j <= i]
    /\ UNCHANGED <<legacy, auto, gate>>

\* All is done: the marker, and the process serves.
Mark(p) ==
    /\ proc[p].at = "mark"
    /\ db' = [db EXCEPT !.marker = TRUE]
    /\ gate' = Nobody
    /\ Goes(p, IF proc[p].role = "command" THEN "down" ELSE "up")
    /\ UNCHANGED <<legacy, auto>>

Next == \E p \in Process :
    \/ Begin(p) \/ EnterGate(p) \/ Stop(p)
    \/ RunScript(p) \/ SchemaReady(p)
    \/ LookAtData(p) \/ Single(p) \/ Batch(p) \/ Mark(p)

-----------------------------------------------------------------------------
(* Properties *)

Serving == \E p \in Process : proc[p].at = "up"

\* Whatever dies and begins again, by one process or several: a script runs once, and
\* an operation and what it made never have two owners.
NothingTwice ==
    /\ \A s \in Script : db.ran[s] <= 1
    /\ \A i \in Op : db.owner[<<"operation", i>>] \in {None, db.owner[<<Made(i), i>>]}
                     \/ db.owner[<<Made(i), i>>] = None

\* What serves finds the database as one undisturbed migration leaves it: every script
\* ran, every row was completed, an active source has a policy, a source keeps the
\* checkpoint of the policy it had, operations have their owners, and every
\* exploration names its AI run (self-hosted-operations.md:35).
UpgradeWhole ==
    Serving =>
        /\ \A s \in Script : db.ran[s] = 1
        /\ db.collections /\ db.schedule /\ db.filled = Op
        /\ db.policy = (legacy.policy \/ ~legacy.archived)
        /\ db.checkpoint = (legacy.checkpoint /\ (legacy.policy \/ legacy.archived))
        /\ db.named = Explores /\ \A i \in Op : i \in Explores <=> db.ai_run[i] # None
        /\ \A i \in Op : \/ db.owner[<<"operation", i>>] # None
                         \/ legacy.moved /\ db.owner[<<Made(i), i>>] = None

\* At any moment at most one AI run of a source is under review or published; it is of
\* the exploration made last, which succeeded, and says what the source says.
OneReviewed ==
    \A i \in Op : db.ai_run[i] # None /\ db.ai_run[i].review \in {"ready_review", "published"} =>
        /\ \A j \in Explores : legacy.op[j].born <= legacy.op[i].born
        /\ legacy.op[i].status = "succeeded" /\ legacy.status = db.ai_run[i].review

UpgradeSound == NothingTwice /\ UpgradeWhole /\ OneReviewed
=============================================================================
