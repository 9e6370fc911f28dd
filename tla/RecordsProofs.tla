---------------------------- MODULE RecordsProofs ----------------------------
(***************************************************************************)
(* Theorems about what is kept of a source, for any value of the constants. *)
(* SourceManagement: any collections and definitions, and any number of     *)
(* field versions, jobs, edits and commands.  LocalEvidence: any pages and  *)
(* claims.  AiActivity: any phases, claims, entries and calls.              *)
(* InstanceKeys: any services, keys, secrets, commands and losses.          *)
(* Upgrade: any processes, scripts, operations and size of a batch.  One    *)
(* inductive invariant per part; at the end the parts together, as          *)
(* MCRecords has them.                                                      *)
(***************************************************************************)
EXTENDS MCRecords, TLAPS, WellFoundedInduction, FiniteSetTheorems


-----------------------------------------------------------------------------
(* The inductive invariant *)

\* The definition and the collection of a spec are the source's.
SameSource(spec) == /\ spec.definition = source.definition
                    /\ spec.collection = source.collection

\* What a spec is if the source shows it as published.
Shown(spec) == source.rule # None /\ spec = rules[source.rule]

\* A candidate was compiled for the version the source is bound to, or for the one
\* it migrates to; a rule for the one it is bound to.
Candidates ==
    /\ source.candidate # None =>
          /\ SameSource(source.candidate)
          /\ source.candidate.version \in {source.version, source.pending}
    /\ source.rule # None =>
          source.rule \in DOMAIN rules /\ Contract(rules[source.rule]) = Contract(source)
    /\ source.status = "published" => Shown(source.candidate)

\* A migration can be taken back, and what it waits for is known.
Migrations ==
    /\ source.pending # Legacy
    /\ source.pending = None <=> migration = None
    /\ source.stage = None <=> migration = None
    /\ migration # None =>
          /\ migration.target = source.pending
          /\ migration.candidate # None =>
                /\ source.candidate # None /\ SameSource(migration.candidate)
                /\ migration.candidate.version = source.version
          /\ migration.status = "published" => Shown(migration.candidate)
    /\ source.stage = "ready_review" =>
          source.candidate # None /\ source.candidate.version = source.pending

\* While an exploration is under way nothing else writes the row, so that the
\* context it was compiled for is the source's of now.
Jobs == job # None =>
    /\ job.operation \in DOMAIN history
    /\ job.context # None => job.kind # "run"
    /\ job.kind # "run" =>
          /\ source.status = "exploring" /\ source.operation = job.operation
          /\ edit = None
          /\ history[job.operation].made = source.collection
          /\ job.operation = Len(history)
          /\ job.previous = "published" => Shown(source.candidate)
          /\ job.kind = "repair" => source.pending = None /\ source.candidate # None
    /\ job.context # None =>
          /\ SameSource(job.context)
          /\ job.context.version = VersionOf(source)
          /\ job.context.migrating <=> source.stage # None

\* While an edit is under way nothing but the operation of the row changes.
Edits == edit # None =>
    /\ edit = [source EXCEPT !.operation = None]
    /\ edit.candidate # None /\ edit.candidate.edits < MaxEdits
    /\ job # None => job.kind = "run"

\* What an entry says of its owners and its rule.
Entries == \A n \in DOMAIN history :
    /\ {history[n].resource, history[n].operation} \subseteq {history[n].made, None}
    /\ source.collection # history[n].made =>
          None \notin {history[n].resource, history[n].operation}
    /\ ~source.moved => history[n].made = source.collection
    /\ history[n].rule # None =>
          /\ history[n].rule \in DOMAIN rules
          /\ rules[history[n].rule].collection = history[n].made

Present(k) == collections[k].status \in {"active", "archived"}

\* Nothing that is referred to is deleted.
Owners ==
    /\ source.lifecycle # "deleted" => Present(source.collection)
    /\ \A n \in DOMAIN history :
          /\ history[n].resource # None => Present(history[n].resource)
          /\ history[n].operation # None => Present(history[n].operation)

\* The latest generation that waits for a review was made for the collection the
\* candidate is for, wherever the source was before.
Waits(n) == n \in DOMAIN history /\ history[n].review = "ready_review"
Latest == source.candidate # None => \A n \in DOMAIN history :
    Waits(n) /\ (\A m \in DOMAIN history : Waits(m) => m <= n) =>
       history[n].made = source.collection

MInv == /\ TypeOK /\ Candidates /\ Migrations /\ Jobs /\ Edits
        /\ Entries /\ Owners /\ Latest

-----------------------------------------------------------------------------
(* What the steps have in common *)

LEMMA RowTypes ==
    ASSUME TypeOK
    PROVE  /\ source.status \in Status
           /\ source.lifecycle \in {"active", "archived", "deleted"}
           /\ source.revision \in 0..MaxCommands /\ source.definition \in Definitions
           /\ source.collection \in Collections /\ source.version \in Version
           /\ source.pending \in Version \cup {None}
           /\ source.stage \in {"awaiting_compile", "ready_review", "failed", None}
           /\ source.candidate \in Spec_ \cup {None}
           /\ source.rule \in 1..MaxJobs \cup {None}
           /\ source.operation \in 1..MaxJobs \cup {None} /\ source.moved \in BOOLEAN
BY DEF TypeOK, Source

LEMMA Bounds ==
    /\ MaxVersions \in Nat /\ MaxJobs \in Nat \ {0} /\ MaxEdits \in Nat /\ MaxCommands \in Nat
    /\ None \notin Version /\ None \notin Collections /\ None \notin 1..MaxJobs
BY ManagementAssumption, NoneAssumption

LEMMA HistoryTypes ==
    ASSUME TypeOK
    PROVE  /\ Len(history) \in Nat /\ DOMAIN history = 1..Len(history)
           /\ \A n \in DOMAIN history : history[n] \in Entry
           /\ Len(rules) \in Nat /\ DOMAIN rules = 1..Len(rules)
           /\ \A n \in DOMAIN rules : rules[n] \in Spec_
BY DEF TypeOK

LEMMA Attributed ==
    ASSUME TypeOK, NEW k
    PROVE  /\ Attribution(k) \in {k, None}
           /\ k \in Collections /\ Attribution(k) # None => Present(k)
BY DEF Attribution, Present

\* What RowKept needs to know of a step, field by field.
SameBinding(s, t) == /\ s.definition = t.definition /\ s.collection = t.collection
                     /\ s.version = t.version /\ s.pending = t.pending
                     /\ s.candidate = t.candidate /\ s.rule = t.rule

\* A step that leaves the contract, the candidate and the migration of the row.
LEMMA RowKept ==
    ASSUME MInv, SameBinding(source', source), UNCHANGED <<rules, migration>>,
           source'.stage = None <=> source.stage = None,
           source'.stage = "ready_review" => source.stage = "ready_review",
           source'.status = "published" =>
              source.status = "published" \/ Shown(source.candidate)
    PROVE  Candidates' /\ Migrations'
<1>1. Candidates /\ Migrations
  BY DEF MInv
<1>2. Candidates'
  BY <1>1 DEF Candidates, SameSource, Shown, SameBinding, Contract
<1>3. Migrations'
  BY <1>1 DEF Migrations, SameSource, Shown, SameBinding
<1> QED
  BY <1>2, <1>3

\* A step that leaves the history, the collections and the rules.
LEMMA HistoryKept ==
    ASSUME MInv, UNCHANGED <<collections, history, rules>>,
           source'.collection = source.collection, source'.moved = source.moved,
           source'.lifecycle # "deleted" => source.lifecycle # "deleted",
           source'.candidate # None => source.candidate # None
    PROVE  Entries' /\ Owners' /\ Latest'
<1>1. Entries /\ Owners /\ Latest
  BY DEF MInv
<1>2. Entries'
  BY <1>1 DEF Entries
<1>3. Owners'
  BY <1>1 DEF Owners, Present
<1>4. Latest'
  BY <1>1 DEF Latest, Waits
<1> QED
  BY <1>2, <1>3, <1>4

\* record_new_history adds an entry for the collection the source is in.
LEMMA EntryAdded ==
    ASSUME MInv, NEW e \in Entry, Len(history) < MaxJobs,
           history' = Append(history, e), UNCHANGED <<collections, rules>>,
           source'.collection = source.collection, source'.moved = source.moved,
           source'.lifecycle = source.lifecycle, source'.candidate = source.candidate,
           e.made = source.collection,
           {e.resource, e.operation} \subseteq {source.collection, None},
           e.resource # None \/ e.operation # None => Present(source.collection),
           e.review = "not_ready",
           e.rule # None => /\ e.rule \in DOMAIN rules
                            /\ rules[e.rule].collection = source.collection
    PROVE  /\ Entries' /\ Owners' /\ Latest'
           /\ history' \in Seq(Entry) /\ Len(history') = Len(history) + 1
           /\ Len(history') <= MaxJobs /\ Len(history') \in 1..MaxJobs
           /\ Len(history') \in DOMAIN history' /\ history'[Len(history')] = e
           /\ \A n \in DOMAIN history : n \in DOMAIN history' /\ history'[n] = history[n]
<1>1. TypeOK /\ Entries /\ Owners /\ Latest
  BY DEF MInv
<1>2. PICK n \in Nat : n = Len(history)
  BY <1>1, HistoryTypes
<1>3. DOMAIN history = 1..n /\ history \in Seq(Entry)
  BY <1>1, <1>2, HistoryTypes DEF TypeOK
<1>4. /\ history' \in Seq(Entry) /\ Len(history') = n + 1 /\ DOMAIN history' = 1..(n + 1)
      /\ \A m \in 1..n : history'[m] = history[m]
      /\ history'[n + 1] = e
  BY <1>2, <1>3
<1>5. \A m \in 1..(n + 1) : m \in 1..n \/ m = n + 1
  OBVIOUS
<1>6. n + 1 \in 1..(n + 1) /\ \A m \in 1..n : m \in 1..(n + 1)
  OBVIOUS
<1>7. Entries'
  BY <1>1, <1>3, <1>4, <1>5 DEF Entries
<1>8. Owners'
  BY <1>1, <1>3, <1>4, <1>5 DEF Owners, Present
<1>9. Latest'
  BY <1>1, <1>3, <1>4, <1>5, <1>6 DEF Latest, Waits
<1>10. Len(history') <= MaxJobs /\ Len(history') \in 1..MaxJobs
  BY <1>2, <1>4, Bounds
<1> QED
  BY <1>2, <1>3, <1>4, <1>6, <1>7, <1>8, <1>9, <1>10

-----------------------------------------------------------------------------
(* Collections *)

LEMMA CollectionSteps ==
    ASSUME MInv, NEW k \in Collections,
           CreateCollection(k) \/ ChangeCollection(k) \/ PublishVersion(k)
              \/ DeleteCollection(k)
    PROVE  MInv'
<1>1. /\ TypeOK /\ Candidates /\ Migrations /\ Jobs /\ Edits /\ Entries /\ Owners /\ Latest
      /\ UNCHANGED <<source, rules, migration, job, history, edit>>
  BY DEF MInv, CreateCollection, ChangeCollection, PublishVersion, DeleteCollection
<1>2. /\ Candidates' /\ Migrations' /\ Jobs' /\ Edits' /\ Entries' /\ Latest'
  <2>1. Candidates' /\ Migrations'
    BY <1>1 DEF Candidates, Migrations, SameSource, Shown
  <2>2. Jobs' /\ Edits'
    BY <1>1 DEF Jobs, Edits, SameSource, Shown, VersionOf
  <2>3. Entries' /\ Latest'
    BY <1>1 DEF Entries, Latest, Waits
  <2> QED
    BY <2>1, <2>2, <2>3
<1>3. collections \in [Collections -> Collection] /\ collections[k] \in Collection
  BY <1>1 DEF TypeOK
<1>4. ASSUME NEW st \in {"absent", "active", "archived", "deleted"},
             collections' = [collections EXCEPT ![k].status = st]
      PROVE  /\ collections' \in [Collections -> Collection] /\ collections'[k].status = st
             /\ \A j \in Collections : j # k => collections'[j] = collections[j]
  <2>1. collections' = [collections EXCEPT ![k] = [collections[k] EXCEPT !.status = st]]
    BY <1>3, <1>4
  <2>2. /\ [collections[k] EXCEPT !.status = st] \in Collection
        /\ [collections[k] EXCEPT !.status = st].status = st
    BY <1>3 DEF Collection
  <2> QED
    BY <1>3, <2>1, <2>2
<1>5. \A n \in DOMAIN history :
         history[n].resource \in Collections \cup {None}
         /\ history[n].operation \in Collections \cup {None}
  BY <1>1, HistoryTypes DEF Entry
<1>6. CASE CreateCollection(k)
  <2>1. /\ collections' \in [Collections -> Collection]
        /\ \A j \in Collections : Present(j) => Present(j)'
    BY <1>4, <1>6 DEF CreateCollection, Present
  <2>2. TypeOK'
    BY <1>1, <1>6, <2>1 DEF TypeOK, CreateCollection
  <2>3. Owners'
    BY <1>1, <1>5, <2>1, RowTypes DEF Owners, Present
  <2> QED
    BY <1>2, <2>2, <2>3 DEF MInv
<1>7. CASE ChangeCollection(k)
  <2>1. PICK st \in {"active", "archived"} :
           collections' = [collections EXCEPT ![k].status = st]
    BY <1>7 DEF ChangeCollection
  <2>2. /\ collections' \in [Collections -> Collection]
        /\ \A j \in Collections : Present(j) => Present(j)'
    BY <1>4, <2>1 DEF Present
  <2>3. TypeOK'
    BY <1>1, <1>7, <2>2 DEF TypeOK, ChangeCollection
  <2>4. Owners'
    BY <1>1, <1>5, <2>2, RowTypes DEF Owners, Present
  <2> QED
    BY <1>2, <2>3, <2>4 DEF MInv
<1>8. CASE DeleteCollection(k)
  <2>1. /\ collections' \in [Collections -> Collection]
        /\ \A j \in Collections : j # k /\ Present(j) => Present(j)'
    BY <1>4, <1>8 DEF DeleteCollection, Present
  <2>2. TypeOK'
    BY <1>1, <1>8, <2>1 DEF TypeOK, DeleteCollection
  <2>3. /\ source.lifecycle # "deleted" => source.collection # k
        /\ \A n \in DOMAIN history : history[n].resource # k /\ history[n].operation # k
    BY <1>8 DEF DeleteCollection, HasSources, Owns
  <2>4. Owners'
    BY <1>1, <1>5, <2>1, <2>3, RowTypes DEF Owners, Present
  <2> QED
    BY <1>2, <2>2, <2>4 DEF MInv
<1>9. CASE PublishVersion(k)
  <2>1. /\ versions \in Seq(Collections) /\ Len(versions) \in Nat /\ Len(versions) < MaxVersions
        /\ versions' = Append(versions, k)
        /\ collections' = [collections EXCEPT ![k].active = Len(versions')]
    BY <1>1, <1>9 DEF PublishVersion, TypeOK
  <2>2. /\ versions' \in Seq(Collections) /\ Len(versions') = Len(versions) + 1
    BY <2>1
  <2>3. Len(versions') <= MaxVersions /\ Len(versions') \in Version
    BY <2>1, <2>2, Bounds DEF Version, Legacy
  <2>4. /\ collections' \in [Collections -> Collection]
        /\ \A j \in Collections : collections'[j].status = collections[j].status
    <3>1. collections' = [collections EXCEPT ![k] = [collections[k] EXCEPT !.active = Len(versions')]]
      BY <1>3, <2>1
    <3>2. /\ [collections[k] EXCEPT !.active = Len(versions')] \in Collection
          /\ [collections[k] EXCEPT !.active = Len(versions')].status = collections[k].status
      BY <1>3, <2>3 DEF Collection
    <3> QED
      BY <1>3, <3>1, <3>2
  <2>5. TypeOK'
    BY <1>1, <2>2, <2>3, <2>4 DEF TypeOK
  <2>6. Owners'
    BY <1>1, <1>5, <2>4, RowTypes DEF Owners, Present
  <2> QED
    BY <1>2, <2>5, <2>6 DEF MInv
<1> QED
  BY <1>6, <1>7, <1>8, <1>9

-----------------------------------------------------------------------------
(* Migrations *)

LEMMA StartMigrationStep == ASSUME MInv, StartMigration PROVE MInv'
<1>1. /\ TypeOK /\ Candidates /\ Migrations /\ Jobs /\ Edits /\ Entries /\ Owners /\ Latest
      /\ UNCHANGED <<collections, versions, rules, job, history, edit>>
      /\ edit = None /\ source.pending = None /\ ~RunActive /\ ~OperationActive
  BY DEF MInv, StartMigration, ApiFree
<1>2. PICK v \in DOMAIN versions :
         /\ migration' = [target |-> v, status |-> source.status,
                          candidate |-> source.candidate]
         /\ source' = [source EXCEPT !.pending = v, !.stage = "awaiting_compile",
                                     !.status = "draft"]
  BY DEF StartMigration
<1>3. v \in Version /\ v # Legacy /\ v # None
  BY <1>1, Bounds DEF TypeOK, Version, Legacy
<1>4. /\ source' \in Source /\ source'.pending = v /\ source'.stage = "awaiting_compile"
      /\ source'.status = "draft" /\ source'.definition = source.definition
      /\ source'.collection = source.collection /\ source'.version = source.version
      /\ source'.candidate = source.candidate /\ source'.rule = source.rule
      /\ source'.lifecycle = source.lifecycle /\ source'.moved = source.moved
      /\ source'.operation = source.operation
  BY <1>1, <1>2, <1>3 DEF TypeOK, Source, Status
<1>5. /\ migration' \in Migration /\ migration' # None /\ migration'.target = v
      /\ migration'.status = source.status /\ migration'.candidate = source.candidate
  <2>1. migration' \in Migration
    BY <1>1, <1>2, <1>3, RowTypes DEF Migration
  <2> QED
    BY <1>2, <2>1, NoneAssumption
<1>6. TypeOK'
  BY <1>1, <1>4, <1>5 DEF TypeOK
<1>7. Candidates'
  <2>1. source.candidate # None => source.candidate.version = source.version
    <3>1. source.candidate # None => source.candidate.version \in Version
      BY <1>1, RowTypes DEF Spec_
    <3> QED
      BY <1>1, <3>1, Bounds DEF Candidates
  <2> QED
    BY <1>1, <1>4, <2>1 DEF Candidates, SameSource, Shown, Contract
<1>8. Migrations'
  <2>1. source.candidate # None => source.candidate.version = source.version
    <3>1. source.candidate # None => source.candidate.version \in Version
      BY <1>1, RowTypes DEF Spec_
    <3> QED
      BY <1>1, <3>1, Bounds DEF Candidates
  <2>2. "awaiting_compile" # None
    BY NoneAssumption
  <2> QED
    BY <1>1, <1>3, <1>4, <1>5, <2>1, <2>2 DEF Migrations, Candidates, SameSource, Shown
<1>9. job = None
  BY <1>1 DEF Jobs, RunActive, OperationActive
<1>10. Jobs' /\ Edits'
  BY <1>1, <1>9 DEF Jobs, Edits
<1>11. Entries' /\ Owners' /\ Latest'
  BY <1>1, <1>4, HistoryKept
<1> QED
  BY <1>6, <1>7, <1>8, <1>10, <1>11 DEF MInv

LEMMA CancelMigrationStep == ASSUME MInv, CancelMigration PROVE MInv'
<1>1. /\ TypeOK /\ Candidates /\ Migrations /\ Jobs /\ Edits /\ Entries /\ Owners /\ Latest
      /\ UNCHANGED <<collections, versions, rules, job, history, edit>>
      /\ edit = None /\ migration # None /\ migration' = None /\ ~OperationActive
  BY DEF MInv, CancelMigration, ApiFree
<1>2. source' = [source EXCEPT !.status = migration.status,
                               !.candidate = migration.candidate,
                               !.pending = None, !.stage = None, !.operation = None]
  BY DEF CancelMigration
<1>3. migration.status \in Status /\ migration.candidate \in Spec_ \cup {None}
  BY <1>1 DEF TypeOK, Migration
<1>4. /\ source' \in Source /\ source'.pending = None /\ source'.stage = None
      /\ source'.status = migration.status /\ source'.candidate = migration.candidate
      /\ source'.definition = source.definition
      /\ source'.collection = source.collection /\ source'.version = source.version
      /\ source'.rule = source.rule
      /\ source'.lifecycle = source.lifecycle /\ source'.moved = source.moved
  BY <1>1, <1>2, <1>3 DEF TypeOK, Source
<1>5. TypeOK'
  BY <1>1, <1>4 DEF TypeOK
<1>6. Candidates'
  BY <1>1, <1>4 DEF Candidates, Migrations, SameSource, Shown, Contract
<1>7. Migrations'
  <2>1. None # Legacy /\ None # "ready_review"
    BY Bounds, NoneAssumption DEF Version, Legacy
  <2> QED
    BY <1>1, <1>4, <2>1 DEF Migrations
<1>8. job # None => job.kind = "run" /\ job.context = None
  BY <1>1 DEF Jobs, OperationActive
<1>9. Jobs' /\ Edits'
  BY <1>1, <1>8 DEF Jobs, Edits
<1>10. Entries' /\ Owners' /\ Latest'
  <2>1. source'.candidate # None => source.candidate # None
    BY <1>1, <1>4 DEF Migrations
  <2> QED
    BY <1>1, <1>4, <2>1, HistoryKept
<1> QED
  BY <1>5, <1>6, <1>7, <1>9, <1>10 DEF MInv

-----------------------------------------------------------------------------
(* The source's own definition, life and collection *)

LEMMA NoMigrationFields ==
    ASSUME TypeOK, Candidates, Migrations, source.pending = None
    PROVE  /\ migration = None /\ source.stage = None
           /\ source.candidate # None => source.candidate.version = source.version
<1>1. source.candidate # None => source.candidate.version \in Version
  BY RowTypes DEF Spec_
<1> QED
  BY <1>1, Bounds DEF Candidates, Migrations

LEMMA ChangeDefinitionStep == ASSUME MInv, ChangeDefinition PROVE MInv'
<1>1. /\ TypeOK /\ Candidates /\ Migrations /\ Jobs /\ Edits /\ Entries /\ Owners /\ Latest
      /\ UNCHANGED <<collections, versions, rules, migration, job, history, edit>>
      /\ edit = None /\ job = None /\ source.pending = None
      /\ source.revision < MaxCommands
  BY DEF MInv, ChangeDefinition, ApiFree
<1>2. PICK d \in Definitions :
         source' = LET s == IF d = source.definition THEN source ELSE Invalidated(source)
                   IN  Managed([s EXCEPT !.definition = d])
  BY DEF ChangeDefinition
<1>3. migration = None /\ source.stage = None
  BY <1>1, NoMigrationFields
<1>4. source.revision + 1 \in 0..MaxCommands
  BY <1>1, RowTypes, Bounds
<1>5. /\ source' \in Source /\ source'.pending = None /\ source'.stage = None
      /\ source'.definition = d
      /\ source'.collection = source.collection /\ source'.version = source.version
      /\ source'.lifecycle = source.lifecycle /\ source'.moved = source.moved
  BY <1>1, <1>2, <1>3, <1>4 DEF TypeOK, Source, Status, Managed, Invalidated
<1>6. d = source.definition =>
         /\ source'.candidate = source.candidate /\ source'.rule = source.rule
         /\ source'.status = source.status
  BY <1>1, <1>2 DEF TypeOK, Source, Managed
<1>7. d # source.definition =>
         source'.candidate = None /\ source'.rule = None /\ source'.status = "draft"
  BY <1>1, <1>2 DEF TypeOK, Source, Managed, Invalidated
<1>8. TypeOK'
  BY <1>1, <1>5 DEF TypeOK
<1>9. Candidates'
  BY <1>1, <1>5, <1>6, <1>7 DEF Candidates, SameSource, Shown, Contract
<1>10. Migrations'
  BY <1>1, <1>3, <1>5, NoneAssumption DEF Migrations
<1>11. Jobs' /\ Edits'
  BY <1>1 DEF Jobs, Edits
<1>12. Entries' /\ Owners' /\ Latest'
  BY <1>1, <1>5, <1>6, <1>7, HistoryKept
<1> QED
  BY <1>8, <1>9, <1>10, <1>11, <1>12 DEF MInv

\* Whom history_snapshot names: nobody else than the entry was made for.
LEMMA OwnerFacts ==
    ASSUME TypeOK, Entries, Owners, NEW n \in DOMAIN history
    PROVE  /\ ResourceOwner(history[n]) \in {history[n].made, None}
           /\ OperationOwner(history[n]) \in {history[n].made, None}
           /\ ResourceOwner(history[n]) # None => Present(ResourceOwner(history[n]))
           /\ OperationOwner(history[n]) # None => Present(OperationOwner(history[n]))
           /\ history[n].resource # None => ResourceOwner(history[n]) = history[n].resource
           /\ history[n].operation # None => OperationOwner(history[n]) = history[n].operation
<1>1. history[n].made \in Collections /\ source.collection \in Collections
  BY HistoryTypes, RowTypes DEF Entry
<1>2. /\ history[n].resource \in {history[n].made, None}
      /\ history[n].operation \in {history[n].made, None}
      /\ ~source.moved => history[n].made = source.collection
      /\ history[n].rule # None => rules[history[n].rule].collection = history[n].made
      /\ history[n].resource # None => Present(history[n].resource)
      /\ history[n].operation # None => Present(history[n].operation)
  BY DEF Entries, Owners
<1>3. /\ RuleAttribution(history[n].rule) \in {history[n].made, None}
      /\ RuleAttribution(history[n].rule) # None => Present(history[n].made)
  BY <1>1, <1>2, Attributed DEF RuleAttribution
<1>4. /\ Attribution(source.collection) \in {source.collection, None}
      /\ Attribution(source.collection) # None => Present(source.collection)
  BY <1>1, Attributed
<1>5. /\ ResourceOwner(history[n]) \in {history[n].made, None}
      /\ ResourceOwner(history[n]) # None => Present(history[n].made)
      /\ history[n].resource # None => ResourceOwner(history[n]) = history[n].resource
  BY <1>2, <1>3, <1>4 DEF ResourceOwner
<1>6. /\ OperationOwner(history[n]) \in {history[n].made, None}
      /\ OperationOwner(history[n]) # None => Present(history[n].made)
      /\ history[n].operation # None => OperationOwner(history[n]) = history[n].operation
  BY <1>2, <1>4, <1>5 DEF OperationOwner
<1>7. /\ ResourceOwner(history[n]) # None => ResourceOwner(history[n]) = history[n].made
      /\ OperationOwner(history[n]) # None => OperationOwner(history[n]) = history[n].made
  BY <1>5, <1>6
<1> QED
  BY <1>5, <1>6, <1>7

\* freeze_history writes down the owners it finds, and nothing else.
LEMMA FrozenFacts ==
    ASSUME TypeOK, Entries, Owners, history' = Frozen
    PROVE  /\ history' \in Seq(Entry) /\ Len(history') = Len(history)
           /\ DOMAIN history' = DOMAIN history
           /\ \A n \in DOMAIN history :
                 /\ history'[n].resource = ResourceOwner(history[n])
                 /\ history'[n].operation = OperationOwner(history[n])
                 /\ history'[n].made = history[n].made
                 /\ history'[n].rule = history[n].rule
                 /\ history'[n].review = history[n].review
<1>1. PICK k \in Nat : k = Len(history)
  BY HistoryTypes
<1>2. DOMAIN history = 1..k
  BY <1>1, HistoryTypes
<1>3. \A n \in 1..k : history[n] \in Entry
  BY <1>2, HistoryTypes
<1>4. \A n \in 1..k : /\ ResourceOwner(history[n]) \in Collections \cup {None}
                      /\ OperationOwner(history[n]) \in Collections \cup {None}
  <2> SUFFICES ASSUME NEW n \in 1..k
               PROVE  /\ ResourceOwner(history[n]) \in Collections \cup {None}
                      /\ OperationOwner(history[n]) \in Collections \cup {None}
    OBVIOUS
  <2>1. history[n].made \in Collections
    BY <1>3 DEF Entry
  <2> QED
    BY <1>2, <2>1, OwnerFacts
<1>5. /\ DOMAIN history' = 1..k
      /\ \A n \in 1..k : history'[n] =
            [history[n] EXCEPT !.resource = ResourceOwner(history[n]),
                               !.operation = OperationOwner(history[n])]
      /\ history' = [n \in 1..k |-> history'[n]]
  BY <1>2 DEF Frozen
<1>6. \A n \in 1..k :
         /\ history'[n] \in Entry
         /\ history'[n].resource = ResourceOwner(history[n])
         /\ history'[n].operation = OperationOwner(history[n])
         /\ history'[n].made = history[n].made /\ history'[n].rule = history[n].rule
         /\ history'[n].review = history[n].review
  <2> SUFFICES ASSUME NEW n \in 1..k
               PROVE  /\ history'[n] \in Entry
                      /\ history'[n].resource = ResourceOwner(history[n])
                      /\ history'[n].operation = OperationOwner(history[n])
                      /\ history'[n].made = history[n].made /\ history'[n].rule = history[n].rule
                      /\ history'[n].review = history[n].review
    OBVIOUS
  <2>1. PICK a \in Collections \cup {None}, b \in Collections \cup {None} :
           a = ResourceOwner(history[n]) /\ b = OperationOwner(history[n])
    BY <1>4
  <2>2. history'[n] = [history[n] EXCEPT !.resource = a, !.operation = b]
    BY <1>5, <2>1
  <2>3. history[n] \in Entry
    BY <1>3
  <2> QED
    BY <2>1, <2>2, <2>3 DEF Entry
<1>7. history' \in Seq(Entry) /\ Len(history') = k
  <2>1. history' \in [1..k -> Entry]
    BY <1>5, <1>6
  <2>2. history' \in Seq(Entry)
    BY <1>1, <2>1
  <2>3. history' = [n \in 1..k |-> history'[n]]
    BY <1>5
  <2>4. Len(history') = k
    BY <1>1, <2>2, <2>3
  <2> QED
    BY <2>2, <2>4
<1> QED
  BY <1>1, <1>2, <1>5, <1>6, <1>7

\* A history that is frozen while the source stays where it is.
LEMMA FrozenKept ==
    ASSUME MInv, history' = Frozen, UNCHANGED <<collections, rules>>,
           source'.collection = source.collection \/ ~Unresolved,
           source'.moved = source.moved \/ source'.moved = TRUE,
           ~source'.moved => source'.collection = source.collection
    PROVE  /\ Entries'
           /\ \A n \in DOMAIN history' :
                 /\ history'[n].resource # None => Present(history'[n].resource)
                 /\ history'[n].operation # None => Present(history'[n].operation)
<1>1. TypeOK /\ Entries /\ Owners
  BY DEF MInv
<1>2. ASSUME NEW n \in DOMAIN history
      PROVE  /\ {history'[n].resource, history'[n].operation} \subseteq {history'[n].made, None}
             /\ source'.collection # history'[n].made =>
                   None \notin {history'[n].resource, history'[n].operation}
             /\ ~source'.moved => history'[n].made = source'.collection
             /\ history'[n].rule # None =>
                   /\ history'[n].rule \in DOMAIN rules
                   /\ rules[history'[n].rule].collection = history'[n].made
             /\ history'[n].resource # None => Present(history'[n].resource)
             /\ history'[n].operation # None => Present(history'[n].operation)
  <2>1. /\ history'[n].resource = ResourceOwner(history[n])
        /\ history'[n].operation = OperationOwner(history[n])
        /\ history'[n].made = history[n].made /\ history'[n].rule = history[n].rule
    BY <1>1, FrozenFacts
  <2>2. /\ ResourceOwner(history[n]) \in {history[n].made, None}
        /\ OperationOwner(history[n]) \in {history[n].made, None}
        /\ ResourceOwner(history[n]) # None => Present(ResourceOwner(history[n]))
        /\ OperationOwner(history[n]) # None => Present(OperationOwner(history[n]))
        /\ history[n].resource # None => ResourceOwner(history[n]) = history[n].resource
        /\ history[n].operation # None => OperationOwner(history[n]) = history[n].operation
    BY <1>1, OwnerFacts
  <2>3. ~Unresolved => None \notin {ResourceOwner(history[n]), OperationOwner(history[n])}
    BY DEF Unresolved
  <2>4. /\ source.collection # history[n].made =>
              None \notin {history[n].resource, history[n].operation}
        /\ ~source.moved => history[n].made = source.collection
        /\ history[n].rule # None =>
              /\ history[n].rule \in DOMAIN rules
              /\ rules[history[n].rule].collection = history[n].made
    BY <1>1 DEF Entries
  <2> QED
    BY <2>1, <2>2, <2>3, <2>4
<1>3. DOMAIN history' = DOMAIN history
  BY <1>1, FrozenFacts
<1>4. Entries'
  BY <1>2, <1>3 DEF Entries
<1> QED
  BY <1>2, <1>3, <1>4

LEMMA ChangeLifecycleStep == ASSUME MInv, ChangeLifecycle PROVE MInv'
<1>1. /\ TypeOK /\ Candidates /\ Migrations /\ Jobs /\ Edits /\ Entries /\ Owners /\ Latest
      /\ UNCHANGED <<collections, versions, rules, migration, job, edit>>
      /\ edit = None /\ job = None /\ source.lifecycle # "deleted"
      /\ source.revision < MaxCommands
  BY DEF MInv, ChangeLifecycle, ApiFree, Blocked
<1>2. PICK l \in {"active", "archived", "deleted"} :
         /\ source' = Managed([source EXCEPT !.lifecycle = l])
         /\ history' = IF l = "deleted" THEN Frozen ELSE history
  BY DEF ChangeLifecycle
<1>3. source.revision + 1 \in 0..MaxCommands
  BY <1>1, RowTypes, Bounds
<1>4. /\ source' \in Source /\ SameBinding(source', source)
      /\ source'.stage = source.stage /\ source'.status = source.status
      /\ source'.collection = source.collection /\ source'.moved = source.moved
      /\ source'.candidate = source.candidate
  BY <1>1, <1>2, <1>3 DEF TypeOK, Source, Managed, SameBinding
<1>5. Candidates' /\ Migrations'
  BY <1>1, <1>4, RowKept
<1>6. Jobs' /\ Edits'
  BY <1>1 DEF Jobs, Edits
<1>7. CASE l = "deleted"
  <2>1. history' = Frozen
    BY <1>2, <1>7
  <2>2. TypeOK'
    BY <1>1, <1>4, <2>1, FrozenFacts DEF TypeOK
  <2>3. source'.moved = source.moved /\ (~source'.moved => source'.collection = source.collection)
    BY <1>4
  <2>4. Entries' /\ \A n \in DOMAIN history' :
           /\ history'[n].resource # None => Present(history'[n].resource)
           /\ history'[n].operation # None => Present(history'[n].operation)
    BY <1>1, <1>4, <2>1, <2>3, FrozenKept
  <2>5. source'.lifecycle = "deleted"
    BY <1>1, <1>2, <1>7 DEF TypeOK, Source, Managed
  <2>6. Owners'
    BY <1>1, <2>4, <2>5 DEF Owners, Present
  <2>7. Latest'
    BY <1>1, <1>4, <2>1, FrozenFacts DEF Latest, Waits
  <2> QED
    BY <1>5, <1>6, <2>2, <2>4, <2>6, <2>7 DEF MInv
<1>8. CASE l # "deleted"
  <2>1. TypeOK'
    BY <1>1, <1>2, <1>4, <1>8 DEF TypeOK
  <2>2. Entries' /\ Owners' /\ Latest'
    BY <1>1, <1>2, <1>4, <1>8, HistoryKept
  <2> QED
    BY <1>5, <1>6, <2>1, <2>2 DEF MInv
<1> QED
  BY <1>7, <1>8

LEMMA ReassignStep == ASSUME MInv, Reassign PROVE MInv'
<1>1. /\ TypeOK /\ Candidates /\ Migrations /\ Jobs /\ Edits /\ Entries /\ Owners /\ Latest
      /\ UNCHANGED <<collections, versions, rules, migration, job, edit>>
      /\ edit = None /\ job = None /\ source.pending = None /\ migration = None
      /\ source.revision < MaxCommands /\ history' = Frozen /\ ~Unresolved
  BY DEF MInv, Reassign, ApiFree, Blocked
<1>2. PICK k \in Collections, d \in Definitions :
         /\ collections[k].status = "active"
         /\ source' = Managed([Invalidated(source) EXCEPT
                                  !.collection = k, !.version = collections[k].active,
                                  !.definition = d, !.moved = TRUE])
  BY DEF Reassign
<1>3. source.revision + 1 \in 0..MaxCommands /\ collections[k].active \in Version
  BY <1>1, RowTypes, Bounds DEF TypeOK, Collection
<1>4. /\ source' \in Source /\ source'.pending = None /\ source'.stage = source.stage
      /\ source'.candidate = None /\ source'.rule = None /\ source'.status = "draft"
      /\ source'.moved = TRUE /\ source'.collection = k
  BY <1>1, <1>2, <1>3, ZenonT(60) DEF TypeOK, Source, Status, Managed, Invalidated
<1>5. TypeOK'
  BY <1>1, <1>4, FrozenFacts DEF TypeOK
<1>6. Candidates'
  BY <1>4 DEF Candidates
<1>7. Migrations'
  BY <1>1, <1>4, NoneAssumption, NoMigrationFields DEF Migrations
<1>8. Jobs' /\ Edits'
  BY <1>1 DEF Jobs, Edits
<1>9. Entries' /\ \A n \in DOMAIN history' :
         /\ history'[n].resource # None => Present(history'[n].resource)
         /\ history'[n].operation # None => Present(history'[n].operation)
  BY <1>1, <1>4, FrozenKept
<1>10. Owners'
  BY <1>1, <1>2, <1>4, <1>9 DEF Owners, Present
<1>11. Latest'
  BY <1>4 DEF Latest
<1> QED
  BY <1>5, <1>6, <1>7, <1>8, <1>9, <1>10, <1>11 DEF MInv

-----------------------------------------------------------------------------
(* Explorations and runs *)

LEMMA RecordedFacts ==
    ASSUME TypeOK, Candidates, NEW kind \in {"ai_run", "run"},
           NEW rule, rule = None \/ (rule = source.rule /\ rule # None)
    PROVE  /\ Recorded(kind, rule) \in Entry
           /\ Recorded(kind, rule).made = source.collection
           /\ {Recorded(kind, rule).resource, Recorded(kind, rule).operation}
                 \subseteq {source.collection, None}
           /\ Recorded(kind, rule).resource # None \/ Recorded(kind, rule).operation # None
                 => Present(source.collection)
           /\ Recorded(kind, rule).review = "not_ready"
           /\ Recorded(kind, rule).rule # None =>
                 /\ Recorded(kind, rule).rule \in DOMAIN rules
                 /\ rules[Recorded(kind, rule).rule].collection = source.collection
<1>1. source.collection \in Collections /\ source.rule \in 1..MaxJobs \cup {None}
  BY RowTypes
<1>2. rule # None => rule \in DOMAIN rules /\ rules[rule].collection = source.collection
  BY DEF Candidates, Contract
<1>3. PICK own : own = RuleAttribution(rule)
  OBVIOUS
<1>4. PICK here : here = Attribution(source.collection)
  OBVIOUS
<1>5. /\ here \in {source.collection, None} /\ (here # None => Present(source.collection))
      /\ own \in {source.collection, None} /\ (own # None => Present(source.collection))
  BY <1>1, <1>2, <1>3, <1>4, Attributed DEF RuleAttribution
<1>6. Recorded(kind, rule) =
         [kind |-> kind, made |-> source.collection, review |-> "not_ready",
          rule |-> rule, resource |-> IF own # None THEN own ELSE here, operation |-> here]
  BY <1>3, <1>4 DEF Recorded
<1>7. Recorded(kind, rule) \in Entry
  BY <1>1, <1>5, <1>6 DEF Entry
<1> QED
  BY <1>2, <1>5, <1>6, <1>7

\* create_async_command: the entry, the job and the row that names the operation.
LEMMA EnqueueStep ==
    ASSUME MInv, NEW kind \in {"explore", "repair", "run"}, NEW e \in Entry,
           NEW status \in Status,
           e.made = source.collection,
           {e.resource, e.operation} \subseteq {source.collection, None},
           e.resource # None \/ e.operation # None => Present(source.collection),
           e.review = "not_ready",
           e.rule # None => /\ e.rule \in DOMAIN rules
                            /\ rules[e.rule].collection = source.collection,
           Enqueue(kind, e, status),
           kind # "run" => status = "exploring" /\ edit = None,
           kind = "run" => status = source.status,
           kind = "repair" => source.pending = None /\ source.candidate # None
    PROVE  MInv'
<1>1. /\ TypeOK /\ Candidates /\ Migrations /\ Jobs /\ Edits /\ Entries /\ Owners /\ Latest
      /\ UNCHANGED <<collections, versions, rules, migration, edit>>
      /\ job = None /\ Len(history) < MaxJobs /\ history' = Append(history, e)
  BY DEF MInv, Enqueue
<1>2. PICK o : o = Len(history')
  OBVIOUS
<1>3. /\ job' = [kind |-> kind, operation |-> o, previous |-> source.status,
                 revision |-> source.revision, context |-> None]
      /\ source' = [source EXCEPT !.status = status, !.operation = o]
  BY <1>2 DEF Enqueue
<1>4. /\ Len(history') \in Nat /\ Len(history') = Len(history) + 1
      /\ o \in 1..MaxJobs
  <2>1. Len(history) \in Nat /\ history \in Seq(Entry)
    BY <1>1, HistoryTypes DEF TypeOK
  <2>2. Len(history') = Len(history) + 1
    BY <1>1, <2>1
  <2> QED
    BY <1>1, <1>2, <2>1, <2>2, Bounds
<1>5. /\ source' \in Source /\ SameBinding(source', source)
      /\ source'.stage = source.stage /\ source'.status = status
      /\ source'.operation = o
      /\ source'.collection = source.collection /\ source'.moved = source.moved
      /\ source'.lifecycle = source.lifecycle
      /\ source'.candidate = source.candidate /\ source'.rule = source.rule
      /\ source'.pending = source.pending
  BY <1>1, <1>3, <1>4 DEF TypeOK, Source, SameBinding
<1>6. job' \in Job /\ job' # None
  BY <1>1, <1>3, <1>4, RowTypes, NoneAssumption DEF Job
<1>7. /\ Entries' /\ Owners' /\ Latest'
      /\ history' \in Seq(Entry) /\ Len(history') <= MaxJobs
      /\ o \in DOMAIN history' /\ history'[o] = e
  BY <1>1, <1>2, <1>5, EntryAdded
<1>8. TypeOK'
  BY <1>1, <1>5, <1>6, <1>7 DEF TypeOK
<1>9. Candidates' /\ Migrations'
  <2>1. "exploring" # "published"
    OBVIOUS
  <2> QED
    BY <1>1, <1>5, <2>1, RowKept
<1>10. Jobs'
  <2>1. source.status = "published" => Shown(source.candidate)
    BY <1>1 DEF Candidates
  <2>3. /\ job'.kind = kind /\ job'.operation = o /\ job'.previous = source.status
        /\ job'.context = None
    BY <1>3
  <2> QED
    BY <1>1, <1>2, <1>5, <1>6, <1>7, <2>1, <2>3 DEF Jobs, Shown
<1>11. Edits'
  <2>1. ASSUME edit # None
        PROVE  /\ edit = [source' EXCEPT !.operation = None] /\ kind = "run"
               /\ edit.candidate # None /\ edit.candidate.edits < MaxEdits
    <3>1. kind = "run" /\ status = source.status
      BY <2>1
    <3>2. edit = [source EXCEPT !.operation = None]
      BY <1>1, <2>1 DEF Edits
    <3>3. source' = [source EXCEPT !.operation = o]
      BY <1>1, <1>3, <3>1 DEF TypeOK, Source
    <3>4. [source' EXCEPT !.operation = None] = [source EXCEPT !.operation = None]
      BY <1>1, <3>3 DEF TypeOK, Source
    <3> QED
      BY <1>1, <2>1, <3>1, <3>2, <3>4 DEF Edits
  <2>2. job'.kind = kind
    BY <1>3
  <2> QED
    BY <1>1, <2>1, <2>2 DEF Edits
<1> QED
  BY <1>7, <1>8, <1>9, <1>10, <1>11 DEF MInv

LEMMA StartSteps ==
    ASSUME MInv, StartExploration \/ StartRepair \/ StartRun PROVE MInv'
<1>1. TypeOK /\ Candidates
  BY DEF MInv
<1>2. CASE StartExploration
  <2>1. Enqueue("explore", Recorded("ai_run", None), "exploring") /\ edit = None
    BY <1>2 DEF StartExploration, ApiFree
  <2>2. "exploring" \in Status
    BY DEF Status
  <2> QED
    BY <1>1, <2>1, <2>2, RecordedFacts, EnqueueStep
<1>3. CASE StartRepair
  <2>1. /\ Enqueue("repair", Recorded("ai_run", None), "exploring") /\ edit = None
        /\ source.pending = None /\ source.candidate # None
    BY <1>3 DEF StartRepair, ApiFree
  <2>2. "exploring" \in Status
    BY DEF Status
  <2> QED
    BY <1>1, <2>1, <2>2, RecordedFacts, EnqueueStep
<1>4. CASE StartRun
  <2>1. Enqueue("run", Recorded("run", source.rule), source.status) /\ source.rule # None
    BY <1>4 DEF StartRun
  <2>2. source.status \in Status
    BY <1>1, RowTypes
  <2> QED
    BY <1>1, <2>1, <2>2, RecordedFacts, EnqueueStep
<1> QED
  BY <1>2, <1>3, <1>4

\* A worker takes the job up, or is lost and another does.
LEMMA TakeUpSteps == ASSUME MInv, Begin \/ Reclaim PROVE MInv'
<1>1. /\ TypeOK /\ Candidates /\ Migrations /\ Jobs /\ Edits /\ Entries /\ Owners /\ Latest
      /\ UNCHANGED <<source, collections, versions, rules, migration, history, edit>>
      /\ job # None /\ job \in Job
  BY DEF MInv, Begin, Reclaim, TypeOK
<1>2. PICK c \in Context \cup {None} :
         /\ job' = [job EXCEPT !.context = c]
         /\ c # None =>
               /\ job.kind # "run" /\ SameSource(c) /\ c.version = VersionOf(source)
               /\ c.migrating <=> source.stage # None
  <2>1. CASE Reclaim
    BY <2>1 DEF Reclaim
  <2>2. CASE Begin
    <3>1. PICK v : v = IF job.kind = "repair" /\ source.candidate # None
                       THEN source.candidate.version ELSE VersionOf(source)
      OBVIOUS
    <3>2. PICK c : c = [definition |-> source.definition, collection |-> source.collection,
                        version |-> v, migrating |-> source.stage # None]
      OBVIOUS
    <3>3. job.kind # "run" /\ job' = [job EXCEPT !.context = c]
      BY <2>2, <3>1, <3>2 DEF Begin
    <3>4. job.kind = "repair" => source.pending = None
      BY <1>1, <3>3 DEF Jobs
    <3>5. source.pending = None /\ source.candidate # None =>
             source.candidate.version = source.version
      BY <1>1, NoMigrationFields
    <3>6. v = VersionOf(source) /\ v \in Version
      BY <1>1, <3>1, <3>4, <3>5, RowTypes DEF VersionOf
    <3>7. c \in Context
      BY <1>1, <3>2, <3>6, RowTypes DEF Context
    <3>8. SameSource(c) /\ c.version = v /\ c.migrating = (source.stage # None)
      BY <3>2 DEF SameSource
    <3> QED
      BY <3>3, <3>6, <3>7, <3>8
  <2> QED
    BY <2>1, <2>2
<1>3. /\ job' \in Job /\ job' # None /\ job'.context = c /\ job'.kind = job.kind
      /\ job'.operation = job.operation /\ job'.previous = job.previous
  <2>1. job' \in Job
    BY <1>1, <1>2 DEF Job
  <2> QED
    BY <1>1, <1>2, <2>1, NoneAssumption DEF Job
<1>4. TypeOK'
  BY <1>1, <1>3 DEF TypeOK
<1>5. Candidates' /\ Migrations'
  BY <1>1 DEF Candidates, Migrations, SameSource, Shown
<1>6. Jobs'
  BY <1>1, <1>2, <1>3 DEF Jobs, SameSource, Shown, VersionOf
<1>7. Edits'
  BY <1>1, <1>3 DEF Edits
<1>8. Entries' /\ Owners' /\ Latest'
  BY <1>1, HistoryKept
<1> QED
  BY <1>4, <1>5, <1>6, <1>7, <1>8 DEF MInv

LEMMA CommitExplorationStep == ASSUME MInv, CommitExploration PROVE MInv'
<1>1. /\ TypeOK /\ Candidates /\ Migrations /\ Jobs /\ Edits /\ Entries /\ Owners /\ Latest
      /\ UNCHANGED <<collections, versions, rules, migration, edit>>
      /\ job # None /\ job.context # None /\ job' = None /\ job \in Job
  BY DEF MInv, CommitExploration, TypeOK
<1>2. /\ job.kind # "run" /\ edit = None /\ job.operation \in DOMAIN history
      /\ history[job.operation].made = source.collection
      /\ job.operation = Len(history)
      /\ SameSource(job.context) /\ job.context.version = VersionOf(source)
      /\ job.context.migrating <=> source.stage # None
  BY <1>1 DEF Jobs
<1>3. PICK spec : spec = [definition |-> job.context.definition,
                          collection |-> job.context.collection,
                          version |-> job.context.version,
                          job |-> job.operation, edits |-> 0]
  OBVIOUS
<1>4. spec \in Spec_
  <2>1. job.context \in Context /\ job.operation \in 1..MaxJobs
    BY <1>1 DEF Job
  <2> QED
    BY <1>3, <2>1, Bounds DEF Context, Spec_
<1>5. /\ spec.definition = source.definition /\ spec.collection = source.collection
      /\ spec.version = VersionOf(source) /\ spec # None
  BY <1>2, <1>3, <1>4, NoneAssumption DEF SameSource
<1>6. source' = [source EXCEPT
           !.status = "ready_review", !.operation = None, !.candidate = spec,
           !.stage = IF job.context.migrating THEN "ready_review" ELSE @]
  BY <1>3 DEF CommitExploration
<1>7. PICK stage \in {"awaiting_compile", "ready_review", "failed", None} :
         /\ stage = IF job.context.migrating THEN "ready_review" ELSE source.stage
         /\ source' = [source EXCEPT !.status = "ready_review", !.operation = None,
                                     !.candidate = spec, !.stage = stage]
  BY <1>1, <1>6, RowTypes
<1>8. /\ source' \in Source /\ source'.status = "ready_review" /\ source'.candidate = spec
      /\ source'.stage = stage /\ source'.definition = source.definition
      /\ source'.collection = source.collection /\ source'.version = source.version
      /\ source'.pending = source.pending /\ source'.rule = source.rule
      /\ source'.lifecycle = source.lifecycle /\ source'.moved = source.moved
  BY <1>1, <1>4, <1>7 DEF TypeOK, Source, Status
<1>9. (stage = None <=> source.stage = None) /\ (stage = "ready_review" => source.stage # None)
  BY <1>2, <1>7, NoneAssumption
<1>10. PICK o : o = job.operation
  OBVIOUS
<1>11. /\ history' \in Seq(Entry) /\ Len(history') = Len(history)
       /\ DOMAIN history' = DOMAIN history
       /\ \A n \in DOMAIN history :
             /\ history'[n].made = history[n].made /\ history'[n].rule = history[n].rule
             /\ history'[n].resource = history[n].resource
             /\ history'[n].operation = history[n].operation
             /\ history'[n].kind = history[n].kind
             /\ history'[n].review = "ready_review" <=> n = o
  <2>1. history' = UnderReview(history, o)
    BY <1>10 DEF CommitExploration
  <2>2. /\ history \in Seq(Entry) /\ \A n \in DOMAIN history : history[n] \in Entry
        /\ DOMAIN history = 1..Len(history) /\ Len(history) \in Nat
    BY <1>1, HistoryTypes DEF TypeOK
  <2>3. DOMAIN history' = DOMAIN history
    BY <2>1 DEF UnderReview
  <2>4. ASSUME NEW n \in DOMAIN history
        PROVE  /\ history'[n] \in Entry
               /\ history'[n].made = history[n].made /\ history'[n].rule = history[n].rule
               /\ history'[n].resource = history[n].resource
               /\ history'[n].operation = history[n].operation
               /\ history'[n].kind = history[n].kind
               /\ history'[n].review = "ready_review" <=> n = o
    <3>1. PICK h : h = history[n]
      OBVIOUS
    <3>2. h \in Entry
      BY <2>2, <3>1
    <3>3. history'[n] = IF n = o THEN [h EXCEPT !.review = "ready_review"]
                        ELSE IF h.review = "ready_review"
                             THEN [h EXCEPT !.review = "superseded"] ELSE h
      BY <2>1, <3>1 DEF UnderReview
    <3> QED
      BY <3>1, <3>2, <3>3 DEF Entry
  <2>5. history' \in Seq(Entry) /\ Len(history') = Len(history)
    <3>1. history' = [n \in 1..Len(history) |-> history'[n]]
      BY <2>1, <2>2, <2>3 DEF UnderReview
    <3> QED
      BY <2>2, <2>4, <3>1
  <2> QED
    BY <2>3, <2>4, <2>5
<1>12. TypeOK'
  BY <1>1, <1>8, <1>11 DEF TypeOK
<1>13. Candidates'
  <2>1. VersionOf(source) \in {source.version, source.pending}
    BY DEF VersionOf
  <2> QED
    BY <1>1, <1>5, <1>8, <2>1 DEF Candidates, SameSource, Shown, Contract
<1>14. Migrations'
  <2>1. source.stage # None => VersionOf(source) = source.pending
    BY <1>1 DEF Migrations, VersionOf
  <2> QED
    BY <1>1, <1>5, <1>8, <1>9, <2>1 DEF Migrations, SameSource, Shown
<1>15. Jobs' /\ Edits'
  BY <1>1, <1>2 DEF Jobs, Edits
<1>16. Entries' /\ Owners'
  BY <1>1, <1>8, <1>11 DEF Entries, Owners, Present
<1>17. Latest'
  <2> SUFFICES ASSUME NEW n \in DOMAIN history', Waits(n)',
                      \A m \in DOMAIN history' : Waits(m)' => m <= n
               PROVE  history'[n].made = source'.collection
    BY DEF Latest
  <2>1. o \in DOMAIN history' /\ Waits(o)' /\ o <= n
    BY <1>2, <1>10, <1>11 DEF Waits
  <2>2. n = o
    <3>1. DOMAIN history = 1..Len(history) /\ Len(history) \in Nat
      BY <1>1, HistoryTypes
    <3> QED
      BY <1>2, <1>10, <1>11, <2>1, <3>1
  <2> QED
    BY <1>2, <1>8, <1>10, <1>11, <2>2
<1> QED
  BY <1>12, <1>13, <1>14, <1>15, <1>16, <1>17 DEF MInv

\* The row no longer names the operation of a run that ended.
LEMMA OperationGone ==
    ASSUME MInv, source' = [source EXCEPT !.operation = None], job' = None,
           job # None, job.kind = "run",
           UNCHANGED <<collections, versions, rules, migration, history, edit>>
    PROVE  MInv'
<1>1. /\ TypeOK /\ Candidates /\ Migrations /\ Jobs /\ Edits /\ Entries /\ Owners /\ Latest
  BY DEF MInv
<1>2. /\ source' \in Source /\ SameBinding(source', source)
      /\ source'.stage = source.stage /\ source'.status = source.status
      /\ source'.collection = source.collection /\ source'.moved = source.moved
      /\ source'.lifecycle = source.lifecycle /\ source'.candidate = source.candidate
      /\ [source' EXCEPT !.operation = None] = [source EXCEPT !.operation = None]
  BY <1>1 DEF TypeOK, Source, SameBinding
<1>3. TypeOK'
  BY <1>1, <1>2 DEF TypeOK
<1>4. Candidates' /\ Migrations'
  BY <1>2, RowKept
<1>5. Jobs' /\ Edits'
  BY <1>1, <1>2 DEF Jobs, Edits
<1>6. Entries' /\ Owners' /\ Latest'
  BY <1>2, HistoryKept
<1> QED
  BY <1>3, <1>4, <1>5, <1>6 DEF MInv

LEMMA EndSteps == ASSUME MInv, CommitRun \/ FailJob PROVE MInv'
<1>1. /\ TypeOK /\ Candidates /\ Migrations /\ Jobs /\ Edits /\ Entries /\ Owners /\ Latest
      /\ UNCHANGED <<collections, versions, rules, migration, history, edit>>
      /\ job # None /\ job' = None /\ job \in Job
  BY DEF MInv, CommitRun, FailJob, RunActive, TypeOK
<1>2. CASE CommitRun \/ (FailJob /\ OperationActive /\ job.kind = "run")
  BY <1>1, <1>2, OperationGone DEF CommitRun, RunActive, FailJob
<1>3. CASE FailJob /\ ~OperationActive
  <2>1. source' = source
    BY <1>3 DEF FailJob
  <2>2. TypeOK'
    BY <1>1, <2>1 DEF TypeOK
  <2>3. Candidates' /\ Migrations' /\ Jobs' /\ Edits'
    BY <1>1, <2>1 DEF Candidates, Migrations, SameSource, Shown, Jobs, Edits
  <2>4. Entries' /\ Owners' /\ Latest'
    BY <1>1, <2>1, HistoryKept
  <2> QED
    BY <2>2, <2>3, <2>4 DEF MInv
<1>4. CASE FailJob /\ OperationActive /\ job.kind # "run"
  <2>1. PICK stage : stage = IF source.stage # None THEN "failed" ELSE source.stage
    OBVIOUS
  <2>2. PICK status : status = job.previous
    OBVIOUS
  <2>3. source' = [source EXCEPT !.operation = None, !.status = status, !.stage = stage]
    BY <1>4, <2>1, <2>2 DEF FailJob
  <2>4. /\ status \in Status /\ stage \in {"failed", None}
        /\ stage = None <=> source.stage = None
    BY <1>1, <2>1, <2>2, NoneAssumption DEF Job
  <2>5. /\ source' \in Source /\ SameBinding(source', source)
        /\ source'.stage = stage /\ source'.status = status
        /\ source'.collection = source.collection /\ source'.moved = source.moved
        /\ source'.lifecycle = source.lifecycle /\ source'.candidate = source.candidate
    BY <1>1, <2>3, <2>4 DEF TypeOK, Source, SameBinding
  <2>6. edit = None /\ (status = "published" => Shown(source.candidate))
    BY <1>1, <1>4, <2>2 DEF Jobs
  <2>7. TypeOK'
    BY <1>1, <2>5 DEF TypeOK
  <2>8. Candidates' /\ Migrations'
    <3>1. stage # "ready_review"
      BY <2>4, NoneAssumption
    <3> QED
      BY <1>1, <2>4, <2>5, <2>6, <3>1, RowKept
  <2>9. Jobs' /\ Edits'
    BY <1>1, <2>6 DEF Jobs, Edits
  <2>10. Entries' /\ Owners' /\ Latest'
    BY <1>1, <2>5, HistoryKept
  <2> QED
    BY <2>7, <2>8, <2>9, <2>10 DEF MInv
<1> QED
  BY <1>2, <1>3, <1>4

-----------------------------------------------------------------------------
(* Editing and publishing the candidate *)

LEMMA EditSteps == ASSUME MInv, ReadForEdit \/ WriteEdit PROVE MInv'
<1>1. /\ TypeOK /\ Candidates /\ Migrations /\ Jobs /\ Edits /\ Entries /\ Owners /\ Latest
      /\ UNCHANGED <<collections, versions, rules, migration, job, history>>
  BY DEF MInv, ReadForEdit, WriteEdit
<1>2. CASE ReadForEdit
  <2>1. /\ edit' = source /\ source' = source /\ source.operation = None /\ ~RunActive
        /\ source.candidate # None /\ source.candidate.edits < MaxEdits
    BY <1>2 DEF ReadForEdit
  <2>2. source \in Source /\ source = [source EXCEPT !.operation = None]
    BY <1>1, <2>1 DEF TypeOK, Source
  <2>3. job = None
    <3>1. job # None => /\ job.kind # "run" /\ source.operation = job.operation
                        /\ job.operation \in 1..MaxJobs
      BY <1>1, <2>1 DEF Jobs, RunActive, TypeOK, Job
    <3> QED
      BY <2>1, <3>1, Bounds
  <2>4. TypeOK'
    BY <1>1, <2>1, <2>2 DEF TypeOK
  <2>5. Candidates' /\ Migrations'
    BY <1>1, <2>1 DEF Candidates, Migrations, SameSource, Shown
  <2>6. Jobs' /\ Edits'
    BY <1>1, <2>1, <2>2, <2>3 DEF Jobs, Edits
  <2>7. Entries' /\ Owners' /\ Latest'
    BY <1>1, <2>1, HistoryKept
  <2> QED
    BY <2>4, <2>5, <2>6, <2>7 DEF MInv
<1>3. CASE WriteEdit
  <2>1. /\ edit # None /\ edit' = None
        /\ edit = [source EXCEPT !.operation = None]
        /\ edit.candidate # None /\ edit.candidate.edits < MaxEdits
        /\ job # None => job.kind = "run"
    BY <1>1, <1>3 DEF WriteEdit, Edits
  <2>2. /\ edit.revision = source.revision /\ edit.lifecycle = source.lifecycle
        /\ edit.candidate = source.candidate /\ source.candidate \in Spec_
    BY <1>1, <2>1, RowTypes DEF TypeOK, Source
  <2>3. PICK spec : spec = [source.candidate EXCEPT !.edits = @ + 1]
    OBVIOUS
  <2>4. source' = [source EXCEPT !.operation = None, !.status = "ready_review",
                                 !.candidate = spec]
    <3>1. source' = [edit EXCEPT !.status = "ready_review", !.candidate.edits = @ + 1]
      BY <1>3, <2>2 DEF WriteEdit, Unmanaged
    <3>2. source' = [edit EXCEPT !.status = "ready_review",
                                 !.candidate = [edit.candidate EXCEPT !.edits = @ + 1]]
      BY <1>1, <2>1, <3>1 DEF TypeOK, Source
    <3>3. source' = [edit EXCEPT !.status = "ready_review", !.candidate = spec]
      BY <2>2, <2>3, <3>2
    <3> QED
      BY <1>1, <2>1, <3>3 DEF TypeOK, Source
  <2>5. /\ spec \in Spec_ /\ spec # None /\ spec.version = source.candidate.version
        /\ spec.definition = source.candidate.definition
        /\ spec.collection = source.candidate.collection
    <3>1. source.candidate.edits + 1 \in 0..MaxEdits
      BY <2>1, <2>2, Bounds DEF Spec_
    <3>2. spec \in Spec_ /\ spec.version = source.candidate.version
          /\ spec.definition = source.candidate.definition
          /\ spec.collection = source.candidate.collection
      BY <2>2, <2>3, <3>1 DEF Spec_
    <3> QED
      BY <3>2, NoneAssumption
  <2>6. /\ source' \in Source /\ source'.status = "ready_review" /\ source'.candidate = spec
        /\ source'.stage = source.stage /\ source'.definition = source.definition
        /\ source'.collection = source.collection /\ source'.version = source.version
        /\ source'.pending = source.pending /\ source'.rule = source.rule
        /\ source'.lifecycle = source.lifecycle /\ source'.moved = source.moved
    BY <1>1, <2>4, <2>5 DEF TypeOK, Source, Status
  <2>7. source.candidate # None
    BY <2>1, <2>2
  <2>8. TypeOK'
    BY <1>1, <2>1, <2>6 DEF TypeOK
  <2>9. Candidates'
    BY <1>1, <2>5, <2>6, <2>7 DEF Candidates, SameSource, Shown, Contract
  <2>10. Migrations'
    BY <1>1, <2>5, <2>6, <2>7 DEF Migrations, SameSource, Shown
  <2>11. Jobs' /\ Edits'
    BY <1>1, <2>1 DEF Jobs, Edits
  <2>12. Entries' /\ Owners' /\ Latest'
    BY <1>1, <2>6, <2>7, HistoryKept
  <2> QED
    BY <2>8, <2>9, <2>10, <2>11, <2>12 DEF MInv
<1> QED
  BY <1>2, <1>3

\* The largest of the numbers of some entries.
LEMMA MaxFacts ==
    ASSUME NEW k \in Nat, NEW S \in SUBSET (1..k), S # {}
    PROVE  Max(S) \in S /\ \A m \in S : m <= Max(S)
<1> DEFINE D == {k - m : m \in S}
<1>1. \A m \in S : m \in Nat /\ k - m \in Nat
  OBVIOUS
<1>2. D \subseteq Nat /\ D # {}
  BY <1>1
<1>3. \E x \in D : \A y \in D : ~(<<y, x>> \in OpToRel(<, Nat))
  BY <1>2, NatLessThanWellFounded, WFMin
<1>4. PICK x \in D : \A y \in D : ~(<<y, x>> \in OpToRel(<, Nat))
  BY <1>3
<1>5. \A y \in D : ~(y < x)
  BY <1>2, <1>4 DEF OpToRel
<1>6. PICK n \in S : x = k - n
  OBVIOUS
<1>7. \A m \in S : n >= m
  <2> SUFFICES ASSUME NEW m \in S PROVE n >= m
    OBVIOUS
  <2>1. ~(k - m < k - n)
    BY <1>5, <1>6
  <2> QED
    BY <2>1
<1>8. \E a \in S : \A m \in S : a >= m
  BY <1>7
<1>9. Max(S) \in S /\ \A m \in S : Max(S) >= m
  BY <1>8 DEF Max
<1> QED
  BY <1>9

LEMMA PublishRuleStep == ASSUME MInv, PublishRule PROVE MInv'
<1>1. /\ TypeOK /\ Candidates /\ Migrations /\ Jobs /\ Edits /\ Entries /\ Owners /\ Latest
      /\ UNCHANGED <<collections, versions, job, edit>>
      /\ edit = None /\ source.status = "ready_review" /\ source.candidate # None
      /\ Len(rules) < MaxJobs /\ rules' = Append(rules, source.candidate)
  BY DEF MInv, PublishRule, ApiFree
<1>2. PICK k \in Nat : k = Len(history)
  BY <1>1, HistoryTypes
<1>3. DOMAIN history = 1..k /\ history \in Seq(Entry) /\ \A n \in 1..k : history[n] \in Entry
  BY <1>1, <1>2, HistoryTypes DEF TypeOK
<1>4. PICK r \in Nat : r = Len(rules)
  BY <1>1, HistoryTypes
<1>5. source.candidate \in Spec_ /\ DOMAIN rules = 1..r /\ rules \in Seq(Spec_)
  BY <1>1, <1>4, HistoryTypes, RowTypes DEF TypeOK
<1>6. /\ rules' \in Seq(Spec_) /\ Len(rules') = r + 1 /\ DOMAIN rules' = 1..(r + 1)
      /\ \A n \in 1..r : rules'[n] = rules[n]
      /\ rules'[r + 1] = source.candidate
  BY <1>1, <1>4, <1>5
<1>7. r + 1 \in 1..MaxJobs /\ r + 1 <= MaxJobs /\ r + 1 # None
  BY <1>1, <1>4, Bounds
<1>8. PICK version : version = VersionOf(source)
  OBVIOUS
<1>9. /\ version \in Version /\ source.candidate.version = version
      /\ SameSource(source.candidate)
  <2>1. source.pending # None => source.pending \in Version
    BY <1>1, RowTypes
  <2>2. version \in Version
    BY <1>1, <1>8, <2>1, RowTypes DEF VersionOf
  <2>3. version # Legacy => source.candidate.version = version
    BY <1>8 DEF PublishRule, Matches
  <2>4. ASSUME version = Legacy PROVE source.candidate.version = version
    <3>1. source.pending = None /\ source.version = Legacy
      BY <1>1, <1>8, <2>4 DEF VersionOf, Migrations
    <3> QED
      BY <1>1, <2>4, <3>1, NoMigrationFields
  <2> QED
    BY <1>1, <2>2, <2>3, <2>4 DEF Candidates
<1>10. source.pending = None => source.stage = None /\ migration = None
  BY <1>1 DEF Migrations
<1>11. /\ source' = [source EXCEPT !.status = "published", !.rule = r + 1,
                                   !.version = version, !.pending = None, !.stage = None]
       /\ migration' = None
  <2>1. /\ source' = [source EXCEPT !.status = "published", !.rule = r + 1,
                                    !.version = version, !.pending = None,
                                    !.stage = IF source.pending = None THEN @ ELSE None]
        /\ migration' = IF source.pending = None THEN migration ELSE None
    BY <1>6, <1>8 DEF PublishRule
  <2>2. CASE source.pending = None
    <3>1. source' = [source EXCEPT !.status = "published", !.rule = r + 1,
                                   !.version = version, !.pending = None,
                                   !.stage = source.stage]
      BY <1>1, <2>1, <2>2 DEF TypeOK, Source
    <3> QED
      BY <1>10, <2>1, <2>2, <3>1
  <2>3. CASE source.pending # None
    BY <2>1, <2>3
  <2> QED
    BY <2>2, <2>3
<1>12. /\ source' \in Source /\ source'.status = "published" /\ source'.rule = r + 1
       /\ source'.version = version /\ source'.pending = None /\ source'.stage = None
       /\ source'.definition = source.definition
       /\ source'.collection = source.collection
       /\ source'.candidate = source.candidate
       /\ source'.lifecycle = source.lifecycle /\ source'.moved = source.moved
  BY <1>1, <1>7, <1>9, <1>11 DEF TypeOK, Source, Status
<1> DEFINE waiting == {n \in DOMAIN history : history[n].review = "ready_review"}
<1>13. history' = [n \in DOMAIN history |->
           IF n \notin waiting THEN history[n]
           ELSE IF n = Max(waiting)
                THEN [history[n] EXCEPT !.review = "published", !.rule = r + 1]
                ELSE [history[n] EXCEPT !.review = "superseded"]]
  BY <1>6 DEF PublishRule, Reviewed
<1>14. \A n \in waiting : n = Max(waiting) => history[n].made = source.collection
  <2> SUFFICES ASSUME NEW n \in waiting, n = Max(waiting)
               PROVE  history[n].made = source.collection
    OBVIOUS
  <2>1. waiting \in SUBSET (1..k) /\ waiting # {}
    BY <1>3
  <2>2. \A m \in waiting : m <= n
    BY <2>1, MaxFacts
  <2>3. Waits(n) /\ \A m \in DOMAIN history : Waits(m) => m <= n
    BY <2>2 DEF Waits
  <2> QED
    BY <1>1, <2>3 DEF Latest
<1> HIDE DEF waiting
<1>15. \A n \in 1..k :
          /\ history'[n] \in Entry /\ history'[n].made = history[n].made
          /\ history'[n].resource = history[n].resource
          /\ history'[n].operation = history[n].operation
          /\ history'[n].review # "ready_review"
          /\ \/ history'[n].rule = history[n].rule
             \/ history'[n].rule = r + 1 /\ history[n].made = source.collection
  <2> SUFFICES ASSUME NEW n \in 1..k
               PROVE  /\ history'[n] \in Entry /\ history'[n].made = history[n].made
                      /\ history'[n].resource = history[n].resource
                      /\ history'[n].operation = history[n].operation
                      /\ history'[n].review # "ready_review"
                      /\ \/ history'[n].rule = history[n].rule
                         \/ history'[n].rule = r + 1 /\ history[n].made = source.collection
    OBVIOUS
  <2>1. history[n] \in Entry
    BY <1>3
  <2>2. CASE n \notin waiting
    BY <1>3, <1>13, <2>1, <2>2 DEF waiting
  <2>3. CASE n \in waiting /\ n = Max(waiting)
    <3>1. history'[n] = [history[n] EXCEPT !.review = "published", !.rule = r + 1]
      BY <1>3, <1>13, <2>3
    <3> QED
      BY <1>7, <1>14, <2>1, <2>3, <3>1 DEF Entry
  <2>4. CASE n \in waiting /\ n # Max(waiting)
    <3>1. history'[n] = [history[n] EXCEPT !.review = "superseded"]
      BY <1>3, <1>13, <2>4
    <3> QED
      BY <2>1, <3>1 DEF Entry
  <2> QED
    BY <2>2, <2>3, <2>4
<1>16. history' \in Seq(Entry) /\ Len(history') = k /\ DOMAIN history' = 1..k
  <2>1. DOMAIN history' = 1..k /\ history' = [n \in 1..k |-> history'[n]]
    BY <1>3, <1>13
  <2>2. history' \in [1..k -> Entry]
    BY <1>15, <2>1
  <2>3. history' \in Seq(Entry)
    BY <1>2, <2>2
  <2>4. Len(history') = k
    BY <1>2, <2>1, <2>3
  <2> QED
    BY <2>1, <2>3, <2>4
<1>17. TypeOK'
  BY <1>1, <1>2, <1>6, <1>7, <1>11, <1>12, <1>16 DEF TypeOK
<1>18. r + 1 \in 1..(r + 1) /\ \A n \in 1..r : n \in 1..(r + 1)
  OBVIOUS
<1>19. Candidates'
  BY <1>6, <1>7, <1>9, <1>12, <1>18 DEF Candidates, SameSource, Shown, Contract
<1>20. Migrations'
  BY <1>11, <1>12, Bounds, NoneAssumption DEF Migrations, Version, Legacy
<1>21. Jobs' /\ Edits'
  <2>1. job # None => job.kind = "run" /\ job.context = None /\ job.operation \in DOMAIN history
    BY <1>1 DEF Jobs
  <2> QED
    BY <1>1, <1>3, <1>16, <2>1 DEF Jobs, Edits
<1>22. Entries'
  <2>1. source.candidate.collection = source.collection
    BY <1>9 DEF SameSource
  <2> SUFFICES ASSUME NEW n \in 1..k
               PROVE  /\ {history'[n].resource, history'[n].operation}
                            \subseteq {history'[n].made, None}
                      /\ source'.collection # history'[n].made =>
                            None \notin {history'[n].resource, history'[n].operation}
                      /\ ~source'.moved => history'[n].made = source'.collection
                      /\ history'[n].rule # None =>
                            /\ history'[n].rule \in DOMAIN rules'
                            /\ rules'[history'[n].rule].collection = history'[n].made
    BY <1>16 DEF Entries
  <2>2. /\ {history[n].resource, history[n].operation} \subseteq {history[n].made, None}
        /\ source.collection # history[n].made =>
              None \notin {history[n].resource, history[n].operation}
        /\ ~source.moved => history[n].made = source.collection
        /\ history[n].rule # None =>
              history[n].rule \in 1..r /\ rules[history[n].rule].collection = history[n].made
    BY <1>1, <1>3, <1>5 DEF Entries
  <2>3. history'[n].rule # None =>
           /\ history'[n].rule \in DOMAIN rules'
           /\ rules'[history'[n].rule].collection = history'[n].made
    BY <1>6, <1>15, <1>18, <2>1, <2>2
  <2> QED
    BY <1>12, <1>15, <2>2, <2>3
<1>23. Owners'
  BY <1>1, <1>3, <1>12, <1>15, <1>16 DEF Owners, Present
<1>24. Latest'
  BY <1>15, <1>16 DEF Latest, Waits
<1> QED
  BY <1>17, <1>19, <1>20, <1>21, <1>22, <1>23, <1>24 DEF MInv

-----------------------------------------------------------------------------
LEMMA InitMInv == Init => MInv
<1> SUFFICES ASSUME Init PROVE MInv
  OBVIOUS
<1>1. Home \in Collections /\ First \in Definitions /\ Legacy \in Version /\ 1 \in 1..MaxJobs
      /\ 0 \in 0..MaxCommands /\ 0 \in 0..MaxEdits
  BY ManagementAssumption DEF Version, Legacy
<1>2. FirstSpec \in Spec_ /\ FirstSpec # None
  <2>1. FirstSpec \in Spec_
    BY <1>1 DEF FirstSpec, Spec_
  <2> QED
    BY <2>1, NoneAssumption
<1>3. /\ versions = <<>> /\ migration = None /\ job = None /\ edit = None
      /\ collections = [k \in Collections |->
            [status |-> IF k = Home THEN "active" ELSE "absent", active |-> Legacy]]
  BY DEF Init
<1>4. collections \in [Collections -> Collection] /\ collections[Home].status = "active"
  BY <1>1, <1>3 DEF Collection
<1>5. FreshSource \in Source
  BY <1>1 DEF FreshSource, Source, Status
<1>6. /\ source \in Source /\ source.definition = First /\ source.collection = Home
      /\ source.version = Legacy /\ source.pending = None /\ source.stage = None
      /\ source.lifecycle = "active"
      /\ \/ source.candidate = None /\ source.rule = None /\ source.status = "draft"
         \/ /\ source.candidate = FirstSpec /\ source.rule = 1 /\ rules = <<FirstSpec>>
  <2>1. source = FreshSource \/ (rules = <<FirstSpec>> /\ source =
           [FreshSource EXCEPT !.status = "published", !.rule = 1, !.candidate = FirstSpec])
    BY DEF Init
  <2>2. CASE source = FreshSource
    <3>1. source.candidate = None /\ source.rule = None /\ source.status = "draft"
      BY <2>2 DEF FreshSource
    <3> QED
      BY <1>5, <2>2, <3>1 DEF FreshSource
  <2>3. CASE /\ rules = <<FirstSpec>>
             /\ source = [FreshSource EXCEPT !.status = "published", !.rule = 1,
                                              !.candidate = FirstSpec]
    <3>1. source \in Source
      BY <1>1, <1>2, <1>5, <2>3 DEF Source, Status
    <3> QED
      BY <2>3, <3>1 DEF FreshSource
  <2> QED
    BY <2>1, <2>2, <2>3
<1>7. /\ rules \in Seq(Spec_) /\ Len(rules) <= MaxJobs
      /\ history \in Seq(Entry) /\ Len(history) <= MaxJobs
      /\ \A n \in DOMAIN history :
            /\ history[n].made = Home /\ history[n].resource = None
            /\ history[n].operation = None /\ history[n].review # "ready_review"
            /\ history[n].rule # None => history[n].rule = 1 /\ rules = <<FirstSpec>>
  <2>1. /\ Unowned("run") \in Entry
        /\ [Unowned("ai_run") EXCEPT !.review = "published", !.rule = 1] \in Entry
    BY <1>1 DEF Unowned, Entry
  <2>2. CASE rules = <<>> /\ history = <<>>
    BY <2>2, Bounds
  <2>3. CASE /\ rules = <<FirstSpec>>
             /\ history = <<[Unowned("ai_run") EXCEPT !.review = "published", !.rule = 1]>>
    <3>1. PICK e : e = [Unowned("ai_run") EXCEPT !.review = "published", !.rule = 1]
      OBVIOUS
    <3>2. /\ e \in Entry /\ e.made = Home /\ e.resource = None /\ e.operation = None
          /\ e.review = "published" /\ e.rule = 1
      BY <2>1, <3>1 DEF Unowned
    <3>3. history = <<e>>
      BY <2>3, <3>1
    <3> QED
      BY <1>2, <2>3, <3>2, <3>3, Bounds
  <2>4. CASE rules = <<>> /\ history = <<Unowned("run")>>
    <3>1. PICK e : e = Unowned("run")
      OBVIOUS
    <3>2. /\ e \in Entry /\ e.made = Home /\ e.resource = None /\ e.operation = None
          /\ e.review = "not_ready" /\ e.rule = None
      BY <2>1, <3>1 DEF Unowned
    <3>3. history = <<e>>
      BY <2>4, <3>1
    <3> QED
      BY <2>4, <3>2, <3>3, Bounds
  <2> QED
    BY <2>2, <2>3, <2>4 DEF Init
<1>8. TypeOK
  <2>1. versions \in Seq(Collections) /\ Len(versions) <= MaxVersions
    BY <1>3, Bounds
  <2> QED
    BY <1>3, <1>4, <1>6, <1>7, <2>1 DEF TypeOK
<1>9. rules = <<FirstSpec>> => 1 \in DOMAIN rules /\ rules[1] = FirstSpec
  OBVIOUS
<1>10. /\ FirstSpec.definition = First /\ FirstSpec.collection = Home
       /\ FirstSpec.version = Legacy
  BY DEF FirstSpec
<1>11. Candidates
  BY <1>6, <1>9, <1>10, Bounds DEF Candidates, SameSource, Shown, Contract
<1>12. Migrations
  BY <1>3, <1>6, Bounds, NoneAssumption DEF Migrations, Version, Legacy
<1>13. Jobs /\ Edits
  BY <1>3 DEF Jobs, Edits
<1>14. Entries
  BY <1>6, <1>7, <1>9, <1>10 DEF Entries
<1>15. Owners
  BY <1>4, <1>6, <1>7 DEF Owners, Present
<1>16. Latest
  BY <1>7 DEF Latest, Waits
<1> QED
  BY <1>8, <1>11, <1>12, <1>13, <1>14, <1>15, <1>16 DEF MInv

LEMMA NextMInv == MInv /\ [Next]_vars => MInv'
<1> SUFFICES ASSUME MInv, [Next]_vars PROVE MInv'
  OBVIOUS
<1>1. CASE UNCHANGED vars
  <2>1. UNCHANGED <<source, collections, versions, rules, migration, job, history, edit>>
    BY <1>1 DEF vars
  <2>2. TypeOK' /\ Candidates' /\ Migrations'
    BY <2>1 DEF MInv, TypeOK, Candidates, Migrations, SameSource, Shown
  <2>3. Jobs' /\ Edits'
    BY <2>1 DEF MInv, Jobs, Edits, SameSource, Shown, VersionOf
  <2>4. Entries' /\ Owners' /\ Latest'
    BY <2>1, HistoryKept
  <2> QED
    BY <2>2, <2>3, <2>4 DEF MInv
<1> QED
  BY <1>1, CollectionSteps, StartMigrationStep, CancelMigrationStep, ChangeDefinitionStep,
     ChangeLifecycleStep, ReassignStep, StartSteps, TakeUpSteps, CommitExplorationStep,
     EndSteps, EditSteps, PublishRuleStep DEF Next

\* Row, migration, job, edit and history of a source agree in every reachable state,
\* however commands, explorations, edits and runs of other processes interleave.
THEOREM SourceAgrees == Spec => []MInv
<1>1. Init => MInv
  BY InitMInv
<1>2. MInv /\ [Next]_vars => MInv'
  BY NextMInv
<1> QED
  BY <1>1, <1>2, PTL DEF Spec

\* Every column of a source and its collections has the shape the code reads it with.
THEOREM SourceTypes == Spec => []TypeOK
<1>1. MInv => TypeOK
  BY DEF MInv
<1> QED
  BY <1>1, SourceAgrees, PTL

\* What a source runs was compiled for the intent, the collection and the field
\* version it has now, and what it shows as published is what was reviewed: neither
\* an edit's late write nor a migration that is taken back brings an older one.
THEOREM PublishedRuleFits == Spec => []RuleFits
<1>1. MInv => RuleFits
  BY DEF MInv, Candidates, Shown, RuleFits
<1> QED
  BY <1>1, SourceAgrees, PTL

\* The columns of a migration agree with its row from start_migration to its end,
\* and only a candidate for the new version waits for review meanwhile.
THEOREM MigrationStaysWhole == Spec => []MigrationAgrees
<1>1. ASSUME MInv PROVE MigrationAgrees
  <2>1. Migrations
    BY <1>1 DEF MInv
  <2>2. source.pending = None <=> migration = None
    BY <2>1 DEF Migrations
  <2>3. source.stage = None <=> migration = None
    BY <2>1 DEF Migrations
  <2>4. /\ migration # None => migration.target = source.pending
        /\ source.stage = "ready_review" => source.candidate.version = source.pending
    BY <2>1 DEF Migrations
  <2> QED
    BY <2>2, <2>3, <2>4 DEF MigrationAgrees
<1> QED
  BY <1>1, SourceAgrees, PTL

\* freeze_history and record_new_history leave every run and every generation with
\* the collection it was done for, and no collection that owns one is ever deleted.
THEOREM HistoryKeepsOwners == Spec => []HistoryAttributed
<1>1. ASSUME MInv PROVE HistoryAttributed
  <2>0. TypeOK /\ Entries /\ Owners
    BY <1>1 DEF MInv
  <2> SUFFICES ASSUME NEW n \in DOMAIN history
               PROVE  /\ {history[n].resource, history[n].operation}
                            \subseteq {history[n].made, None}
                      /\ source.collection # history[n].made =>
                            None \notin {history[n].resource, history[n].operation}
                      /\ Owns(history[n].made) =>
                            collections[history[n].made].status \in {"active", "archived"}
    BY DEF HistoryAttributed
  <2>1. history[n].made # None
    BY <2>0, HistoryTypes, Bounds DEF Entry
  <2>2. Owns(history[n].made) => Present(history[n].made)
    BY <2>0, <2>1 DEF Owns, Owners
  <2> QED
    BY <2>0, <2>2 DEF Entries, Present
<1> QED
  BY <1>1, SourceAgrees, PTL

-----------------------------------------------------------------------------
(* LocalEvidence *)

RowType == [ref : E!Try, digest : E!Manifest \cup {NoManifest}]

\* The directory of claim n holds what n wrote until its days are over, and a
\* manifest that says so once n is done reading.
DirectoryFits(n) ==
    /\ try[n].at # "none" => n <= task.claims
    /\ try[n].at \in {"none", "claimed", "reading"} => disk[n].manifest = NoManifest
    /\ try[n].at \in {"none", "claimed"} => try[n].pages = {}
    /\ try[n].at = "read" => disk[n].manifest = E!ManifestOf(n, TRUE)
    /\ disk[n].manifest # NoManifest =>
          disk[n].manifest.by = n /\ disk[n].manifest.pages = try[n].pages
    /\ \A p \in Page :
          /\ disk[n].files[p] \in {E!Absent, n, E!Damaged}
          /\ disk[n].files[p] = E!Damaged => disk[n].manifest # NoManifest
          /\ p \in try[n].pages => disk[n].files[p] \in {n, E!Damaged} \/ n \in expired

\* The row names the directory of the claim that reads, and then of the claim that
\* ended the job: a digest comes with that end and is its last word.
SnapshotRow ==
    /\ row.digest # NoManifest <=> task.status = "succeeded"
    /\ row.digest # NoManifest =>
          /\ row.ref = task.claims /\ try[row.ref].at = "over"
          /\ row.digest = E!ManifestOf(row.ref, TRUE)
          /\ disk[row.ref].manifest = row.digest
    /\ \A n \in E!Try :
          n = task.claims /\ try[n].at \in {"reading", "read"} => row.ref = n

\* The row of a reader that found a digest in it is the row of now.
ReaderFits ==
    /\ reader.at # "idle" =>
          /\ reader.row \in RowType
          /\ reader.row.digest # NoManifest => reader.row = row
    /\ reader.at = "files" =>
          /\ reader.row.digest # NoManifest
          /\ reader = [at |-> "files", row |-> reader.row, left |-> reader.left]
          /\ reader.left \subseteq reader.row.digest.pages

EvidenceInv ==
    /\ E!TypeOK /\ SnapshotRow /\ ReaderFits /\ E!ReaderTold
    /\ \A n \in E!Try : DirectoryFits(n)

TryType == [at : {"none", "claimed", "reading", "read", "over"}, pages : SUBSET Page]
DirectoryType == [files : [Page -> 0..E!Damaged], manifest : E!Manifest \cup {NoManifest}]
TaskType == [status : {"queued", "processing", "succeeded", "failed", "cancelled"},
             claims : 0..MaxTries, held : BOOLEAN]

LEMMA EvidenceLimits ==
    /\ MaxTries \in Nat \ {0} /\ E!Try = 1..MaxTries /\ E!Try \subseteq Nat
    /\ NoManifest \notin E!Manifest
    /\ E!Absent = 0 /\ E!Damaged = MaxTries + 1
BY RecordsAssumption DEF E!EvidenceAssumption, E!Try, E!Absent, E!Damaged

LEMMA EvidenceTypes ==
    ASSUME EvidenceInv
    PROVE  /\ sampled \in BOOLEAN /\ task \in TaskType /\ row \in RowType
           /\ try \in [E!Try -> TryType] /\ disk \in [E!Try -> DirectoryType]
           /\ task.claims \in Nat /\ expired \subseteq E!Try
BY EvidenceLimits DEF EvidenceInv, E!TypeOK, TaskType, RowType, TryType, DirectoryType

\* What a reader was told stays so: a digest is final, what is damaged stays damaged
\* until it is past its days.
LEMMA ReaderKept ==
    ASSUME EvidenceInv, UNCHANGED reader,
           row.digest # NoManifest => row' = row /\ task'.status = "succeeded",
           expired \subseteq expired',
           \A r \in E!Try : E!WasDamaged(r) => E!WasDamaged(r)' \/ r \in expired'
    PROVE  ReaderFits' /\ E!ReaderTold'
<1>1. ReaderFits'
  BY DEF EvidenceInv, ReaderFits
<1>2. ASSUME reader.at = "done"
      PROVE  /\ reader.state = "invalid" =>
                   E!WasDamaged(reader.row.ref)' \/ reader.row.ref \in expired'
             /\ reader.state \in {"missing", "incomplete"} <=> reader.row.digest = NoManifest
             /\ reader.state = "available" => task'.status = "succeeded"
  <2>1. reader.row.ref \in E!Try /\ (reader.row.digest # NoManifest => reader.row = row)
    BY <1>2 DEF EvidenceInv, ReaderFits, RowType
  <2>2. /\ reader.state = "invalid" => E!WasDamaged(reader.row.ref) \/ reader.row.ref \in expired
        /\ reader.state \in {"missing", "incomplete"} <=> reader.row.digest = NoManifest
        /\ reader.state = "available" => task.status = "succeeded"
    BY <1>2 DEF EvidenceInv, E!ReaderTold
  <2>3. reader.state = "available" => task'.status = "succeeded"
    BY <2>2 DEF EvidenceInv, SnapshotRow
  <2> QED BY <2>1, <2>2, <2>3
<1>3. E!ReaderTold'
  BY <1>2 DEF E!ReaderTold, E!WasDamaged
<1> QED BY <1>1, <1>3

LEMMA DirectoryKept ==
    ASSUME EvidenceInv, NEW n \in E!Try, try'[n] = try[n], disk'[n] = disk[n],
           task'.claims \in Nat, task'.claims >= task.claims, expired \subseteq expired'
    PROVE  DirectoryFits(n)'
<1>1. DirectoryFits(n) /\ n \in Nat /\ task.claims \in Nat
  BY EvidenceTypes, EvidenceLimits DEF EvidenceInv
<1>2. try[n].at # "none" => n <= task'.claims
  BY <1>1 DEF DirectoryFits
<1>3. E!ManifestOf(n, TRUE)' = E!ManifestOf(n, TRUE)
  BY DEF E!ManifestOf
<1> QED BY <1>1, <1>2, <1>3 DEF DirectoryFits

\* DirectoryFits, of what a step leaves in a directory.
LEMMA DirectoryLeft ==
    ASSUME NEW n \in E!Try, NEW t, NEW d, try'[n] = t, disk'[n] = d,
           t.at # "none" => n <= task'.claims,
           t.at \in {"none", "claimed", "reading"} => d.manifest = NoManifest,
           t.at \in {"none", "claimed"} => t.pages = {},
           t.at = "read" => d.manifest = [by |-> n, complete |-> TRUE, pages |-> t.pages],
           d.manifest # NoManifest => d.manifest.by = n /\ d.manifest.pages = t.pages,
           \A p \in Page :
              /\ d.files[p] \in {E!Absent, n, E!Damaged}
              /\ d.files[p] = E!Damaged => d.manifest # NoManifest
              /\ p \in t.pages => d.files[p] \in {n, E!Damaged} \/ n \in expired'
    PROVE  DirectoryFits(n)'
BY DEF DirectoryFits, E!ManifestOf, E!Absent, E!Damaged

\* A step of one worker, or of the disk, in one directory.
LEMMA DirectoryStep ==
    ASSUME EvidenceInv, NEW n \in E!Try, NEW t \in TryType, NEW d \in DirectoryType,
           try' = [try EXCEPT ![n] = t], disk' = [disk EXCEPT ![n] = d],
           task' \in TaskType, task'.claims >= task.claims, row' \in RowType,
           UNCHANGED <<sampled, expired, reader>>,
           row.digest # NoManifest => row' = row /\ task'.status = "succeeded",
           \A p \in Page : disk[n].files[p] = E!Damaged =>
                              d.files[p] = E!Damaged \/ n \in expired,
           SnapshotRow', DirectoryFits(n)'
    PROVE  EvidenceInv'
<1>1. /\ try' \in [E!Try -> TryType] /\ disk' \in [E!Try -> DirectoryType]
      /\ try'[n] = t /\ disk'[n] = d
      /\ \A m \in E!Try : m # n => try'[m] = try[m] /\ disk'[m] = disk[m]
  BY EvidenceTypes
<1>2. E!TypeOK'
  BY <1>1, EvidenceTypes
     DEF EvidenceInv, E!TypeOK, TaskType, RowType, TryType, DirectoryType
<1>3. ASSUME NEW m \in E!Try
      PROVE  DirectoryFits(m)'
  <2>1. task'.claims \in Nat
    BY EvidenceLimits DEF TaskType
  <2>2. CASE m # n
    BY <1>1, <2>1, <2>2, DirectoryKept
  <2> QED BY <2>2
<1>4. ASSUME NEW r \in E!Try, E!WasDamaged(r)
      PROVE  E!WasDamaged(r)' \/ r \in expired'
  <2>1. PICK p \in Page : disk[r].files[p] = E!Damaged
    BY <1>4 DEF E!WasDamaged
  <2>2. disk'[r].files[p] = E!Damaged \/ r \in expired
    BY <1>1, <2>1
  <2> QED BY <2>2 DEF E!WasDamaged
<1>5. ReaderFits' /\ E!ReaderTold'
  BY <1>4, ReaderKept
<1> QED BY <1>2, <1>3, <1>5 DEF EvidenceInv

\* The row fits what a worker does that is not over: it is not the one that ended the job.
LEMMA RowStays ==
    ASSUME EvidenceInv, NEW n \in E!Try, try[n].at # "over" \/ UNCHANGED <<try, disk>>,
           UNCHANGED row, task'.claims = task.claims,
           task'.status = "succeeded" <=> task.status = "succeeded",
           \A m \in E!Try : m # n => try'[m] = try[m] /\ disk'[m] = disk[m],
           try'[n].at \in {"reading", "read"} => try[n].at \in {"reading", "read"}
    PROVE  SnapshotRow'
<1>1. SnapshotRow /\ row.ref \in E!Try
  BY EvidenceTypes DEF EvidenceInv, RowType
<1>2. ASSUME row.digest # NoManifest
      PROVE  try'[row.ref] = try[row.ref] /\ disk'[row.ref] = disk[row.ref]
  BY <1>1, <1>2 DEF SnapshotRow
<1>3. ASSUME row.digest # NoManifest
      PROVE  E!ManifestOf(row.ref, TRUE)' = E!ManifestOf(row.ref, TRUE)
  BY <1>2, <1>3 DEF E!ManifestOf
<1>4. \A m \in E!Try : m = task'.claims /\ try'[m].at \in {"reading", "read"} => row'.ref = m
  BY <1>1 DEF SnapshotRow
<1> QED BY <1>1, <1>2, <1>3, <1>4 DEF SnapshotRow

LEMMA ClaimEvidence ==
    ASSUME EvidenceInv, E!Claim
    PROVE  EvidenceInv'
<1>1. PICK n : n = task.claims + 1
  OBVIOUS
<1>2. /\ task.status \in {"queued", "processing"} /\ task.claims < MaxTries
      /\ task' = [status |-> "processing", claims |-> n, held |-> TRUE]
      /\ try' = [try EXCEPT ![n].at = "claimed"]
      /\ UNCHANGED <<sampled, row, disk, expired, reader>>
  BY <1>1 DEF E!Claim
<1>3. n \in E!Try /\ n \in 0..MaxTries /\ n > task.claims /\ n # task.claims /\ n >= task.claims
  BY <1>1, <1>2, EvidenceTypes, EvidenceLimits
<1> DEFINE t == [try[n] EXCEPT !.at = "claimed"]
<1>4. try[n].at = "none" /\ try[n].pages = {} /\ disk[n].manifest = NoManifest
  <2>1. DirectoryFits(n) /\ ~(n <= task.claims)
    BY <1>3, EvidenceTypes DEF EvidenceInv
  <2> QED BY <2>1, <1>3 DEF DirectoryFits
<1>5. t \in TryType /\ t.at = "claimed" /\ t.pages = {}
  BY <1>3, <1>4, EvidenceTypes DEF TryType
<1>6. disk[n] \in DirectoryType /\ disk' = [disk EXCEPT ![n] = disk[n]]
  BY <1>2, <1>3, EvidenceTypes
<1>7. try' = [try EXCEPT ![n] = t]
  BY <1>2
<1> HIDE DEF t
<1>8. try'[n] = t /\ \A m \in E!Try : m # n => try'[m] = try[m]
  BY <1>3, <1>7, EvidenceTypes
<1>9. task' \in TaskType /\ task'.claims = n /\ task'.status = "processing"
  BY <1>2, <1>3 DEF TaskType
<1>10. row.digest = NoManifest
  BY <1>2 DEF EvidenceInv, SnapshotRow
<1>11. SnapshotRow'
  BY <1>2, <1>5, <1>8, <1>9, <1>10 DEF SnapshotRow
<1>12. DirectoryFits(n)'
  <2>1. DirectoryFits(n) /\ n <= n
    BY <1>3, EvidenceLimits DEF EvidenceInv
  <2>2. \A p \in Page :
           /\ disk[n].files[p] \in {E!Absent, n, E!Damaged}
           /\ disk[n].files[p] = E!Damaged => disk[n].manifest # NoManifest
    BY <2>1 DEF DirectoryFits
  <2>3. disk'[n] = disk[n] /\ n <= task'.claims
    BY <1>2, <1>9, <2>1
  <2>4. \A p \in Page : ~(p \in t.pages)
    BY <1>5
  <2> QED BY ONLY <1>3, <1>4, <1>5, <1>8, <2>2, <2>3, <2>4, DirectoryLeft
<1>13. task'.claims >= task.claims /\ row' = row /\ row \in RowType
  BY <1>2, <1>3, <1>9, EvidenceTypes
<1>14. UNCHANGED <<sampled, expired, reader>>
  BY <1>2
<1>15. disk[n].files = disk[n].files /\ n \in E!Try
  BY <1>3
<1> QED BY ONLY EvidenceInv, <1>5, <1>6, <1>7, <1>9, <1>10, <1>11, <1>12, <1>13, <1>14, <1>15,
     DirectoryStep

LEMMA StartEvidence ==
    ASSUME EvidenceInv, NEW n \in E!Try, E!Start(n)
    PROVE  EvidenceInv'
<1> DEFINE t == [try[n] EXCEPT !.at = IF E!Owned(n) THEN "reading" ELSE "over"]
<1>1. /\ try[n].at = "claimed" /\ try' = [try EXCEPT ![n] = t]
      /\ UNCHANGED <<sampled, task, disk, expired, reader>>
      /\ E!Owned(n) => row' = [ref |-> n, digest |-> NoManifest]
      /\ ~E!Owned(n) => row' = row
  BY DEF E!Start, E!Reference
<1>2. /\ t \in TryType /\ t.pages = try[n].pages
      /\ t.at = IF E!Owned(n) THEN "reading" ELSE "over"
  BY EvidenceTypes DEF TryType
<1> HIDE DEF t
<1>3. /\ try'[n] = t /\ \A m \in E!Try : m # n => try'[m] = try[m]
      /\ disk' = [disk EXCEPT ![n] = disk[n]] /\ disk[n] \in DirectoryType
  BY <1>1, EvidenceTypes
<1>4. /\ row' \in RowType /\ task' \in TaskType /\ task'.claims >= task.claims
      /\ row.digest # NoManifest => row' = row /\ task'.status = "succeeded"
  <2>1. row.digest # NoManifest => task.status = "succeeded"
    BY DEF EvidenceInv, SnapshotRow
  <2>2. row' \in RowType
    BY <1>1, EvidenceTypes DEF RowType
  <2>3. task' = task /\ task \in TaskType /\ task.claims >= task.claims
    BY <1>1, EvidenceTypes
  <2> QED BY <1>1, <2>1, <2>2, <2>3 DEF E!Owned
<1>5. SnapshotRow'
  <2>1. CASE E!Owned(n)
    <3>1. /\ row'.ref = n /\ row'.digest = NoManifest
          /\ task'.status = "processing" /\ task'.claims = n
      BY <1>1, <2>1 DEF E!Owned
    <3> QED BY <3>1 DEF SnapshotRow
  <2>2. CASE ~E!Owned(n)
    BY <1>1, <1>2, <1>3, <2>2, RowStays
  <2> QED BY <2>1, <2>2
<1>6. DirectoryFits(n)'
  <2>1. /\ n <= task.claims /\ disk[n].manifest = NoManifest /\ t.pages = {}
        /\ \A p \in Page :
              /\ disk[n].files[p] \in {E!Absent, n, E!Damaged}
              /\ disk[n].files[p] = E!Damaged => disk[n].manifest # NoManifest
    BY <1>1, <1>2 DEF EvidenceInv, DirectoryFits
  <2>2. disk'[n] = disk[n] /\ n <= task'.claims
    BY <1>1, <2>1
  <2> QED BY <1>2, <1>3, <2>1, <2>2, DirectoryLeft
<1> QED BY <1>1, <1>2, <1>3, <1>4, <1>5, <1>6, DirectoryStep

LEMMA FetchEvidence ==
    ASSUME EvidenceInv, NEW n \in E!Try, NEW p \in Page, E!Fetch(n, p)
    PROVE  EvidenceInv'
<1> DEFINE t == [try[n] EXCEPT !.pages = @ \cup {p}]
           f == [disk[n].files EXCEPT ![p] = n]
           d == [disk[n] EXCEPT !.files = f]
<1>1. /\ try[n].at = "reading" /\ try' = [try EXCEPT ![n] = t]
      /\ disk' = [disk EXCEPT ![n] = d]
      /\ UNCHANGED <<sampled, task, row, expired, reader>>
  BY DEF E!Fetch, E!Reference
<1>2. t \in TryType /\ t.at = "reading" /\ t.pages = try[n].pages \cup {p}
  BY <1>1, EvidenceTypes DEF TryType
<1>3. /\ f \in [Page -> 0..E!Damaged] /\ f[p] = n
      /\ \A q \in Page : q # p => f[q] = disk[n].files[q]
  <2>1. disk[n].files \in [Page -> 0..E!Damaged] /\ n \in 0..E!Damaged
    BY EvidenceTypes, EvidenceLimits DEF DirectoryType
  <2> QED BY <2>1
<1> HIDE DEF t, f
<1>4. d \in DirectoryType /\ d.files = f /\ d.manifest = disk[n].manifest
  BY <1>3, EvidenceTypes DEF DirectoryType
<1> HIDE DEF d
<1>5. /\ try'[n] = t /\ disk'[n] = d
      /\ \A m \in E!Try : m # n => try'[m] = try[m] /\ disk'[m] = disk[m]
  BY <1>1, EvidenceTypes
<1>6. disk[n].manifest = NoManifest /\ \A q \in Page : disk[n].files[q] # E!Damaged
  BY <1>1 DEF EvidenceInv, DirectoryFits
<1>7. DirectoryFits(n)'
  <2>1. /\ n <= task.claims
        /\ \A q \in Page :
              /\ disk[n].files[q] \in {E!Absent, n, E!Damaged}
              /\ q \in try[n].pages => disk[n].files[q] \in {n, E!Damaged} \/ n \in expired
    BY <1>1 DEF EvidenceInv, DirectoryFits
  <2>2. ASSUME NEW q \in Page
        PROVE  /\ d.files[q] \in {E!Absent, n, E!Damaged}
               /\ d.files[q] # E!Damaged
               /\ q \in t.pages => d.files[q] \in {n, E!Damaged} \/ n \in expired
    <3>1. n # E!Damaged
      BY EvidenceLimits
    <3>2. CASE q = p
      BY <1>3, <1>4, <3>1, <3>2
    <3>3. CASE q # p
      BY <1>2, <1>3, <1>4, <1>6, <2>1, <3>3
    <3> QED BY <3>2, <3>3
  <2>3. expired' = expired /\ task' = task
    BY <1>1
  <2> QED BY <1>2, <1>4, <1>5, <1>6, <2>1, <2>2, <2>3, DirectoryLeft
<1>8. SnapshotRow'
  BY <1>1, <1>2, <1>5, RowStays
<1>9. row.digest # NoManifest => task.status = "succeeded"
  BY DEF EvidenceInv, SnapshotRow
<1>10. task' = task /\ row' = row /\ task.claims >= task.claims
  BY <1>1, EvidenceTypes
<1> QED BY <1>1, <1>2, <1>4, <1>6, <1>7, <1>8, <1>9, <1>10, EvidenceTypes, DirectoryStep

\* The reading ends, with a manifest that is complete or is not.
LEMMA EndReading ==
    ASSUME EvidenceInv, NEW n \in E!Try, NEW complete \in BOOLEAN, NEW at \in {"read", "over"},
           try[n].at = "reading", at = "read" => complete,
           disk' = [disk EXCEPT ![n].manifest = E!ManifestOf(n, complete)],
           try' = [try EXCEPT ![n].at = at], task' \in TaskType,
           task'.claims = task.claims,
           task' = task \/ (task.status = "processing" /\ task'.status = "failed"),
           UNCHANGED <<sampled, row, expired, reader>>
    PROVE  EvidenceInv'
<1> DEFINE t == [try[n] EXCEPT !.at = at]
           d == [disk[n] EXCEPT !.manifest = E!ManifestOf(n, complete)]
<1>1. t \in TryType /\ t.at = at /\ t.pages = try[n].pages
  BY EvidenceTypes DEF TryType
<1>2. /\ E!ManifestOf(n, complete) \in E!Manifest
      /\ E!ManifestOf(n, complete).by = n
      /\ E!ManifestOf(n, complete).pages = try[n].pages
  BY EvidenceTypes DEF E!ManifestOf, E!Manifest, TryType
<1>3. /\ d \in DirectoryType /\ d.files = disk[n].files
      /\ d.manifest = E!ManifestOf(n, complete)
  BY <1>2, EvidenceTypes DEF DirectoryType
<1>4. try' = [try EXCEPT ![n] = t] /\ disk' = [disk EXCEPT ![n] = d]
  OBVIOUS
<1> HIDE DEF t, d
<1>5. /\ try'[n] = t /\ disk'[n] = d
      /\ \A m \in E!Try : m # n => try'[m] = try[m] /\ disk'[m] = disk[m]
  BY <1>4, EvidenceTypes
<1>6. at = "read" => d.manifest = [by |-> n, complete |-> TRUE, pages |-> t.pages]
  BY <1>1, <1>3 DEF E!ManifestOf
<1>7. DirectoryFits(n)'
  <2>1. d.manifest # NoManifest
    BY <1>2, <1>3, EvidenceLimits
  <2>2. /\ n <= task.claims
        /\ \A q \in Page :
              /\ d.files[q] \in {E!Absent, n, E!Damaged}
              /\ q \in t.pages => d.files[q] \in {n, E!Damaged} \/ n \in expired
    BY <1>1, <1>3 DEF EvidenceInv, DirectoryFits
  <2>3. d.manifest.by = n /\ d.manifest.pages = t.pages /\ n <= task'.claims
    BY <1>1, <1>2, <1>3, <2>2
  <2> QED BY <1>1, <1>5, <1>6, <2>1, <2>2, <2>3, DirectoryLeft
<1>8. SnapshotRow'
  BY <1>1, <1>5, RowStays
<1>9. /\ row.digest # NoManifest => row' = row /\ task'.status = "succeeded"
      /\ task'.claims >= task.claims
  <2>1. row.digest # NoManifest => task.status = "succeeded"
    BY DEF EvidenceInv, SnapshotRow
  <2>2. task.claims \in Nat
    BY EvidenceTypes
  <2> QED BY <2>1, <2>2
<1>10. row' = row /\ row \in RowType
  BY EvidenceTypes
<1>11. \A p \in Page : disk[n].files[p] = E!Damaged => d.files[p] = E!Damaged \/ n \in expired
  BY <1>3
<1>12. row' \in RowType
  BY <1>10
<1> QED BY <1>1, <1>3, <1>4, <1>7, <1>8, <1>9, <1>11, <1>12, DirectoryStep

LEMMA FinishEvidence ==
    ASSUME EvidenceInv, NEW n \in E!Try, E!Finish(n) \/ E!BreakOff(n)
    PROVE  EvidenceInv'
<1>1. CASE E!Finish(n)
  <2>1. task' = task /\ task \in TaskType
    BY <1>1, EvidenceTypes DEF E!Finish
  <2> QED BY <1>1, <2>1, EndReading DEF E!Finish, E!Reference
<1>2. CASE E!BreakOff(n)
  <2>1. /\ try[n].at = "reading"
        /\ disk' = [disk EXCEPT ![n].manifest = E!ManifestOf(n, FALSE)]
        /\ try' = [try EXCEPT ![n].at = "over"]
        /\ UNCHANGED <<sampled, row, expired, reader>>
    BY <1>2 DEF E!BreakOff, E!Reference
  <2>2. \/ task' = task
        \/ task.status = "processing" /\ task' = [task EXCEPT !.status = "failed"]
    BY <1>2 DEF E!BreakOff, E!Owned
  <2>3. /\ task' \in TaskType /\ task'.claims = task.claims
        /\ task' = task \/ (task.status = "processing" /\ task'.status = "failed")
    <3>1. CASE task' = task
      BY <3>1, EvidenceTypes
    <3>2. CASE task.status = "processing" /\ task' = [task EXCEPT !.status = "failed"]
      BY <3>2, EvidenceTypes DEF TaskType
    <3> QED BY <2>2, <3>1, <3>2
  <2> QED BY <2>1, <2>3, EndReading
<1> QED BY <1>1, <1>2

\* A claim is over: what it wrote stays, and with its commit the row and the job end.
LEMMA OverEvidence ==
    ASSUME EvidenceInv, NEW n \in E!Try, try[n].at # "none", try[n].at # "over",
           try' = [try EXCEPT ![n].at = "over"],
           task' \in TaskType, task'.claims = task.claims, row' \in RowType,
           row.digest # NoManifest => row' = row /\ task'.status = "succeeded",
           SnapshotRow', UNCHANGED <<sampled, disk, expired, reader>>
    PROVE  EvidenceInv'
<1> DEFINE t == [try[n] EXCEPT !.at = "over"]
<1>1. /\ t \in TryType /\ t.at = "over" /\ t.pages = try[n].pages
      /\ try' = [try EXCEPT ![n] = t]
  BY EvidenceTypes DEF TryType
<1> HIDE DEF t
<1>2. /\ try'[n] = t /\ disk'[n] = disk[n] /\ disk[n] \in DirectoryType
      /\ disk' = [disk EXCEPT ![n] = disk[n]]
  BY <1>1, EvidenceTypes
<1>3. DirectoryFits(n)'
  <2>1. /\ n <= task.claims
        /\ disk[n].manifest # NoManifest =>
              disk[n].manifest.by = n /\ disk[n].manifest.pages = try[n].pages
        /\ \A p \in Page :
              /\ disk[n].files[p] \in {E!Absent, n, E!Damaged}
              /\ disk[n].files[p] = E!Damaged => disk[n].manifest # NoManifest
              /\ p \in try[n].pages => disk[n].files[p] \in {n, E!Damaged} \/ n \in expired
    BY DEF EvidenceInv, DirectoryFits
  <2> QED BY <1>1, <1>2, <2>1, DirectoryLeft
<1>4. task'.claims >= task.claims
  BY EvidenceTypes
<1> QED BY <1>1, <1>2, <1>3, <1>4, DirectoryStep

LEMMA CommitEvidence ==
    ASSUME EvidenceInv, NEW n \in E!Try, E!Commit(n)
    PROVE  EvidenceInv'
<1>1. /\ try[n].at = "read" /\ try' = [try EXCEPT ![n].at = "over"]
      /\ UNCHANGED <<sampled, disk, expired, reader>>
  BY DEF E!Commit
<1>2. /\ try[n] \in TryType /\ try'[n].at = "over" /\ try'[n].pages = try[n].pages
      /\ \A m \in E!Try : m # n => try'[m] = try[m]
  BY <1>1, EvidenceTypes DEF TryType
<1>3. row.digest # NoManifest => task.status = "succeeded"
  BY DEF EvidenceInv, SnapshotRow
<1>4. CASE /\ E!MayCommit(n)
           /\ row' = [row EXCEPT !.digest = E!ManifestOf(n, TRUE)]
           /\ task' = [task EXCEPT !.status = "succeeded"]
  <2>1. /\ E!ManifestOf(n, TRUE) \in E!Manifest /\ E!ManifestOf(n, TRUE) # NoManifest
        /\ E!ManifestOf(n, TRUE)' = E!ManifestOf(n, TRUE)
    <3>1. try[n].pages \subseteq Page /\ try'[n].pages = try[n].pages
      BY <1>2 DEF TryType
    <3>2. E!ManifestOf(n, TRUE) \in E!Manifest
      BY <3>1 DEF E!ManifestOf, E!Manifest
    <3>3. E!ManifestOf(n, TRUE)' = E!ManifestOf(n, TRUE)
      BY <3>1 DEF E!ManifestOf
    <3> QED BY <3>2, <3>3, EvidenceLimits
  <2>2. /\ row' \in RowType /\ row'.digest = E!ManifestOf(n, TRUE) /\ row'.ref = row.ref
        /\ task' \in TaskType /\ task'.status = "succeeded" /\ task'.claims = task.claims
    BY <1>4, <2>1, EvidenceTypes DEF RowType, TaskType
  <2>3. task.claims = n /\ task.status = "processing"
    BY <1>4 DEF E!MayCommit, E!Owned
  <2>4. row.ref = n /\ disk[n].manifest = E!ManifestOf(n, TRUE)
    BY <1>1, <2>3 DEF EvidenceInv, SnapshotRow, DirectoryFits
  <2>5. SnapshotRow'
    BY <1>1, <1>2, <2>1, <2>2, <2>3, <2>4 DEF SnapshotRow
  <2>6. row.digest = NoManifest
    BY <1>3, <2>3
  <2> QED BY <1>1, <2>2, <2>5, <2>6, OverEvidence
<1>5. CASE task.status = "processing" /\ task' = [task EXCEPT !.status = "failed"]
           /\ UNCHANGED row
  <2>1. /\ task' \in TaskType /\ task'.status = "failed" /\ task'.claims = task.claims
        /\ row' \in RowType
    BY <1>5, EvidenceTypes DEF TaskType
  <2>2. SnapshotRow'
    BY <1>1, <1>2, <1>5, <2>1, RowStays
  <2> QED BY <1>1, <1>3, <1>5, <2>1, <2>2, OverEvidence
<1>6. CASE UNCHANGED <<row, task>>
  <2>1. SnapshotRow'
    BY <1>1, <1>2, <1>6, RowStays
  <2> QED BY <1>1, <1>3, <1>6, <2>1, OverEvidence, EvidenceTypes
<1> QED BY <1>4, <1>5, <1>6 DEF E!Commit, E!Owned

LEMMA CrashEvidence ==
    ASSUME EvidenceInv, NEW n \in E!Try, E!Crash(n)
    PROVE  EvidenceInv'
<1>1. /\ try[n].at # "none" /\ try[n].at # "over" /\ try' = [try EXCEPT ![n].at = "over"]
      /\ UNCHANGED <<sampled, task, row, disk, expired, reader>>
  BY DEF E!Crash
<1>2. /\ try[n] \in TryType /\ try'[n].at = "over"
      /\ \A m \in E!Try : m # n => try'[m] = try[m]
  BY <1>1, EvidenceTypes DEF TryType
<1>3. SnapshotRow'
  BY <1>1, <1>2, RowStays
<1>4. row.digest # NoManifest => task.status = "succeeded"
  BY DEF EvidenceInv, SnapshotRow
<1> QED BY <1>1, <1>3, <1>4, OverEvidence, EvidenceTypes

\* The lease runs out, or the job ends without a result: it had none.
LEMMA JobEvidence ==
    ASSUME EvidenceInv, E!LeaseRunsOut \/ E!EndElsewhere
    PROVE  EvidenceInv'
<1>1. /\ task.status \in {"queued", "processing"}
      /\ UNCHANGED <<sampled, row, try, disk, expired, reader>>
  BY DEF E!LeaseRunsOut, E!EndElsewhere
<1>2. /\ task' \in TaskType /\ task'.claims = task.claims /\ task'.status # "succeeded"
  <2>1. CASE E!LeaseRunsOut
    BY <1>1, <2>1, EvidenceTypes DEF E!LeaseRunsOut, TaskType
  <2>2. CASE task' = [task EXCEPT !.status = "cancelled"]
    BY <2>2, EvidenceTypes DEF TaskType
  <2>3. CASE task' = [task EXCEPT !.status = "failed"]
    BY <2>3, EvidenceTypes DEF TaskType
  <2> QED BY <2>1, <2>2, <2>3 DEF E!EndElsewhere
<1>3. row.digest = NoManifest
  BY <1>1 DEF EvidenceInv, SnapshotRow
<1>4. SnapshotRow'
  BY <1>1, <1>2, <1>3 DEF EvidenceInv, SnapshotRow
<1>5. E!TypeOK'
  BY <1>1, <1>2, EvidenceTypes
     DEF EvidenceInv, E!TypeOK, TaskType, RowType, TryType, DirectoryType
<1>6. ASSUME NEW n \in E!Try
      PROVE  DirectoryFits(n)'
  <2>1. /\ task'.claims \in Nat /\ task'.claims >= task.claims
        /\ try'[n] = try[n] /\ disk'[n] = disk[n] /\ expired' = expired
    BY <1>1, <1>2, EvidenceTypes
  <2> QED BY <2>1, DirectoryKept
<1>7. ReaderFits' /\ E!ReaderTold'
  <2>1. \A r \in E!Try : E!WasDamaged(r) => E!WasDamaged(r)'
    BY <1>1 DEF E!WasDamaged
  <2> QED BY <1>1, <1>3, <2>1, ReaderKept
<1> QED BY <1>4, <1>5, <1>6, <1>7 DEF EvidenceInv

LEMMA ExpireEvidence ==
    ASSUME EvidenceInv, NEW n \in E!Try, E!Expire(n)
    PROVE  EvidenceInv'
<1>1. expired' = expired \cup {n} /\ UNCHANGED <<sampled, task, row, try, disk, reader>>
  BY DEF E!Expire
<1>2. E!TypeOK'
  BY <1>1, EvidenceTypes
     DEF EvidenceInv, E!TypeOK, TaskType, RowType, TryType, DirectoryType
<1>3. ASSUME NEW m \in E!Try
      PROVE  DirectoryFits(m)'
  <2>1. /\ task'.claims \in Nat /\ task'.claims >= task.claims
        /\ try'[m] = try[m] /\ disk'[m] = disk[m] /\ expired \subseteq expired'
    BY <1>1, EvidenceTypes
  <2> QED BY <2>1, DirectoryKept
<1>4. SnapshotRow'
  BY <1>1 DEF EvidenceInv, SnapshotRow, E!ManifestOf
<1>5. ReaderFits' /\ E!ReaderTold'
  <2>1. \A r \in E!Try : E!WasDamaged(r) => E!WasDamaged(r)'
    BY <1>1 DEF E!WasDamaged
  <2>2. row.digest # NoManifest => task'.status = "succeeded"
    BY <1>1 DEF EvidenceInv, SnapshotRow
  <2> QED BY <1>1, <2>1, <2>2, ReaderKept
<1> QED BY <1>2, <1>3, <1>4, <1>5 DEF EvidenceInv

\* A file goes, past its days, or is damaged; the manifest stays.
LEMMA FileEvidence ==
    ASSUME EvidenceInv, NEW n \in E!Try, NEW p \in Page, NEW x \in {E!Absent, E!Damaged},
           disk' = [disk EXCEPT ![n].files[p] = x], disk[n].manifest # NoManifest,
           x = E!Absent => n \in expired,
           UNCHANGED <<sampled, task, row, try, expired, reader>>
    PROVE  EvidenceInv'
<1> DEFINE f == [disk[n].files EXCEPT ![p] = x]
           d == [disk[n] EXCEPT !.files = f]
<1>1. disk' = [disk EXCEPT ![n] = d] /\ try[n] \in TryType /\ try' = [try EXCEPT ![n] = try[n]]
  BY EvidenceTypes
<1>2. /\ f \in [Page -> 0..E!Damaged] /\ f[p] = x
      /\ \A q \in Page : q # p => f[q] = disk[n].files[q]
  <2>1. disk[n].files \in [Page -> 0..E!Damaged] /\ x \in 0..E!Damaged
    BY EvidenceTypes, EvidenceLimits DEF DirectoryType
  <2> QED BY <2>1
<1> HIDE DEF f
<1>3. d \in DirectoryType /\ d.files = f /\ d.manifest = disk[n].manifest
  BY <1>2, EvidenceTypes DEF DirectoryType
<1> HIDE DEF d
<1>4. /\ disk'[n] = d /\ try'[n] = try[n]
      /\ \A m \in E!Try : m # n => disk'[m] = disk[m]
      /\ \A m \in E!Try : disk'[m].manifest = disk[m].manifest
  BY <1>1, <1>3, EvidenceTypes
<1>5. DirectoryFits(n)'
  <2>1. ASSUME NEW q \in Page
        PROVE  /\ d.files[q] \in {E!Absent, n, E!Damaged}
               /\ q \in try[n].pages => d.files[q] \in {n, E!Damaged} \/ n \in expired
    <3>1. CASE q = p
      BY <1>2, <1>3, <3>1
    <3>2. CASE q # p
      BY <1>2, <1>3, <3>2 DEF EvidenceInv, DirectoryFits
    <3> QED BY <3>1, <3>2
  <2>2. /\ try[n].at # "none" => n <= task.claims
        /\ try[n].at \in {"none", "claimed", "reading"} => d.manifest = NoManifest
        /\ try[n].at \in {"none", "claimed"} => try[n].pages = {}
        /\ try[n].at = "read" => d.manifest = E!ManifestOf(n, TRUE)
        /\ d.manifest # NoManifest => d.manifest.by = n /\ d.manifest.pages = try[n].pages
    BY <1>3 DEF EvidenceInv, DirectoryFits
  <2> QED BY <1>3, <1>4, <2>1, <2>2, DirectoryLeft DEF E!ManifestOf
<1>6. SnapshotRow'
  <2>1. row.ref \in E!Try /\ SnapshotRow
    BY EvidenceTypes DEF EvidenceInv, RowType
  <2>2. E!ManifestOf(row.ref, TRUE)' = E!ManifestOf(row.ref, TRUE)
    BY DEF E!ManifestOf
  <2> QED BY <1>4, <2>1, <2>2 DEF SnapshotRow
<1>7. \A q \in Page : disk[n].files[q] = E!Damaged => d.files[q] = E!Damaged \/ n \in expired
  BY <1>2, <1>3
<1>8. /\ row.digest # NoManifest => row' = row /\ task'.status = "succeeded"
      /\ row' \in RowType /\ task' \in TaskType /\ task'.claims >= task.claims
  <2>1. row.digest # NoManifest => task.status = "succeeded"
    BY DEF EvidenceInv, SnapshotRow
  <2> QED BY <2>1, EvidenceTypes
<1> QED BY <1>1, <1>3, <1>5, <1>6, <1>7, <1>8, DirectoryStep

\* A reader goes on, and nothing else.
LEMMA ReaderStep ==
    ASSUME EvidenceInv, UNCHANGED <<sampled, task, row, try, disk, expired>>,
           reader'.at \in {"idle", "row", "files", "done"}, ReaderFits', E!ReaderTold'
    PROVE  EvidenceInv'
<1>1. E!TypeOK'
  BY DEF EvidenceInv, E!TypeOK
<1>2. SnapshotRow'
  BY DEF EvidenceInv, SnapshotRow, E!ManifestOf
<1>3. ASSUME NEW n \in E!Try
      PROVE  DirectoryFits(n)'
  BY DEF EvidenceInv, DirectoryFits, E!ManifestOf
<1> QED BY <1>1, <1>2, <1>3 DEF EvidenceInv

\* An answer that is true of what was read.
LEMMA AnswerStep ==
    ASSUME EvidenceInv, reader.at # "idle", UNCHANGED <<sampled, task, row, try, disk, expired>>,
           NEW state, E!Answer(state),
           state = "invalid" =>
              E!WasDamaged(reader.row.ref) \/ reader.row.ref \in expired,
           state \in {"missing", "incomplete"} <=> reader.row.digest = NoManifest
    PROVE  EvidenceInv'
<1>1. reader' = [at |-> "done", row |-> reader.row, state |-> state]
  BY DEF E!Answer
<1>2. reader'.at = "done" /\ reader'.row = reader.row /\ reader'.state = state
  BY <1>1
<1>3. reader.row \in RowType /\ (reader.row.digest # NoManifest => reader.row = row)
  BY DEF EvidenceInv, ReaderFits
<1>4. ReaderFits'
  BY <1>2, <1>3 DEF ReaderFits, RowType
<1>5. state = "available" => task.status = "succeeded"
  BY <1>3 DEF EvidenceInv, SnapshotRow
<1>6. E!ReaderTold'
  BY <1>2, <1>5 DEF E!ReaderTold, E!WasDamaged
<1> QED BY <1>2, <1>4, <1>6, ReaderStep

LEMMA LookEvidence ==
    ASSUME EvidenceInv, E!Ask \/ E!LookAtManifest \/ E!Conclude \/ \E p \in Page : E!LookAtFile(p)
    PROVE  EvidenceInv'
<1>1. UNCHANGED <<sampled, task, row, try, disk, expired>>
  BY DEF E!Ask, E!LookAtManifest, E!Conclude, E!LookAtFile
<1>2. CASE E!Ask
  <2>1. reader' = [at |-> "row", row |-> row]
    BY <1>2 DEF E!Ask
  <2>2. reader'.at = "row" /\ reader'.row = row /\ row \in RowType
    BY <2>1, EvidenceTypes
  <2>3. ReaderFits' /\ E!ReaderTold'
    BY <1>1, <2>2 DEF ReaderFits, E!ReaderTold, RowType
  <2> QED BY <1>1, <2>2, <2>3, ReaderStep
<1>3. CASE E!LookAtManifest
  <2> DEFINE found == disk[reader.row.ref].manifest
  <2>1. /\ reader.at = "row" /\ reader.row \in RowType
        /\ reader.row.digest # NoManifest => reader.row = row /\ row.digest = found
    BY <1>3 DEF E!LookAtManifest, EvidenceInv, ReaderFits, SnapshotRow
  <2>2. CASE found = NoManifest /\ E!Answer("missing")
    BY <1>1, <2>1, <2>2, AnswerStep
  <2>3. CASE reader.row.digest = NoManifest /\ E!Answer("incomplete")
    BY <1>1, <2>1, <2>3, AnswerStep
  <2>4. CASE reader.row.digest \notin {NoManifest, found}
    BY <2>1, <2>4
  <2>5. CASE reader.row.digest # NoManifest /\ E!Answer("expired")
    BY <1>1, <2>1, <2>5, AnswerStep
  <2>6. CASE /\ found # NoManifest /\ reader.row.digest = found
             /\ reader' = [at |-> "files", row |-> reader.row, left |-> found.pages]
    <3>1. /\ reader'.at = "files" /\ reader'.row = reader.row /\ reader'.left = found.pages
          /\ reader' = [at |-> "files", row |-> reader'.row, left |-> reader'.left]
      BY <2>6
    <3>2. ReaderFits' /\ E!ReaderTold'
      BY <1>1, <2>1, <2>6, <3>1 DEF ReaderFits, E!ReaderTold, RowType
    <3> QED BY <1>1, <3>1, <3>2, ReaderStep
  <2> QED BY <1>3, <2>2, <2>3, <2>4, <2>5, <2>6 DEF E!LookAtManifest
<1>4. CASE E!Conclude
  <2>1. /\ reader.at = "files" /\ reader.row \in RowType /\ reader.row = row
        /\ reader.row.digest # NoManifest
    BY <1>4 DEF E!Conclude, EvidenceInv, ReaderFits
  <2>2. reader.row.digest.complete
    BY <2>1 DEF EvidenceInv, SnapshotRow, E!ManifestOf
  <2>3. E!Answer("available")
    BY <1>4, <2>2 DEF E!Conclude
  <2> QED BY <1>1, <2>1, <2>3, AnswerStep
<1>5. ASSUME NEW p \in Page, E!LookAtFile(p)
      PROVE  EvidenceInv'
  <2>1. /\ reader.at = "files" /\ p \in reader.left /\ reader.row \in RowType
        /\ reader.row = row /\ reader.row.digest # NoManifest
        /\ reader = [at |-> "files", row |-> reader.row, left |-> reader.left]
        /\ reader.left \subseteq reader.row.digest.pages
    BY <1>5 DEF E!LookAtFile, EvidenceInv, ReaderFits
  <2>2. CASE reader' = [reader EXCEPT !.left = @ \ {p}]
    <3>1. reader' = [at |-> "files", row |-> reader.row, left |-> reader.left \ {p}]
      BY <2>1, <2>2
    <3>2. /\ reader'.at = "files" /\ reader'.row = reader.row /\ reader'.left = reader.left \ {p}
          /\ reader' = [at |-> "files", row |-> reader'.row, left |-> reader'.left]
      BY <3>1
    <3>3. ReaderFits' /\ E!ReaderTold'
      BY <1>1, <2>1, <3>2 DEF ReaderFits, E!ReaderTold, RowType
    <3> QED BY <1>1, <3>2, <3>3, ReaderStep
  <2>3. CASE disk[reader.row.ref].files[p] # reader.row.digest.by /\ E!Answer("invalid")
    <3>1. /\ reader.row.ref \in E!Try /\ reader.row.digest.by = reader.row.ref
          /\ p \in try[reader.row.ref].pages
      BY <2>1 DEF EvidenceInv, SnapshotRow, E!ManifestOf, RowType
    <3>2. DirectoryFits(reader.row.ref)
      BY <3>1 DEF EvidenceInv
    <3>3. disk[reader.row.ref].files[p] = E!Damaged \/ reader.row.ref \in expired
      BY <2>3, <3>1, <3>2 DEF DirectoryFits
    <3> QED BY <1>1, <2>1, <2>3, <3>3, AnswerStep DEF E!WasDamaged
  <2> QED BY <1>5, <2>2, <2>3 DEF E!LookAtFile
<1> QED BY <1>2, <1>3, <1>4, <1>5

LEMMA NextEvidence ==
    ASSUME EvidenceInv, [E!Next]_evidenceVars
    PROVE  EvidenceInv'
<1>1. CASE UNCHANGED evidenceVars
  <2>1. UNCHANGED <<sampled, task, row, try, disk, expired, reader>>
    BY <1>1 DEF evidenceVars
  <2>2. reader'.at \in {"idle", "row", "files", "done"}
    BY <2>1 DEF EvidenceInv, E!TypeOK
  <2>3. ReaderFits' /\ E!ReaderTold'
    BY <2>1 DEF EvidenceInv, ReaderFits, E!ReaderTold, E!WasDamaged
  <2> QED BY <2>1, <2>2, <2>3, ReaderStep
<1>2. ASSUME NEW n \in E!Try, NEW p \in Page, E!Prune(n, p)
      PROVE  EvidenceInv'
  <2>1. /\ disk' = [disk EXCEPT ![n].files[p] = E!Absent] /\ n \in expired
        /\ disk[n].manifest # NoManifest
        /\ UNCHANGED <<sampled, task, row, try, expired, reader>>
    BY <1>2 DEF E!Prune, E!Due
  <2> QED BY <2>1, FileEvidence
<1>3. ASSUME NEW n \in E!Try, NEW p \in Page, E!Damage(n, p)
      PROVE  EvidenceInv'
  <2>1. /\ disk' = [disk EXCEPT ![n].files[p] = E!Damaged] /\ E!Damaged # E!Absent
        /\ disk[n].manifest # NoManifest
        /\ UNCHANGED <<sampled, task, row, try, expired, reader>>
    BY <1>3, EvidenceLimits DEF E!Damage
  <2> QED BY <2>1, FileEvidence
<1> QED
  BY <1>1, <1>2, <1>3, ClaimEvidence, StartEvidence, FetchEvidence, FinishEvidence, CommitEvidence,
     CrashEvidence, JobEvidence, ExpireEvidence, LookEvidence DEF E!Next

LEMMA InitEvidence == E!Init => EvidenceInv
<1> SUFFICES ASSUME E!Init PROVE EvidenceInv
  OBVIOUS
<1>1. /\ sampled \in BOOLEAN /\ expired = {} /\ reader = [at |-> "idle"]
      /\ task = [status |-> "queued", claims |-> 0, held |-> FALSE]
      /\ row = [ref |-> 1, digest |-> NoManifest]
      /\ try = [n \in E!Try |-> [at |-> "none", pages |-> {}]]
      /\ disk = [r \in E!Try |-> [files |-> [p \in Page |-> E!Absent], manifest |-> NoManifest]]
  BY DEF E!Init
<1>2. E!TypeOK
  BY <1>1, EvidenceLimits DEF E!TypeOK
<1>3. SnapshotRow /\ ReaderFits /\ E!ReaderTold
  BY <1>1 DEF SnapshotRow, ReaderFits, E!ReaderTold
<1>4. ASSUME NEW n \in E!Try
      PROVE  DirectoryFits(n)
  <2>1. try[n] = [at |-> "none", pages |-> {}] /\ disk[n].manifest = NoManifest
        /\ \A p \in Page : disk[n].files[p] = E!Absent
    BY <1>1
  <2> QED BY <2>1, EvidenceLimits DEF DirectoryFits
<1> QED BY <1>2, <1>3, <1>4 DEF EvidenceInv

LEMMA EvidenceTold == EvidenceInv => E!EvidenceTruthful
<1> SUFFICES ASSUME EvidenceInv, row.digest # NoManifest PROVE E!SnapshotKept
  BY DEF E!EvidenceTruthful, E!SnapshotKept, EvidenceInv
<1>1. /\ task.status = "succeeded" /\ row.ref = task.claims /\ row.ref \in E!Try
      /\ row.digest = E!ManifestOf(row.ref, TRUE) /\ disk[row.ref].manifest = row.digest
  BY EvidenceTypes DEF EvidenceInv, SnapshotRow, RowType
<1>2. row.digest.by = row.ref /\ row.digest.pages = try[row.ref].pages
  BY <1>1 DEF E!ManifestOf
<1>3. \A p \in row.digest.pages :
         disk[row.ref].files[p] \in {row.digest.by, E!Damaged} \/ row.ref \in expired
  <2>1. DirectoryFits(row.ref) /\ try[row.ref].pages \subseteq Page
    BY <1>1, EvidenceTypes DEF EvidenceInv, TryType
  <2> QED BY <1>1, <1>2, <2>1 DEF DirectoryFits
<1> QED BY <1>1, <1>3 DEF E!SnapshotKept

-----------------------------------------------------------------------------
(* AiActivity *)

\* A history whose last phase is open while the exploration goes on, written by no
\* claim later than k, that tells the end st of the exploration.
Tells(h, st, k) ==
    /\ h \in Seq(A!Entry) /\ Len(h) >= 1
    /\ \A i \in 1..Len(h) :
          /\ (h[i].status = "running") <=> (i = Len(h) /\ st \notin A!Ended)
          /\ h[i].by <= k
    /\ \A i, j \in 1..Len(h) : i < j => h[i].by <= h[j].by
    /\ st = "failed"    <=> \E i \in 1..Len(h) : h[i].status = "failed"
    /\ st = "succeeded" <=> \E i \in 1..Len(h) : h[i].phase = "completed"

\* The claims that began an attempt.
Began == {n \in A!Claims : worker[n].attempt # 0}

\* A worker's claim was given out; what it runs is an attempt of its own.
WorkersFit ==
    /\ Len(attempts) = Cardinality(Began)
    /\ \A n \in A!Claims :
          /\ worker[n].at # "none" => n <= aiJob.claims
          /\ worker[n].at \in {"none", "claimed"} => worker[n].attempt = 0
          /\ worker[n].at \in {"exploring", "calling"} => worker[n].attempt # 0
          /\ worker[n].attempt <= Len(attempts)

\* The job ends with the operation, and its attempts by then.
JobFits ==
    /\ aiJob.status = "completed" <=> operation.status = "succeeded"
    /\ aiJob.status = "failed" <=> operation.status \in A!Ended \ {"succeeded"}
    /\ \A i \in DOMAIN attempts : attempts[i] \in A!Ended => operation.status = attempts[i]
    /\ operation.status = "succeeded" <=> \E i \in DOMAIN attempts : attempts[i] = "succeeded"

ActivityInv ==
    /\ A!TypeOK /\ A!BillKept /\ WorkersFit /\ JobFits
    /\ aiRun.activity = operation.activity
    /\ Tells(operation.activity, operation.status, aiJob.claims)

LEMMA ActivityLimits ==
    /\ "completed" \notin Phase /\ MaxClaims \in Nat /\ MaxCalls \in Nat
    /\ A!Claims \subseteq Nat
BY RecordsAssumption DEF A!ActivityAssumption, A!Claims

\* Closing the open phase of a history.
LEMMA ClosedTells ==
    ASSUME NEW h, NEW st, st \notin A!Ended, NEW k \in Nat, Tells(h, st, k),
           NEW s \in {"succeeded", "failed"}
    PROVE  /\ A!Closed(h, s) \in Seq(A!Entry) /\ Len(A!Closed(h, s)) = Len(h)
           /\ \A i \in 1..Len(h) :
                 /\ A!Closed(h, s)[i].by = h[i].by
                 /\ A!Closed(h, s)[i].phase = h[i].phase
                 /\ A!Closed(h, s)[i].status # "running"
                 /\ A!Closed(h, s)[i].status = "failed" <=> i = Len(h) /\ s = "failed"
                 /\ A!Closed(h, s)[i].phase # "completed"
           /\ h[Len(h)].status = "running" /\ A!Last(h) = h[Len(h)]
           /\ Len(h) \in Nat /\ Len(h) \in 1..Len(h)
<1>1. /\ h \in Seq(A!Entry) /\ Len(h) \in Nat /\ Len(h) >= 1
      /\ h[Len(h)].status = "running"
  BY DEF Tells
<1>2. h[Len(h)] \in A!Entry /\ A!Last(h) = h[Len(h)]
  BY <1>1 DEF A!Last
<1> DEFINE e == [h[Len(h)] EXCEPT !.status = s]
<1>3. e \in A!Entry /\ e.by = h[Len(h)].by /\ e.phase = h[Len(h)].phase /\ e.status = s
  BY <1>2 DEF A!Entry
<1>4. A!Closed(h, s) = [h EXCEPT ![Len(h)] = e]
  BY <1>1, <1>2 DEF A!Closed
<1> HIDE DEF e
<1>5. /\ A!Closed(h, s) \in Seq(A!Entry) /\ Len(A!Closed(h, s)) = Len(h)
      /\ \A i \in 1..Len(h) : A!Closed(h, s)[i] = IF i = Len(h) THEN e ELSE h[i]
  BY <1>1, <1>3, <1>4
<1>6. ASSUME NEW i \in 1..Len(h)
      PROVE  /\ A!Closed(h, s)[i].by = h[i].by
             /\ A!Closed(h, s)[i].phase = h[i].phase
             /\ A!Closed(h, s)[i].status # "running"
             /\ A!Closed(h, s)[i].status = "failed" <=> i = Len(h) /\ s = "failed"
             /\ A!Closed(h, s)[i].phase # "completed"
  <2>1. h[i].phase # "completed" /\ h[i].status # "failed"
    BY DEF Tells, A!Ended
  <2>2. i # Len(h) => h[i].status # "running"
    BY DEF Tells
  <2> QED BY <1>3, <1>5, <2>1, <2>2
<1> QED BY <1>1, <1>2, <1>5, <1>6

\* A phase is reported by the latest claim.
LEMMA AdvancedTells ==
    ASSUME NEW h, NEW st, st \notin A!Ended, NEW k \in 0..MaxClaims, Tells(h, st, k),
           NEW phase \in Phase
    PROVE  Tells(A!Advanced(h, phase, k), "running", k)
<1> DEFINE c == A!Closed(h, "succeeded")
           e == [phase |-> phase, status |-> "running", by |-> k]
<1>1. k \in Nat /\ k <= k
  BY ActivityLimits
<1>2. /\ c \in Seq(A!Entry) /\ Len(c) = Len(h)
      /\ \A i \in 1..Len(h) : /\ c[i].by = h[i].by /\ c[i].phase # "completed"
                              /\ c[i].status \notin {"running", "failed"}
      /\ A!Last(h) = h[Len(h)] /\ Len(h) \in Nat /\ Len(h) \in 1..Len(h)
  BY <1>1, ClosedTells
<1>3. CASE A!Last(h).phase = phase /\ A!Last(h).status = "running"
  <2>1. A!Advanced(h, phase, k) = h
    BY <1>3 DEF A!Advanced
  <2>2. "running" \notin A!Ended /\ st # "failed" /\ st # "succeeded"
    BY DEF A!Ended
  <2> QED BY <2>1, <2>2 DEF Tells
<1>4. CASE ~(A!Last(h).phase = phase /\ A!Last(h).status = "running")
  <2>1. A!Advanced(h, phase, k) = Append(c, e)
    BY <1>4 DEF A!Advanced
  <2>2. e \in A!Entry /\ e.phase # "completed" /\ e.status = "running" /\ e.by = k
    BY ActivityLimits DEF A!Entry
  <2> DEFINE H == Append(c, e)
  <2> HIDE DEF c, e
  <2>3. /\ H \in Seq(A!Entry) /\ Len(H) = Len(h) + 1
        /\ \A i \in 1..(Len(h) + 1) : H[i] = IF i = Len(h) + 1 THEN e ELSE c[i]
    BY <1>2, <2>2
  <2> HIDE DEF H
  <2>4. \A i \in 1..Len(H) : /\ H[i].status = "running" <=> i = Len(H)
                             /\ H[i].status # "failed" /\ H[i].phase # "completed"
                             /\ H[i].by = IF i = Len(H) THEN k ELSE h[i].by
    BY <1>2, <2>2, <2>3
  <2>5. \A i \in 1..Len(H) : i # Len(H) => i \in 1..Len(h)
    BY <1>2, <2>3
  <2>6. \A i \in 1..Len(h) : h[i].by <= k
    BY DEF Tells
  <2>7. \A i \in 1..Len(H) : H[i].by <= k
    BY <1>1, <2>4, <2>5, <2>6
  <2>8. ASSUME NEW i \in 1..Len(H), NEW j \in 1..Len(H), i < j
        PROVE  H[i].by <= H[j].by
    <3>1. i \in 1..Len(h) /\ H[i].by = h[i].by
      BY <2>4, <2>5, <2>8, <1>2, <2>3
    <3>2. CASE j = Len(H)
      BY <3>1, <3>2, <2>4, <2>6
    <3>3. CASE j # Len(H)
      BY <3>1, <3>3, <2>4, <2>5, <2>8 DEF Tells
    <3> QED BY <3>2, <3>3
  <2>9. "running" \notin A!Ended
    BY DEF A!Ended
  <2>10. Len(H) >= 1
    BY <1>2, <2>3
  <2> QED BY <2>1, <2>3, <2>4, <2>7, <2>8, <2>9, <2>10 DEF Tells, H
<1> QED BY <1>3, <1>4

\* The exploration ends at the hands of the latest claim.
LEMMA FinishedTells ==
    ASSUME NEW h, NEW st, st \notin A!Ended, NEW k \in 0..MaxClaims, Tells(h, st, k),
           NEW end \in A!Ended
    PROVE  Tells(A!Finished(h, end, k), end, k)
<1> DEFINE c == A!Closed(h, IF end = "failed" THEN "failed" ELSE "succeeded")
           e == [phase |-> "completed", status |-> "succeeded", by |-> k]
<1>1. k \in Nat /\ k <= k
  BY ActivityLimits
<1>2. /\ c \in Seq(A!Entry) /\ Len(c) = Len(h)
      /\ \A i \in 1..Len(h) : /\ c[i].by = h[i].by /\ c[i].phase = h[i].phase
                              /\ c[i].phase # "completed"
                              /\ c[i].status # "running"
                              /\ c[i].status = "failed" <=> i = Len(h) /\ end = "failed"
      /\ A!Last(h) = h[Len(h)] /\ Len(h) \in Nat /\ Len(h) \in 1..Len(h)
  <2>1. (IF end = "failed" THEN "failed" ELSE "succeeded") \in {"succeeded", "failed"}
    OBVIOUS
  <2>2. (IF end = "failed" THEN "failed" ELSE "succeeded") = "failed" <=> end = "failed"
    OBVIOUS
  <2> DEFINE s == IF end = "failed" THEN "failed" ELSE "succeeded"
  <2> HIDE DEF s
  <2>3. s \in {"succeeded", "failed"} /\ (s = "failed" <=> end = "failed")
    BY <2>1, <2>2 DEF s
  <2>4. c = A!Closed(h, s)
    BY DEF s
  <2> HIDE DEF c
  <2>5. /\ A!Closed(h, s) \in Seq(A!Entry) /\ Len(A!Closed(h, s)) = Len(h)
        /\ \A i \in 1..Len(h) :
              /\ A!Closed(h, s)[i].by = h[i].by
              /\ A!Closed(h, s)[i].phase = h[i].phase
              /\ A!Closed(h, s)[i].status # "running"
              /\ A!Closed(h, s)[i].status = "failed" <=> i = Len(h) /\ s = "failed"
              /\ A!Closed(h, s)[i].phase # "completed"
        /\ A!Last(h) = h[Len(h)] /\ Len(h) \in Nat /\ Len(h) \in 1..Len(h)
    BY <1>1, <2>3, ClosedTells
  <2> QED BY <2>3, <2>4, <2>5
<1>3. \A i \in 1..Len(h) : h[i].by <= k
  BY DEF Tells
<1>4. \A i, j \in 1..Len(h) : i < j => h[i].by <= h[j].by
  BY DEF Tells
<1>5. CASE end # "succeeded"
  <2>1. A!Finished(h, end, k) = c
    BY <1>5 DEF A!Finished
  <2> HIDE DEF c
  <2>2. \A i, j \in 1..Len(c) : i < j => c[i].by <= c[j].by
    BY <1>2, <1>4
  <2>3. \A i \in 1..Len(c) : c[i].status # "running" /\ c[i].by <= k
    BY <1>2, <1>3
  <2>4. Len(c) >= 1
    BY <1>2
  <2>5. end = "failed" <=> \E i \in 1..Len(c) : c[i].status = "failed"
    BY <1>2
  <2>6. ~\E i \in 1..Len(c) : c[i].phase = "completed"
    BY <1>2
  <2> QED BY <1>2, <1>5, <2>1, <2>2, <2>3, <2>4, <2>5, <2>6 DEF Tells
<1>6. CASE end = "succeeded"
  <2>0. A!Last(h).phase # "completed"
    BY <1>2
  <2>1. A!Finished(h, end, k) = Append(c, e)
    BY <1>6, <2>0 DEF A!Finished
  <2>2. e \in A!Entry /\ e.phase = "completed" /\ e.status = "succeeded" /\ e.by = k
    BY ActivityLimits DEF A!Entry
  <2> DEFINE H == Append(c, e)
  <2> HIDE DEF c, e
  <2>3. /\ H \in Seq(A!Entry) /\ Len(H) = Len(h) + 1
        /\ \A i \in 1..(Len(h) + 1) : H[i] = IF i = Len(h) + 1 THEN e ELSE c[i]
    BY <1>2, <2>2
  <2> HIDE DEF H
  <2>4. \A i \in 1..Len(H) : /\ H[i].status # "running" /\ H[i].status # "failed"
                             /\ H[i].by = IF i = Len(H) THEN k ELSE h[i].by
    BY <1>2, <1>6, <2>2, <2>3
  <2>5. \A i \in 1..Len(H) : i # Len(H) => i \in 1..Len(h)
    BY <1>2, <2>3
  <2>7. \A i \in 1..Len(H) : H[i].by <= k
    BY <1>1, <2>4, <2>5, <1>3
  <2>8. ASSUME NEW i \in 1..Len(H), NEW j \in 1..Len(H), i < j
        PROVE  H[i].by <= H[j].by
    <3>1. i \in 1..Len(h) /\ H[i].by = h[i].by
      BY <2>4, <2>5, <2>8, <1>2, <2>3
    <3>2. CASE j = Len(H)
      BY <3>1, <3>2, <2>4, <1>3
    <3>3. CASE j # Len(H)
      BY <3>1, <3>3, <2>4, <2>5, <2>8, <1>4
    <3> QED BY <3>2, <3>3
  <2>9. Len(H) >= 1 /\ Len(H) \in 1..Len(H) /\ H[Len(H)].phase = "completed"
    BY <1>2, <2>2, <2>3
  <2> QED BY <1>6, <2>1, <2>3, <2>4, <2>7, <2>8, <2>9 DEF Tells, H
<1> QED BY <1>5, <1>6

\* A history is not disturbed by later claims.
LEMMA TellsLater ==
    ASSUME NEW h, NEW st, NEW k \in Nat, NEW l \in Nat, k <= l, Tells(h, st, k), NEW to,
           to = st \/ (st \notin A!Ended /\ to \notin A!Ended)
    PROVE  Tells(h, to, l)
<1>1. \A i \in 1..Len(h) : h[i].by \in Nat /\ h[i].by <= k
  <2>1. h \in Seq(A!Entry)
    BY DEF Tells
  <2>2. \A i \in 1..Len(h) : h[i] \in A!Entry
    BY <2>1
  <2> QED BY <2>2, ActivityLimits DEF A!Entry, Tells
<1>2. \A i \in 1..Len(h) : h[i].by <= l
  BY <1>1
<1> QED BY <1>2 DEF Tells, A!Ended

WorkerType == [at : {"none", "claimed", "exploring", "calling", "gone"}, attempt : 0..MaxClaims]

\* Workers go on, and stop, with the attempts they have.
WorkersGoOn ==
    /\ worker' \in [A!Claims -> WorkerType]
    /\ \A n \in A!Claims :
          /\ worker'[n].attempt = worker[n].attempt
          /\ \/ worker'[n].at = worker[n].at
             \/ worker[n].at # "none" /\ worker'[n].at = "gone"
             \/ /\ worker[n].at \in {"exploring", "calling"}
                /\ worker'[n].at \in {"exploring", "calling"}

LEMMA ActivityTypes ==
    ASSUME ActivityInv
    PROVE  /\ operation \in [status : {"queued", "running"} \cup A!Ended,
                             cancelRequested : BOOLEAN, activity : Seq(A!Entry)]
           /\ aiRun \in [activity : Seq(A!Entry), attemptCount : 0..MaxClaims, calls : 0..MaxCalls]
           /\ attempts \in Seq({"running"} \cup A!Ended) /\ Len(attempts) \in 0..MaxClaims
           /\ invocations \in Seq(1..MaxClaims) /\ Len(invocations) \in 0..MaxCalls
           /\ aiJob \in [status : {"queued", "processing", "completed", "failed"},
                         claims : 0..MaxClaims, held : BOOLEAN]
           /\ aiJob.claims \in 0..MaxClaims
           /\ worker \in [A!Claims -> WorkerType]
<1>1. aiRun.calls = Len(invocations) /\ aiRun.attemptCount = Len(attempts)
  BY DEF ActivityInv, A!BillKept
<1> QED BY <1>1 DEF ActivityInv, A!TypeOK, WorkerType

LEMMA WorkersKept ==
    ASSUME ActivityInv, WorkersGoOn \/ UNCHANGED worker, Len(attempts') = Len(attempts),
           aiJob'.claims = aiJob.claims
    PROVE  WorkersFit' /\ worker' \in [A!Claims -> WorkerType]
<1>1. WorkersGoOn
  BY ActivityTypes DEF WorkersGoOn
<1>2. Began' = Began
  BY <1>1 DEF Began, WorkersGoOn
<1>3. WorkersFit
  BY DEF ActivityInv
<1> QED BY <1>1, <1>2, <1>3 DEF WorkersFit, WorkersGoOn

\* Steps that tell nobody of a phase or an end.
LEMMA QuietActivity ==
    ASSUME ActivityInv, WorkersGoOn \/ UNCHANGED worker,
           operation' \in [status : {"queued", "running"} \cup A!Ended,
                           cancelRequested : BOOLEAN, activity : Seq(A!Entry)],
           operation'.status = operation.status, operation'.activity = operation.activity,
           UNCHANGED <<aiRun, attempts, invocations>>,
           aiJob' \in [status : {"queued", "processing", "completed", "failed"},
                       claims : 0..MaxClaims, held : BOOLEAN],
           aiJob'.status = aiJob.status, aiJob'.claims = aiJob.claims
    PROVE  ActivityInv'
<1>1. WorkersFit' /\ worker' \in [A!Claims -> WorkerType]
  BY WorkersKept
<1>2. A!TypeOK'
  BY <1>1 DEF ActivityInv, A!TypeOK, WorkerType, A!Entry, A!Ended, A!Claims
<1>3. A!BillKept'
  BY DEF ActivityInv, A!BillKept
<1>4. JobFits'
  BY DEF ActivityInv, JobFits
<1>5. Tells(operation.activity, operation.status, aiJob.claims)'
  BY DEF ActivityInv, Tells
<1> QED BY <1>1, <1>2, <1>3, <1>4, <1>5 DEF ActivityInv

\* The exploration ends, and its attempts and its job with it.
LEMMA EndStep ==
    ASSUME ActivityInv, operation.status \notin A!Ended, NEW end \in A!Ended,
           WorkersGoOn \/ UNCHANGED worker,
           operation'.status = end, operation'.cancelRequested \in BOOLEAN,
           operation' = [status |-> end, cancelRequested |-> operation'.cancelRequested,
                         activity |-> A!Finished(operation.activity, end, aiJob.claims)],
           aiRun' = [aiRun EXCEPT !.activity = A!Finished(aiRun.activity, end, aiJob.claims)],
           UNCHANGED invocations,
           attempts' \in Seq({"running"} \cup A!Ended), Len(attempts') = Len(attempts),
           \A i \in 1..Len(attempts) : attempts'[i] \in A!Ended => attempts'[i] = end,
           end = "succeeded" => \E i \in 1..Len(attempts) : attempts'[i] = "succeeded",
           aiJob' \in [status : {"queued", "processing", "completed", "failed"},
                       claims : 0..MaxClaims, held : BOOLEAN],
           aiJob'.claims = aiJob.claims,
           aiJob'.status = IF end = "succeeded" THEN "completed" ELSE "failed"
    PROVE  ActivityInv'
<1>1. aiJob.claims \in 0..MaxClaims
  BY ActivityTypes
<1>2. WorkersFit' /\ worker' \in [A!Claims -> WorkerType]
  BY WorkersKept
<1> DEFINE H == A!Finished(operation.activity, end, aiJob.claims)
<1>3. Tells(H, end, aiJob.claims)
  BY <1>1, FinishedTells DEF ActivityInv
<1>4. H \in Seq(A!Entry) /\ aiRun.activity = operation.activity
  BY <1>3 DEF Tells, ActivityInv
<1>5. /\ operation'.activity = H /\ aiRun' = [aiRun EXCEPT !.activity = H]
      /\ operation' = [status |-> end, cancelRequested |-> operation'.cancelRequested,
                       activity |-> H]
  BY <1>4
<1> HIDE DEF H
<1>6. /\ aiRun' \in [activity : Seq(A!Entry), attemptCount : 0..MaxClaims, calls : 0..MaxCalls]
      /\ aiRun'.activity = H /\ aiRun'.calls = aiRun.calls
      /\ aiRun'.attemptCount = aiRun.attemptCount
  BY <1>4, <1>5, ActivityTypes
<1>7. operation' \in [status : {"queued", "running"} \cup A!Ended,
                      cancelRequested : BOOLEAN, activity : Seq(A!Entry)]
  BY <1>4, <1>5
<1>8. A!TypeOK'
  BY <1>2, <1>6, <1>7, ActivityTypes DEF A!TypeOK, WorkerType, A!Entry, A!Ended, A!Claims
<1>9. DOMAIN attempts' = 1..Len(attempts) /\ DOMAIN attempts = 1..Len(attempts)
  BY ActivityTypes
<1>10. A!BillKept'
  BY <1>6, <1>9 DEF ActivityInv, A!BillKept
<1>11. JobFits'
  <2>1. \A i \in DOMAIN attempts' : attempts'[i] \in A!Ended => end = attempts'[i]
    BY <1>9
  <2>2. end = "succeeded" <=> \E i \in DOMAIN attempts' : attempts'[i] = "succeeded"
    BY <1>9 DEF A!Ended
  <2>3. /\ aiJob'.status = "completed" <=> end = "succeeded"
        /\ aiJob'.status = "failed" <=> end \in A!Ended \ {"succeeded"}
    BY DEF A!Ended
  <2> QED BY <2>1, <2>2, <2>3 DEF JobFits, A!Ended
<1>12. Tells(operation.activity, operation.status, aiJob.claims)'
  BY <1>3, <1>5 DEF Tells, A!Entry, A!Ended
<1> QED BY <1>2, <1>5, <1>6, <1>8, <1>10, <1>11, <1>12 DEF ActivityInv

LEMMA Unended ==
    ASSUME ActivityInv, aiJob.status \in {"queued", "processing"}
    PROVE  operation.status \notin A!Ended
BY DEF ActivityInv, JobFits, A!Ended

LEMMA AttemptsEndedFacts ==
    ASSUME ActivityInv, operation.status \notin A!Ended, NEW end \in A!Ended
    PROVE  /\ A!AttemptsEnded(end) \in Seq({"running"} \cup A!Ended)
           /\ Len(A!AttemptsEnded(end)) = Len(attempts)
           /\ \A i \in 1..Len(attempts) : A!AttemptsEnded(end)[i] = end
<1>1. attempts \in Seq({"running"} \cup A!Ended)
  BY ActivityTypes
<1>2. DOMAIN attempts = 1..Len(attempts) /\ Len(attempts) \in Nat
  BY <1>1
<1>3. \A i \in 1..Len(attempts) : attempts[i] = "running"
  BY <1>1, <1>2 DEF ActivityInv, JobFits
<1>4. /\ DOMAIN A!AttemptsEnded(end) = 1..Len(attempts)
      /\ \A i \in 1..Len(attempts) : A!AttemptsEnded(end)[i] = end
      /\ A!AttemptsEnded(end) = [i \in 1..Len(attempts) |-> end]
  BY <1>2, <1>3 DEF A!AttemptsEnded
<1> QED BY <1>2, <1>4

\* finish_resources, for an end that is no success.
LEMMA FinishStep ==
    ASSUME ActivityInv, operation.status \notin A!Ended, NEW end \in A!Ended, end # "succeeded",
           WorkersGoOn \/ UNCHANGED worker, UNCHANGED invocations, A!FinishResources(end)
    PROVE  ActivityInv'
<1>1. /\ operation' = [operation EXCEPT !.status = end,
                          !.activity = A!Finished(operation.activity, end, aiJob.claims)]
      /\ aiRun' = [aiRun EXCEPT !.activity = A!Finished(aiRun.activity, end, aiJob.claims)]
      /\ attempts' = A!AttemptsEnded(end)
      /\ aiJob' = [aiJob EXCEPT !.status = "failed", !.held = FALSE]
  BY DEF A!FinishResources, A!End, A!UpdateActivity
<1>2. /\ operation'.status = end /\ operation'.cancelRequested \in BOOLEAN
      /\ operation' = [status |-> end, cancelRequested |-> operation'.cancelRequested,
                       activity |-> A!Finished(operation.activity, end, aiJob.claims)]
  BY <1>1, ActivityTypes
<1>3. /\ attempts' \in Seq({"running"} \cup A!Ended) /\ Len(attempts') = Len(attempts)
      /\ \A i \in 1..Len(attempts) : attempts'[i] \in A!Ended => attempts'[i] = end
  BY <1>1, AttemptsEndedFacts
<1>4. /\ aiJob' \in [status : {"queued", "processing", "completed", "failed"},
                     claims : 0..MaxClaims, held : BOOLEAN]
      /\ aiJob'.claims = aiJob.claims /\ aiJob'.status = "failed"
  BY <1>1, ActivityTypes
<1> QED BY <1>1, <1>2, <1>3, <1>4, EndStep

LEMMA ClaimActivity ==
    ASSUME ActivityInv, A!Claim
    PROVE  ActivityInv'
<1>1. aiJob.status \in {"queued", "processing"} /\ operation.status \notin A!Ended
  BY Unended DEF A!Claim
<1>2. CASE \/ A!FinishResources("cancelled") /\ UNCHANGED <<worker, invocations>>
           \/ A!FinishResources("failed") /\ UNCHANGED <<worker, invocations>>
  BY <1>1, <1>2, FinishStep DEF A!Ended
<1>3. CASE /\ aiJob.claims < MaxClaims
           /\ aiJob' = [status |-> "processing", claims |-> aiJob.claims + 1, held |-> TRUE]
           /\ A!Move(aiJob.claims + 1, "none", "claimed")
           /\ UNCHANGED <<operation, aiRun, attempts, invocations>>
  <2> DEFINE m == aiJob.claims + 1
  <2>1. m \in A!Claims /\ aiJob.claims \in Nat /\ m \in 0..MaxClaims /\ aiJob.claims <= m
    BY <1>3, ActivityTypes, ActivityLimits DEF A!Claims
  <2>2. worker[m].at = "none" /\ worker' = [worker EXCEPT ![m].at = "claimed"]
    BY <1>3 DEF A!Move
  <2> HIDE DEF m
  <2>3. worker[m].attempt = 0
    BY <2>1, <2>2 DEF ActivityInv, WorkersFit
  <2>4. /\ worker' \in [A!Claims -> WorkerType]
        /\ \A n \in A!Claims : /\ worker'[n].attempt = worker[n].attempt
                               /\ n # m => worker'[n] = worker[n]
        /\ worker'[m].at = "claimed"
    BY <2>1, <2>2, ActivityTypes DEF WorkerType
  <2>5. aiJob'.claims = m /\ aiJob'.status = "processing"
    BY <1>3 DEF m
  <2>6. Began' = Began
    BY <2>4 DEF Began
  <2>7. \A n \in A!Claims : n <= aiJob.claims => n <= m
    BY <2>1, ActivityLimits DEF m
  <2>8. WorkersFit'
    <3>1. ASSUME NEW n \in A!Claims
          PROVE  /\ worker'[n].at # "none" => n <= aiJob'.claims
                 /\ worker'[n].at \in {"none", "claimed"} => worker'[n].attempt = 0
                 /\ worker'[n].at \in {"exploring", "calling"} => worker'[n].attempt # 0
                 /\ worker'[n].attempt <= Len(attempts')
      <4>1. Len(attempts') = Len(attempts)
        BY <1>3
      <4>2. CASE n = m
        BY <4>1, <4>2, <2>1, <2>3, <2>4, <2>5, ActivityLimits DEF ActivityInv, WorkersFit
      <4>3. CASE n # m
        BY <4>1, <4>3, <2>4, <2>5, <2>7 DEF ActivityInv, WorkersFit
      <4> QED BY <4>2, <4>3
    <3>2. Len(attempts') = Cardinality(Began')
      BY <1>3, <2>6 DEF ActivityInv, WorkersFit
    <3> QED BY <3>1, <3>2 DEF WorkersFit
  <2>9. aiJob' \in [status : {"queued", "processing", "completed", "failed"},
                    claims : 0..MaxClaims, held : BOOLEAN]
    BY <1>3, <2>1 DEF m
  <2>10. A!TypeOK'
    BY <1>3, <2>4, <2>9 DEF ActivityInv, A!TypeOK, WorkerType, A!Entry, A!Ended, A!Claims
  <2>11. A!BillKept'
    BY <1>3 DEF ActivityInv, A!BillKept
  <2>12. JobFits'
    BY <1>1, <1>3, <2>5 DEF ActivityInv, JobFits, A!Ended
  <2>13. Tells(operation.activity, operation.status, m)
    BY <2>1, ActivityLimits, TellsLater DEF ActivityInv
  <2>14. Tells(operation.activity, operation.status, aiJob.claims)'
    BY <1>3, <2>5, <2>13 DEF Tells, A!Entry, A!Ended
  <2> QED BY <1>3, <2>8, <2>10, <2>11, <2>12, <2>14 DEF ActivityInv
<1> QED BY <1>2, <1>3 DEF A!Claim

LEMMA StartStep ==
    ASSUME ActivityInv, NEW n \in A!Claims, A!StartAttempt(n)
    PROVE  ActivityInv'
<1>1. /\ worker[n].at = "claimed"
      /\ worker' = [worker EXCEPT ![n] = [at |-> "exploring", attempt |-> Len(attempts) + 1]]
      /\ attempts' = Append(attempts, "running")
      /\ aiRun' = [aiRun EXCEPT !.attemptCount = Len(attempts) + 1]
      /\ UNCHANGED <<operation, invocations, aiJob>>
  BY DEF A!StartAttempt
<1>2. /\ attempts \in Seq({"running"} \cup A!Ended) /\ Len(attempts) \in Nat
      /\ worker \in [A!Claims -> WorkerType]
  BY ActivityTypes, ActivityLimits
<1>3. worker[n].attempt = 0 /\ n <= aiJob.claims /\ Len(attempts) = Cardinality(Began)
  BY <1>1 DEF ActivityInv, WorkersFit
<1>4. IsFiniteSet(A!Claims) /\ Cardinality(A!Claims) = MaxClaims
  BY FS_Interval, ActivityLimits DEF A!Claims
<1>5. Began \subseteq A!Claims /\ n \notin Began /\ IsFiniteSet(Began)
  BY <1>3, <1>4, FS_Subset DEF Began
<1>6. /\ Began \cup {n} \subseteq A!Claims /\ Cardinality(Began \cup {n}) = Len(attempts) + 1
  BY <1>3, <1>5, FS_AddElement
<1>7. Len(attempts) + 1 \in 1..MaxClaims
  <2>1. Cardinality(Began \cup {n}) <= MaxClaims
    BY <1>4, <1>6, FS_Subset
  <2> QED BY <1>2, <1>6, <2>1, ActivityLimits
<1> DEFINE l == Len(attempts) + 1
<1>8. /\ worker' \in [A!Claims -> WorkerType] /\ worker'[n].at = "exploring"
      /\ worker'[n].attempt = l /\ \A m \in A!Claims : m # n => worker'[m] = worker[m]
  <2>1. [at |-> "exploring", attempt |-> l] \in WorkerType
    BY <1>7, ActivityLimits DEF WorkerType
  <2> HIDE DEF l
  <2>2. worker' = [worker EXCEPT ![n] = [at |-> "exploring", attempt |-> l]]
    BY <1>1 DEF l
  <2> QED BY <1>2, <2>1, <2>2
<1>9. /\ attempts' \in Seq({"running"} \cup A!Ended) /\ Len(attempts') = l
      /\ DOMAIN attempts' = 1..l /\ DOMAIN attempts = 1..Len(attempts)
      /\ \A i \in 1..Len(attempts) : attempts'[i] = attempts[i]
      /\ attempts'[l] = "running"
  BY <1>1, <1>2
<1>10. Began' = Began \cup {n}
  BY <1>5, <1>7, <1>8 DEF Began
<1>11. WorkersFit'
  <2>1. ASSUME NEW m \in A!Claims
        PROVE  /\ worker'[m].at # "none" => m <= aiJob'.claims
               /\ worker'[m].at \in {"none", "claimed"} => worker'[m].attempt = 0
               /\ worker'[m].at \in {"exploring", "calling"} => worker'[m].attempt # 0
               /\ worker'[m].attempt <= Len(attempts')
    <3>1. CASE m = n
      BY <3>1, <1>1, <1>3, <1>7, <1>8, <1>9
    <3>2. CASE m # n
      <4>1. worker[m].attempt \in Nat /\ worker[m].attempt <= Len(attempts)
        BY <1>2, ActivityLimits DEF ActivityInv, WorkersFit, WorkerType
      <4>2. worker[m].attempt <= l
        BY <4>1, <1>2
      <4> QED BY <3>2, <4>2, <1>1, <1>8, <1>9 DEF ActivityInv, WorkersFit
    <3> QED BY <3>1, <3>2
  <2> QED BY <2>1, <1>6, <1>9, <1>10 DEF WorkersFit
<1>12. /\ aiRun' \in [activity : Seq(A!Entry), attemptCount : 0..MaxClaims, calls : 0..MaxCalls]
       /\ aiRun'.activity = aiRun.activity /\ aiRun'.calls = aiRun.calls
       /\ aiRun'.attemptCount = l
  <2>1. l \in 0..MaxClaims /\ aiRun' = [aiRun EXCEPT !.attemptCount = l]
    BY <1>1, <1>7, ActivityLimits
  <2> HIDE DEF l
  <2> QED BY <2>1, ActivityTypes
<1>13. A!TypeOK'
  BY <1>1, <1>8, <1>9, <1>12 DEF ActivityInv, A!TypeOK, WorkerType, A!Entry, A!Ended, A!Claims
<1>14. A!BillKept'
  <2>1. \A i \in DOMAIN invocations : invocations[i] \in 1..l
    BY <1>2, <1>9 DEF ActivityInv, A!BillKept
  <2> QED BY <2>1, <1>1, <1>9, <1>12 DEF ActivityInv, A!BillKept
<1>15. JobFits'
  <2>1. \A i \in 1..l : i \in 1..Len(attempts) \/ i = l
    BY <1>2
  <2>2. "running" \notin A!Ended /\ "running" # "succeeded" /\ \A i \in 1..Len(attempts) : i \in 1..l
    BY <1>2 DEF A!Ended
  <2> QED BY <2>1, <2>2, <1>1, <1>9 DEF ActivityInv, JobFits
<1>16. Tells(operation.activity, operation.status, aiJob.claims)'
  BY <1>1 DEF ActivityInv, Tells
<1> QED BY <1>1, <1>11, <1>12, <1>13, <1>14, <1>15, <1>16 DEF ActivityInv

LEMMA ReportStep ==
    ASSUME ActivityInv, NEW n \in A!Claims, NEW phase \in Phase, A!Report(n, phase)
    PROVE  ActivityInv'
<1>1. /\ aiJob.status = "processing" /\ aiJob.claims = n
      /\ operation' = [operation EXCEPT !.status = "running",
                          !.activity = A!Advanced(operation.activity, phase, n)]
      /\ aiRun' = [aiRun EXCEPT !.activity = A!Advanced(aiRun.activity, phase, n)]
      /\ UNCHANGED <<attempts, invocations, aiJob, worker>>
  BY DEF A!Report, A!Owned, A!UpdateActivity
<1>2. operation.status \notin A!Ended /\ n \in 0..MaxClaims
  BY <1>1, Unended, ActivityLimits DEF A!Claims
<1> DEFINE H == A!Advanced(operation.activity, phase, n)
<1>3. Tells(H, "running", n)
  BY <1>1, <1>2, AdvancedTells DEF ActivityInv
<1>4. H \in Seq(A!Entry) /\ A!Advanced(aiRun.activity, phase, n) = H
  BY <1>3 DEF Tells, ActivityInv
<1> HIDE DEF H
<1>5. /\ operation' \in [status : {"queued", "running"} \cup A!Ended,
                         cancelRequested : BOOLEAN, activity : Seq(A!Entry)]
      /\ operation'.status = "running" /\ operation'.activity = H
  BY <1>1, <1>4, ActivityTypes DEF H
<1>6. /\ aiRun' \in [activity : Seq(A!Entry), attemptCount : 0..MaxClaims, calls : 0..MaxCalls]
      /\ aiRun'.activity = H /\ aiRun'.calls = aiRun.calls
      /\ aiRun'.attemptCount = aiRun.attemptCount
  BY <1>1, <1>4, ActivityTypes
<1>7. WorkersFit' /\ worker' \in [A!Claims -> WorkerType]
  BY <1>1, WorkersKept
<1>8. A!TypeOK'
  BY <1>1, <1>5, <1>6, <1>7 DEF ActivityInv, A!TypeOK, WorkerType, A!Entry, A!Ended, A!Claims
<1>9. A!BillKept'
  BY <1>1, <1>6 DEF ActivityInv, A!BillKept
<1>10. JobFits'
  BY <1>1, <1>2, <1>5 DEF ActivityInv, JobFits, A!Ended
<1>11. Tells(operation.activity, operation.status, aiJob.claims)'
  BY <1>1, <1>3, <1>5 DEF Tells, A!Entry, A!Ended
<1> QED BY <1>5, <1>6, <1>7, <1>8, <1>9, <1>10, <1>11 DEF ActivityInv

LEMMA RecordStep ==
    ASSUME ActivityInv, NEW n \in A!Claims, A!RecordInvocation(n)
    PROVE  ActivityInv'
<1>1. /\ Len(invocations) < MaxCalls /\ worker[n].at = "calling"
      /\ worker' = [worker EXCEPT ![n].at = "exploring"]
      /\ invocations' = Append(invocations, worker[n].attempt)
      /\ aiRun' = [aiRun EXCEPT !.calls = aiRun.calls + 1]
      /\ UNCHANGED <<operation, attempts, aiJob>>
  BY DEF A!RecordInvocation, A!Move, A!Billed
<1>2. /\ invocations \in Seq(1..MaxClaims) /\ Len(invocations) \in Nat
      /\ worker[n] \in WorkerType /\ Len(attempts) \in 0..MaxClaims
      /\ DOMAIN attempts = 1..Len(attempts) /\ DOMAIN invocations = 1..Len(invocations)
  BY ActivityTypes, ActivityLimits
<1> DEFINE a == worker[n].attempt
<1>3. a \in 1..Len(attempts) /\ a \in 1..MaxClaims
  BY <1>1, <1>2, ActivityLimits DEF ActivityInv, WorkersFit, WorkerType
<1> HIDE DEF a
<1>4. /\ invocations' \in Seq(1..MaxClaims) /\ Len(invocations') = Len(invocations) + 1
      /\ DOMAIN invocations' = 1..(Len(invocations) + 1)
      /\ \A i \in 1..Len(invocations) : invocations'[i] = invocations[i]
      /\ invocations'[Len(invocations) + 1] = a
  <2>1. invocations' = Append(invocations, a)
    BY <1>1 DEF a
  <2> QED BY <2>1, <1>2, <1>3
<1>5. /\ aiRun' \in [activity : Seq(A!Entry), attemptCount : 0..MaxClaims, calls : 0..MaxCalls]
      /\ aiRun'.activity = aiRun.activity /\ aiRun'.calls = Len(invocations) + 1
      /\ aiRun'.attemptCount = aiRun.attemptCount
  <2>1. aiRun.calls + 1 \in 0..MaxCalls /\ aiRun.calls = Len(invocations)
    BY <1>1, <1>2, ActivityLimits DEF ActivityInv, A!BillKept
  <2> QED BY <2>1, <1>1, ActivityTypes
<1>6. WorkersGoOn
  BY <1>1, ActivityTypes DEF WorkersGoOn, WorkerType
<1>7. WorkersFit' /\ worker' \in [A!Claims -> WorkerType]
  BY <1>1, <1>6, WorkersKept
<1>8. A!TypeOK'
  BY <1>1, <1>4, <1>5, <1>7 DEF ActivityInv, A!TypeOK, WorkerType, A!Entry, A!Ended, A!Claims
<1>9. A!BillKept'
  <2>1. \A i \in DOMAIN invocations' : invocations'[i] \in DOMAIN attempts
    <3>1. \A i \in 1..(Len(invocations) + 1) : i \in 1..Len(invocations) \/ i = Len(invocations) + 1
      BY <1>2
    <3> QED BY <3>1, <1>2, <1>3, <1>4 DEF ActivityInv, A!BillKept
  <2> QED BY <2>1, <1>1, <1>4, <1>5 DEF ActivityInv, A!BillKept
<1>10. JobFits'
  BY <1>1 DEF ActivityInv, JobFits
<1>11. Tells(operation.activity, operation.status, aiJob.claims)'
  BY <1>1 DEF ActivityInv, Tells
<1> QED BY <1>1, <1>5, <1>7, <1>8, <1>9, <1>10, <1>11 DEF ActivityInv

LEMMA SucceedStep ==
    ASSUME ActivityInv, NEW n \in A!Claims, A!Succeed(n)
    PROVE  ActivityInv'
<1>1. /\ aiJob.status = "processing" /\ aiJob.claims = n /\ worker[n].at = "exploring"
      /\ worker' = [worker EXCEPT ![n].at = "gone"]
      /\ operation' = [operation EXCEPT !.status = "succeeded",
                          !.activity = A!Finished(operation.activity, "succeeded", aiJob.claims)]
      /\ aiRun' = [aiRun EXCEPT
                      !.activity = A!Finished(aiRun.activity, "succeeded", aiJob.claims)]
      /\ attempts' = [attempts EXCEPT ![worker[n].attempt] = "succeeded"]
      /\ aiJob' = [aiJob EXCEPT !.status = "completed", !.held = FALSE]
      /\ UNCHANGED invocations
  BY DEF A!Succeed, A!Owned, A!Move, A!End, A!UpdateActivity
<1>2. operation.status \notin A!Ended
  BY <1>1, Unended
<1>3. WorkersGoOn
  BY <1>1, ActivityTypes DEF WorkersGoOn, WorkerType
<1>4. /\ operation'.status = "succeeded" /\ operation'.cancelRequested \in BOOLEAN
      /\ operation' = [status |-> "succeeded", cancelRequested |-> operation'.cancelRequested,
                       activity |-> A!Finished(operation.activity, "succeeded", aiJob.claims)]
  BY <1>1, ActivityTypes
<1> DEFINE a == worker[n].attempt
<1>5. /\ attempts \in Seq({"running"} \cup A!Ended) /\ a \in 1..Len(attempts)
      /\ DOMAIN attempts = 1..Len(attempts)
  BY <1>1, ActivityTypes, ActivityLimits DEF ActivityInv, WorkersFit, WorkerType
<1>6. \A i \in 1..Len(attempts) : attempts[i] = "running"
  BY <1>2, <1>5 DEF ActivityInv, JobFits
<1> HIDE DEF a
<1>7. /\ attempts' \in Seq({"running"} \cup A!Ended) /\ Len(attempts') = Len(attempts)
      /\ \A i \in 1..Len(attempts) : attempts'[i] \in A!Ended => attempts'[i] = "succeeded"
      /\ \E i \in 1..Len(attempts) : attempts'[i] = "succeeded"
  <2>1. attempts' = [attempts EXCEPT ![a] = "succeeded"]
    BY <1>1 DEF a
  <2>2. "succeeded" \in A!Ended /\ "running" \notin A!Ended
    BY DEF A!Ended
  <2> QED BY <2>1, <2>2, <1>5, <1>6
<1>8. /\ aiJob' \in [status : {"queued", "processing", "completed", "failed"},
                     claims : 0..MaxClaims, held : BOOLEAN]
      /\ aiJob'.claims = aiJob.claims /\ aiJob'.status = "completed"
  BY <1>1, ActivityTypes
<1>9. "succeeded" \in A!Ended
  BY DEF A!Ended
<1> QED BY <1>1, <1>2, <1>3, <1>4, <1>7, <1>8, <1>9, EndStep

LEMMA FailStep ==
    ASSUME ActivityInv, NEW n \in A!Claims, A!Fail(n)
    PROVE  ActivityInv'
<1>1. PICK status \in {"failed", "timed_out"} :
         A!FinishResources(IF operation.cancelRequested THEN "cancelled" ELSE status)
  BY DEF A!Fail
<1> DEFINE end == IF operation.cancelRequested THEN "cancelled" ELSE status
<1>2. end \in A!Ended /\ end # "succeeded"
  BY DEF A!Ended
<1>3. worker[n].at # "none" /\ worker' = [worker EXCEPT ![n].at = "gone"] /\ UNCHANGED invocations
  BY DEF A!Fail, A!Move
<1>4. WorkersGoOn
  BY <1>3, ActivityTypes DEF WorkersGoOn, WorkerType
<1>5. operation.status \notin A!Ended
  BY Unended DEF A!Fail, A!Owned
<1>6. A!FinishResources(end)
  BY <1>1
<1> HIDE DEF end
<1> QED BY <1>2, <1>3, <1>4, <1>5, <1>6, FinishStep

LEMMA CancelStep ==
    ASSUME ActivityInv, A!RequestCancel
    PROVE  ActivityInv'
<1>1. CASE aiJob.held
  <2>1. /\ operation' = [operation EXCEPT !.cancelRequested = TRUE]
        /\ UNCHANGED <<aiRun, attempts, invocations, worker, aiJob>>
    BY <1>1 DEF A!RequestCancel
  <2>2. operation' \in [status : {"queued", "running"} \cup A!Ended,
                        cancelRequested : BOOLEAN, activity : Seq(A!Entry)]
    BY <2>1, ActivityTypes
  <2>3. operation'.status = operation.status /\ operation'.activity = operation.activity
    BY <2>1, ActivityTypes
  <2> QED BY <2>1, <2>2, <2>3, ActivityTypes, QuietActivity
<1>2. CASE ~aiJob.held
  <2>1. /\ operation' = [status |-> "cancelled", cancelRequested |-> TRUE,
                         activity |-> A!Finished(operation.activity, "cancelled", aiJob.claims)]
        /\ aiRun' = [aiRun EXCEPT
                        !.activity = A!Finished(aiRun.activity, "cancelled", aiJob.claims)]
        /\ attempts' = A!AttemptsEnded("cancelled")
        /\ aiJob' = [aiJob EXCEPT !.status = "failed"]
        /\ UNCHANGED <<invocations, worker>> /\ operation.status \notin A!Ended
    BY <1>2 DEF A!RequestCancel
  <2>2. /\ operation'.status = "cancelled" /\ operation'.cancelRequested \in BOOLEAN
        /\ operation' = [status |-> "cancelled", cancelRequested |-> operation'.cancelRequested,
                         activity |-> A!Finished(operation.activity, "cancelled", aiJob.claims)]
    BY <2>1
  <2>3. "cancelled" \in A!Ended
    BY DEF A!Ended
  <2>4. /\ attempts' \in Seq({"running"} \cup A!Ended) /\ Len(attempts') = Len(attempts)
        /\ \A i \in 1..Len(attempts) : attempts'[i] \in A!Ended => attempts'[i] = "cancelled"
    BY <2>1, <2>3, AttemptsEndedFacts
  <2>5. /\ aiJob' \in [status : {"queued", "processing", "completed", "failed"},
                       claims : 0..MaxClaims, held : BOOLEAN]
        /\ aiJob'.claims = aiJob.claims /\ aiJob'.status = "failed"
    BY <2>1, ActivityTypes
  <2> QED BY <2>1, <2>2, <2>3, <2>4, <2>5, EndStep
<1> QED BY <1>1, <1>2

LEMMA QuietWorkers ==
    ASSUME ActivityInv, NEW n \in A!Claims, A!CallModel(n) \/ A!Leave(n)
    PROVE  ActivityInv'
<1>1. /\ worker[n].at \in {"claimed", "exploring", "calling"}
      /\ \/ worker' = [worker EXCEPT ![n].at = "gone"]
         \/ worker[n].at = "exploring" /\ worker' = [worker EXCEPT ![n].at = "calling"]
      /\ UNCHANGED <<operation, aiRun, attempts, invocations, aiJob>>
  BY DEF A!CallModel, A!Leave, A!Move
<1>2. WorkersGoOn
  <2>1. CASE worker' = [worker EXCEPT ![n].at = "gone"]
    BY <1>1, <2>1, ActivityTypes DEF WorkersGoOn, WorkerType
  <2>2. CASE worker[n].at = "exploring" /\ worker' = [worker EXCEPT ![n].at = "calling"]
    BY <2>2, ActivityTypes DEF WorkersGoOn, WorkerType
  <2> QED BY <1>1, <2>1, <2>2
<1> QED BY <1>1, <1>2, ActivityTypes, QuietActivity

LEMMA NextActivity ==
    ASSUME ActivityInv, [A!Next]_activityVars
    PROVE  ActivityInv'
<1>1. CASE UNCHANGED activityVars
  BY <1>1, ActivityTypes, QuietActivity DEF activityVars
<1>2. CASE A!LeaseRunsOut
  <2>1. /\ aiJob' = [aiJob EXCEPT !.held = FALSE]
        /\ UNCHANGED <<operation, aiRun, attempts, invocations, worker>>
    BY <1>2 DEF A!LeaseRunsOut
  <2> QED BY <2>1, ActivityTypes, QuietActivity
<1> QED
  BY <1>1, <1>2, ClaimActivity, CancelStep, StartStep, QuietWorkers, RecordStep, SucceedStep,
     FailStep, ReportStep DEF A!Next

LEMMA InitActivity == A!Init => ActivityInv
<1> SUFFICES ASSUME A!Init PROVE ActivityInv
  OBVIOUS
<1> DEFINE e == [phase |-> "queued", status |-> "running", by |-> 0]
<1>1. /\ operation = [status |-> "queued", cancelRequested |-> FALSE, activity |-> <<e>>]
      /\ aiRun = [activity |-> <<e>>, attemptCount |-> 0, calls |-> 0]
      /\ attempts = <<>> /\ invocations = <<>>
      /\ aiJob = [status |-> "queued", claims |-> 0, held |-> FALSE]
      /\ worker = [n \in A!Claims |-> [at |-> "none", attempt |-> 0]]
  BY DEF A!Init
<1>2. e \in A!Entry /\ e.status = "running" /\ e.by = 0 /\ e.phase = "queued"
  BY ActivityLimits DEF A!Entry
<1> HIDE DEF e
<1>3. <<e>> \in Seq(A!Entry) /\ Len(<<e>>) = 1 /\ <<e>>[1] = e
  BY <1>2
<1>4. Tells(<<e>>, "queued", 0)
  BY <1>2, <1>3 DEF Tells, A!Ended
<1>5. A!TypeOK
  BY <1>1, <1>3, ActivityLimits DEF A!TypeOK, A!Ended
<1>6. A!BillKept /\ JobFits
  BY <1>1 DEF A!BillKept, JobFits, A!Ended
<1>7. WorkersFit
  <2>1. Began = {}
    BY <1>1 DEF Began
  <2>2. Cardinality(Began) = 0 /\ Len(attempts) = 0
    BY <1>1, <2>1, FS_EmptySet
  <2> QED BY <1>1, <2>2 DEF WorkersFit
<1> QED BY <1>1, <1>4, <1>5, <1>6, <1>7 DEF ActivityInv

LEMMA ActivityTold == ActivityInv => A!ActivityTruthful
<1> SUFFICES ASSUME ActivityInv PROVE A!ActivityTruthful
  OBVIOUS
<1>1. Tells(operation.activity, operation.status, aiJob.claims)
  BY DEF ActivityInv
<1>2. DOMAIN operation.activity = 1..Len(operation.activity)
  BY <1>1 DEF Tells
<1>3. A!OneHistory
  BY <1>1, <1>2 DEF Tells, A!OneHistory, ActivityInv
<1>4. A!EndTold
  BY <1>1, <1>2 DEF Tells, A!EndTold, ActivityInv, JobFits
<1> QED BY <1>3, <1>4 DEF ActivityInv, A!ActivityTruthful

\* Some numbers up to n have a greatest and a least among them.
LEMMA EndsOfSet ==
    ASSUME NEW n \in Nat, NEW S, S \subseteq 0..n, S # {}
    PROVE  /\ \E x \in S : \A y \in S : x >= y
           /\ \E x \in S : \A y \in S : x <= y
<1>1. ASSUME NEW T, T \subseteq Nat, T # {}
      PROVE  \E x \in T : \A y \in T : x <= y
  <2>1. PICK m \in T : \A x \in T : <<x, m>> \notin OpToRel(<, Nat)
    BY <1>1, NatLessThanWellFounded, WFMin
  <2>2. \A x \in T : ~(x < m)
    BY <1>1, <2>1 DEF OpToRel
  <2> QED BY <1>1, <2>2
<1> DEFINE T == {n - x : x \in S}
<1>2. S \subseteq Nat /\ \A y \in S : n - y \in Nat /\ n - y \in T
  OBVIOUS
<1>3. PICK m \in T : \A y \in T : m <= y
  <2>1. T \subseteq Nat /\ T # {}
    BY <1>2
  <2> HIDE DEF T
  <2> QED BY <1>1, <2>1
<1>4. PICK x \in S : m = n - x
  BY <1>3
<1>5. \A y \in S : x >= y
  <2> TAKE y \in S
  <2>1. m <= n - y
    BY <1>2, <1>3
  <2>2. x \in Nat /\ y \in Nat
    BY <1>2
  <2> QED BY <1>4, <2>1, <2>2
<1> QED BY <1>1, <1>2, <1>5

-----------------------------------------------------------------------------
(* InstanceKeys *)

\* A database that was not initialized is empty.  A registered key has its material,
\* and its revision counts how often it was withdrawn.
DatabaseFits(d) ==
    /\ d \in K!Database
    /\ ~d.exists => d = K!NoDatabase
    /\ \A k \in KeyId :
          /\ d.trust[k].status # "unknown" => d.trust[k].material \in K!Material
          /\ d.trust[k].status = "trusted" => d.trust[k].revision = 1
          /\ d.trust[k].status = "retired" => d.trust[k].revision = 2

\* Commands, restores and what a restore left behind keep the processes away.
LocksHold ==
    /\ ~K!AllDown => keyDb.exists
    /\ file.copy # "none" => ~keyDb.exists
    /\ restore.step = "copy" => file.copy = "part" /\ dump.exists
    /\ command.step # "idle" =>
          /\ K!AllDown /\ ~file.marker /\ keyDb.exists
          /\ restore.step \in {"idle", "checked"}
    /\ restore.step \notin {"idle", "checked", "copy"} =>
          K!AllDown /\ file.marker /\ file.copy = "none"
    /\ restore.step \in {"artifacts", "signing", "ring", "db"} => ~keyDb.exists
    /\ partial => K!AllDown /\ file.marker
    /\ restore.step = "unmark" => ~partial

\* The keys of all that is stored, in the database, in its snapshot and in the full
\* backup, are those of the keyring there, or of one that was lost.
RingsFit ==
    /\ ~file.ring.exists => file.ring.keys = {}
    /\ K!Stored(keyDb) \subseteq file.ring.keys \cup gone
    /\ K!Stored(dump) \subseteq file.ring.keys \cup gone
    /\ archive.ring.keys \subseteq file.ring.keys \cup gone
    /\ K!Stored(archive.db) \subseteq archive.ring.keys
    /\ command.step \in {"ring", "ringWrite"} => K!Stored(keyDb) \subseteq file.ring.keys
    /\ command.step = "ringWrite" => file.ring.keys = {}

\* What a restore installed is what it may take away again.
RestoreFits ==
    /\ archive.exists => archive.db.exists /\ archive.ring.exists /\ archive.ring.keys # {}
    /\ restore.step \notin {"idle", "copy"} => archive.exists
    /\ restore.step \in {"idle", "checked", "copy"} => restore.installed = {}
    /\ "signing" \in restore.installed => file.signing[config] = archive.signing
    /\ "ring" \in restore.installed => file.ring = archive.ring

\* One worker executes the run, under a key that was not withdrawn since.
WorkFits ==
    /\ \A p, q \in Service : process[p] = "working" /\ process[q] = "working" => p = q
    /\ \A p \in Service : process[p] = "working" =>
          keyDb.run.status = "running" /\ K!StillVerified

KeysInv ==
    /\ K!TypeOK
    /\ DatabaseFits(keyDb) /\ DatabaseFits(dump) /\ DatabaseFits(archive.db)
    /\ LocksHold /\ RingsFit /\ RestoreFits /\ WorkFits

CommandType == [step : {"idle", "ring", "ringWrite", "key", "keyWrite", "register", "reencrypt"},
                key : KeyId, count : 0..MaxOffline]
RestoreType == [step : {"idle", "checked", "artifacts", "signing", "ring", "db", "unmark",
                        "copy"}, installed : SUBSET K!Target]
FileType == [artifacts : BOOLEAN, signing : [KeyId -> K!Material \cup {K!Absent, K!Torn}],
             ring : K!Keyring, marker : BOOLEAN, copy : {"none", "empty", "part"}]
MadeType == [pairs : 0..MaxMaterial, keys : 0..MaxGeneration]
AtOf == {"down", "up", "signing", "working"}
RunType == [status : {"none", "queued", "running", "failed", "committed"}, proof : K!Proof]

LEMMA KeysLimits ==
    /\ FirstKey \in KeyId /\ MaxMaterial \in Nat \ {0} /\ MaxGeneration \in Nat \ {0}
    /\ MaxOffline \in Nat /\ MaxLosses \in Nat
    /\ K!Material = 1..MaxMaterial /\ K!Generation = 1..MaxGeneration
    /\ K!Absent = 0 /\ K!Torn = -1
BY RecordsAssumption DEF K!InstanceAssumption, K!Material, K!Generation, K!Absent, K!Torn

LEMMA KeysTypes ==
    ASSUME KeysInv
    PROVE  /\ process \in [Service -> AtOf] /\ command \in CommandType /\ restore \in RestoreType
           /\ config \in KeyId /\ file \in FileType /\ keyDb \in K!Database
           /\ archive \in K!Archive /\ dump \in K!Database /\ made \in MadeType
           /\ partial \in BOOLEAN /\ gone \subseteq K!Generation /\ losses \in 0..MaxLosses
BY DEF KeysInv, K!TypeOK, CommandType, RestoreType, FileType, MadeType, AtOf

LEMMA KeysTyped ==
    ASSUME process' \in [Service -> AtOf], command' \in CommandType, restore' \in RestoreType,
           config' \in KeyId, file' \in FileType, keyDb' \in K!Database,
           archive' \in K!Archive, dump' \in K!Database, made' \in MadeType,
           partial' \in BOOLEAN, gone' \subseteq K!Generation, losses' \in 0..MaxLosses
    PROVE  K!TypeOK'
BY DEF K!TypeOK, CommandType, RestoreType, FileType, MadeType, AtOf

-----------------------------------------------------------------------------
(* What the steps make of a database *)

\* What each field of a database is.
LEMMA DatabaseFields ==
    ASSUME NEW d \in K!Database
    PROVE  /\ d.exists \in BOOLEAN /\ d.trust \in [KeyId -> K!Trust]
           /\ d.secret \in [Secret -> K!Generation \cup {K!Absent}]
           /\ d.rule \in K!Proof /\ d.run \in RunType
BY DEF K!Database, RunType

\* A database whose keys are as they were.
LEMMA DatabaseKept ==
    ASSUME NEW d, DatabaseFits(d), NEW e \in K!Database, e.exists, e.trust = d.trust
    PROVE  DatabaseFits(e)
BY DEF DatabaseFits

LEMMA EmptyDatabase ==
    /\ DatabaseFits(K!NoDatabase) /\ K!Stored(K!NoDatabase) = {} /\ ~K!NoDatabase.exists
    /\ K!NoDatabase.run.status = "none"
<1>1. K!NoProof \in K!Proof
  BY KeysLimits DEF K!NoProof, K!Proof
<1>2. [status |-> "unknown", material |-> K!Absent, revision |-> 0] \in K!Trust
  BY DEF K!Trust
<1>3. [status |-> "none", proof |-> K!NoProof] \in RunType
  BY <1>1 DEF RunType
<1>4. K!NoDatabase \in K!Database
  BY <1>1, <1>2, <1>3 DEF K!NoDatabase, K!Database, RunType
<1>5. /\ \A k \in KeyId : K!NoDatabase.trust[k].status = "unknown"
      /\ \A s \in Secret : K!NoDatabase.secret[s] = K!Absent
      /\ ~K!NoDatabase.exists /\ K!NoDatabase.run.status = "none"
  BY DEF K!NoDatabase
<1>6. K!Stored(K!NoDatabase) = {}
  BY <1>5 DEF K!Stored
<1> QED BY <1>4, <1>5, <1>6 DEF DatabaseFits

LEMMA InitializedDatabase ==
    ASSUME NEW d, DatabaseFits(d)
    PROVE  /\ DatabaseFits(K!Initialized(d)) /\ K!Initialized(d).exists
           /\ K!Initialized(d).trust = d.trust /\ K!Initialized(d).secret = d.secret
           /\ K!Initialized(d).rule = d.rule /\ K!Initialized(d).run = d.run
           /\ K!Stored(K!Initialized(d)) = K!Stored(d)
<1> DEFINE e == K!Initialized(d)
<1>1. d \in K!Database
  BY DEF DatabaseFits
<1>2. /\ e \in K!Database /\ e.exists /\ e.trust = d.trust /\ e.secret = d.secret
      /\ e.rule = d.rule /\ e.run = d.run
  BY <1>1 DEF K!Initialized, K!Database
<1> HIDE DEF e
<1>3. K!Stored(e) = K!Stored(d)
  BY <1>2 DEF K!Stored
<1> QED BY <1>2, <1>3, DatabaseKept DEF e

LEMMA SecretDatabase ==
    ASSUME NEW d, DatabaseFits(d), d.exists, NEW s \in Secret,
           NEW g \in K!Generation \cup {K!Absent}, NEW e, e = [d EXCEPT !.secret[s] = g]
    PROVE  /\ DatabaseFits(e) /\ e.exists /\ e.trust = d.trust /\ e.rule = d.rule
           /\ e.run = d.run
           /\ K!Stored(e) \subseteq K!Stored(d) \cup ({g} \ {K!Absent})
<1> DEFINE f == [d.secret EXCEPT ![s] = g]
<1>1. d \in K!Database
  BY DEF DatabaseFits
<1>2. /\ f \in [Secret -> K!Generation \cup {K!Absent}]
      /\ \A r \in Secret : f[r] \in {d.secret[r], g}
  BY <1>1, DatabaseFields
<1>3. e = [d EXCEPT !.secret = f]
  OBVIOUS
<1> HIDE DEF f
<1>4. /\ e \in K!Database /\ e.exists /\ e.trust = d.trust /\ e.secret = f
      /\ e.rule = d.rule /\ e.run = d.run
  BY <1>1, <1>2, <1>3 DEF K!Database
<1>5. K!Stored(e) \subseteq K!Stored(d) \cup ({g} \ {K!Absent})
  BY <1>2, <1>4 DEF K!Stored
<1> QED BY <1>4, <1>5, DatabaseKept

LEMMA RegisteredDatabase ==
    ASSUME NEW d, DatabaseFits(d), d.exists, NEW k \in KeyId, NEW m \in K!Material
    PROVE  LET e == K!Registered(d, k, m) IN
           /\ DatabaseFits(e) /\ e.exists /\ e.secret = d.secret /\ e.rule = d.rule
           /\ e.run = d.run /\ K!Stored(e) = K!Stored(d)
           /\ \A j \in KeyId : d.trust[j].status # "unknown" => e.trust[j] = d.trust[j]
<1> DEFINE e == K!Registered(d, k, m)
           t == [status |-> "trusted", material |-> m, revision |-> 1]
           f == [d.trust EXCEPT ![k] = t]
<1>1. d \in K!Database
  BY DEF DatabaseFits
<1>2. CASE d.trust[k].status # "unknown"
  BY <1>2 DEF K!Registered
<1>3. CASE d.trust[k].status = "unknown"
  <2>1. t \in K!Trust
    BY DEF K!Trust
  <2>2. /\ f \in [KeyId -> K!Trust] /\ f[k] = t
        /\ \A j \in KeyId : j # k => f[j] = d.trust[j]
    BY <1>1, <2>1, DatabaseFields
  <2>3. e = [d EXCEPT !.trust = f]
    BY <1>3 DEF K!Registered
  <2>4. t.status = "trusted" /\ t.material = m /\ t.revision = 1
    OBVIOUS
  <2> HIDE DEF e, f, t
  <2>5. /\ e \in K!Database /\ e.exists /\ e.trust = f /\ e.secret = d.secret
        /\ e.rule = d.rule /\ e.run = d.run
    BY <1>1, <2>2, <2>3 DEF K!Database
  <2>6. K!Stored(e) = K!Stored(d)
    BY <2>5 DEF K!Stored
  <2>7. ASSUME NEW j \in KeyId
        PROVE  /\ e.trust[j].status # "unknown" => e.trust[j].material \in K!Material
               /\ e.trust[j].status = "trusted" => e.trust[j].revision = 1
               /\ e.trust[j].status = "retired" => e.trust[j].revision = 2
    <3>1. CASE j = k
      BY <2>2, <2>4, <2>5, <3>1
    <3>2. CASE j # k
      BY <2>2, <2>5, <3>2 DEF DatabaseFits
    <3> QED BY <3>1, <3>2
  <2>8. \A j \in KeyId : d.trust[j].status # "unknown" => e.trust[j] = d.trust[j]
    BY <1>3, <2>2, <2>5
  <2> QED BY <2>5, <2>6, <2>7, <2>8 DEF DatabaseFits, e
<1> QED BY <1>2, <1>3

LEMMA RuleDatabase ==
    ASSUME NEW d, DatabaseFits(d), d.exists, NEW r \in K!Proof, NEW e, e = [d EXCEPT !.rule = r]
    PROVE  /\ DatabaseFits(e) /\ e.exists /\ e.trust = d.trust /\ e.run = d.run
           /\ K!Stored(e) = K!Stored(d)
<1>1. d \in K!Database
  BY DEF DatabaseFits
<1>2. /\ e \in K!Database /\ e.exists /\ e.trust = d.trust /\ e.secret = d.secret
      /\ e.run = d.run
  BY <1>1 DEF K!Database
<1> QED BY <1>2, DatabaseKept DEF K!Stored

LEMMA RunDatabase ==
    ASSUME NEW d, DatabaseFits(d), d.exists, NEW r \in RunType, NEW e, e = [d EXCEPT !.run = r]
    PROVE  /\ DatabaseFits(e) /\ e.exists /\ e.trust = d.trust /\ e.run = r
           /\ K!Stored(e) = K!Stored(d)
<1>1. d \in K!Database
  BY DEF DatabaseFits
<1>2. /\ e \in K!Database /\ e.exists /\ e.trust = d.trust /\ e.secret = d.secret
      /\ e.run = r
  BY <1>1 DEF K!Database, RunType
<1> QED BY <1>2, DatabaseKept DEF K!Stored

\* The newest of some keys is one of them.
LEMMA NewestKey ==
    ASSUME NEW S, S \subseteq K!Generation, S # {}
    PROVE  K!Max(S) \in S
<1>1. \E x \in S : \A y \in S : x >= y
  <2>1. S \subseteq 0..MaxGeneration /\ MaxGeneration \in Nat
    BY KeysLimits
  <2> QED BY <2>1, EndsOfSet
<1> QED BY <1>1 DEF K!Max

-----------------------------------------------------------------------------
(* What holds while a process is there, or a command *)

LEMMA NotLocked ==
    ASSUME KeysInv, ~K!AllDown
    PROVE  /\ command.step = "idle" /\ restore.step \in {"idle", "checked"} /\ ~partial
           /\ keyDb.exists /\ file.copy = "none"
BY DEF KeysInv, LocksHold

\* What was verified for a worker is not withdrawn by what the processes do.
LEMMA WorkKept ==
    ASSUME KeysInv, NEW p \in Service, NEW at \in AtOf, at # "working",
           process' = [process EXCEPT ![p] = at],
           (\E q \in Service : process'[q] = "working") =>
              /\ keyDb'.run = keyDb.run
              /\ \A k \in KeyId : keyDb.trust[k].status # "unknown" =>
                                     keyDb'.trust[k] = keyDb.trust[k]
    PROVE  WorkFits'
<1>1. \A q \in Service : process'[q] = "working" => process[q] = "working"
  BY KeysTypes
<1>2. ASSUME NEW q \in Service, process'[q] = "working"
      PROVE  keyDb'.run.status = "running" /\ K!StillVerified'
  <2>1. keyDb.run.status = "running" /\ K!StillVerified
    BY <1>1, <1>2 DEF KeysInv, WorkFits
  <2>2. keyDb.run.proof.key \in KeyId
    BY KeysTypes, DatabaseFields DEF RunType, K!Proof
  <2>3. keyDb.trust[keyDb.run.proof.key].status # "unknown"
    BY <2>1 DEF K!StillVerified, K!Verified
  <2>4. keyDb'.run = keyDb.run /\ keyDb'.trust[keyDb.run.proof.key] = keyDb.trust[keyDb.run.proof.key]
    BY <1>2, <2>2, <2>3
  <2> QED BY <2>1, <2>4 DEF K!StillVerified, K!Verified
<1> QED BY <1>1, <1>2 DEF KeysInv, WorkFits

LEMMA ProcessStep ==
    ASSUME KeysInv, UNCHANGED <<command, restore, config, archive, dump, partial, gone, losses>>,
           command.step = "idle", restore.step \in {"idle", "checked"}, ~partial,
           NEW p \in Service, NEW at \in AtOf, process' = [process EXCEPT ![p] = at],
           file' \in FileType, made' \in MadeType, DatabaseFits(keyDb'),
           keyDb.exists \/ at # "down" => keyDb'.exists,
           file.ring.keys \subseteq file'.ring.keys,
           ~file'.ring.exists => file'.ring.keys = {}, file'.copy = "none",
           K!Stored(keyDb') \subseteq file'.ring.keys \cup gone,
           WorkFits'
    PROVE  KeysInv'
<1>1. K!TypeOK'
  <2>1. process' \in [Service -> AtOf]
    BY KeysTypes
  <2>2. /\ command' \in CommandType /\ restore' \in RestoreType /\ config' \in KeyId
        /\ archive' \in K!Archive /\ dump' \in K!Database /\ partial' \in BOOLEAN
        /\ gone' \subseteq K!Generation /\ losses' \in 0..MaxLosses
    BY KeysTypes
  <2> QED BY <2>1, <2>2, KeysTyped DEF DatabaseFits
<1>2. LocksHold'
  <2>1. ~K!AllDown' => ~K!AllDown \/ at # "down"
    BY KeysTypes DEF K!AllDown
  <2>2. ~K!AllDown => keyDb.exists
    BY DEF KeysInv, LocksHold
  <2> QED BY <2>1, <2>2 DEF LocksHold
<1>3. RingsFit'
  BY DEF KeysInv, RingsFit
<1>4. RestoreFits'
  BY DEF KeysInv, RestoreFits
<1> QED BY <1>1, <1>2, <1>3, <1>4 DEF KeysInv

LEMMA CommandStep ==
    ASSUME KeysInv, UNCHANGED <<process, restore, config, archive, dump, partial, gone, losses>>,
           K!AllDown, restore.step \in {"idle", "checked"},
           command' \in CommandType, file' \in FileType, made' \in MadeType,
           file'.marker = file.marker, file'.copy = "none", DatabaseFits(keyDb'),
           command'.step # "idle" => ~file.marker /\ keyDb'.exists,
           file.ring.keys \subseteq file'.ring.keys,
           ~file'.ring.exists => file'.ring.keys = {},
           K!Stored(keyDb') \subseteq file'.ring.keys \cup gone,
           command'.step \in {"ring", "ringWrite"} => K!Stored(keyDb') \subseteq file'.ring.keys,
           command'.step = "ringWrite" => file'.ring.keys = {}
    PROVE  KeysInv'
<1>1. K!TypeOK'
  <2>1. /\ process' \in [Service -> AtOf] /\ restore' \in RestoreType /\ config' \in KeyId
        /\ archive' \in K!Archive /\ dump' \in K!Database /\ partial' \in BOOLEAN
        /\ gone' \subseteq K!Generation /\ losses' \in 0..MaxLosses
    BY KeysTypes
  <2> QED BY <2>1, KeysTyped DEF DatabaseFits
<1>2. LocksHold'
  BY DEF KeysInv, LocksHold, K!AllDown
<1>3. RingsFit'
  BY DEF KeysInv, RingsFit
<1>4. RestoreFits'
  BY DEF KeysInv, RestoreFits
<1>5. WorkFits'
  BY DEF K!AllDown, WorkFits
<1> QED BY <1>1, <1>2, <1>3, <1>4, <1>5 DEF KeysInv

\* A step that no worker sees.
LEMMA QuietStep ==
    ASSUME KeysInv, UNCHANGED process, K!AllDown \/ UNCHANGED keyDb,
           command' \in CommandType, restore' \in RestoreType, config' \in KeyId,
           file' \in FileType, archive' \in K!Archive, made' \in MadeType, partial' \in BOOLEAN,
           gone' \subseteq K!Generation, losses' \in 0..MaxLosses,
           DatabaseFits(keyDb'), DatabaseFits(dump'), DatabaseFits(archive'.db),
           LocksHold', RingsFit', RestoreFits'
    PROVE  KeysInv'
<1>1. K!TypeOK'
  BY KeysTypes, KeysTyped DEF DatabaseFits
<1>2. WorkFits'
  <2>1. CASE K!AllDown
    BY <2>1 DEF K!AllDown, WorkFits
  <2>2. CASE UNCHANGED keyDb
    BY <2>2 DEF KeysInv, WorkFits, K!StillVerified, K!Verified
  <2> QED BY <2>1, <2>2
<1> QED BY <1>1, <1>2 DEF KeysInv

-----------------------------------------------------------------------------
(* Processes *)

LEMMA FileFields ==
    ASSUME KeysInv
    PROVE  /\ file \in FileType /\ file.artifacts \in BOOLEAN /\ file.marker \in BOOLEAN
           /\ file.signing \in [KeyId -> K!Material \cup {K!Absent, K!Torn}]
           /\ file.ring \in K!Keyring /\ file.ring.exists \in BOOLEAN
           /\ file.ring.keys \subseteq K!Generation /\ file.copy \in {"none", "empty", "part"}
           /\ ~file.ring.exists => file.ring.keys = {}
BY KeysTypes DEF FileType, K!Keyring, KeysInv, RingsFit

\* The files, with another keyring or another key in one place.
LEMMA RingFile ==
    ASSUME NEW f \in FileType, NEW r \in K!Keyring, NEW g, g = [f EXCEPT !.ring = r]
    PROVE  /\ g \in FileType /\ g.ring = r /\ g.signing = f.signing /\ g.marker = f.marker
           /\ g.artifacts = f.artifacts /\ g.copy = f.copy
BY DEF FileType

\* Another key in one place.
WithKey(k, m) == file' = [file EXCEPT !.signing[k] = m]

LEMMA KeyFile ==
    ASSUME KeysInv, NEW k \in KeyId, NEW m \in K!Material \cup {K!Absent, K!Torn},
           WithKey(k, m)
    PROVE  /\ file' \in FileType /\ file'.ring = file.ring /\ file'.marker = file.marker
           /\ file'.artifacts = file.artifacts /\ file'.copy = file.copy
           /\ file'.signing[k] = m
           /\ \A j \in KeyId : j # k => file'.signing[j] = file.signing[j]
<1> DEFINE s == [file.signing EXCEPT ![k] = m]
<1>1. file \in FileType /\ file.signing \in [KeyId -> K!Material \cup {K!Absent, K!Torn}]
  BY FileFields
<1>2. /\ s \in [KeyId -> K!Material \cup {K!Absent, K!Torn}] /\ s[k] = m
      /\ \A j \in KeyId : j # k => s[j] = file.signing[j]
  BY <1>1
<1>3. file' = [file EXCEPT !.signing = s]
  BY DEF WithKey
<1> HIDE DEF s
<1> QED BY <1>1, <1>2, <1>3 DEF FileType

LEMMA StartKeys ==
    ASSUME KeysInv, NEW p \in Service, K!Start(p) \/ K!FailStart(p)
    PROVE  KeysInv'
<1>1. /\ UNCHANGED made /\ command.step = "idle" /\ ~file.marker
      /\ UNCHANGED <<command, restore, config, archive, dump, partial, gone, losses>>
      /\ restore.step \in {"idle", "checked", "copy"}
  BY DEF K!Start, K!FailStart, K!Offline, K!Locked, K!MarkerAllows
<1>2. ~partial /\ DatabaseFits(keyDb) /\ K!Stored(keyDb) \subseteq file.ring.keys \cup gone
  BY <1>1 DEF KeysInv, LocksHold, RingsFit
<1>3. CASE K!Start(p)
  <2>1. /\ process' = [process EXCEPT ![p] = "up"] /\ keyDb' = K!Initialized(keyDb)
        /\ file' = [file EXCEPT !.artifacts = TRUE, !.copy = "none"] /\ file.copy # "part"
    BY <1>3 DEF K!Start, K!Opens
  <2>2. file' \in FileType /\ file'.ring = file.ring /\ file'.copy = "none"
    BY <2>1, FileFields DEF FileType
  <2>3. restore.step \in {"idle", "checked"}
    BY <1>1, <2>1 DEF KeysInv, LocksHold
  <2>4. /\ DatabaseFits(keyDb') /\ keyDb'.exists /\ K!Stored(keyDb') = K!Stored(keyDb)
        /\ keyDb'.trust = keyDb.trust /\ keyDb'.run = keyDb.run
    BY <1>2, <2>1, InitializedDatabase
  <2>5. WorkFits'
    BY <2>1, <2>4, WorkKept DEF AtOf
  <2> QED BY <1>1, <1>2, <2>1, <2>2, <2>3, <2>4, <2>5, FileFields, KeysTypes, ProcessStep
          DEF AtOf
<1>4. CASE K!FailStart(p)
  <2>1. UNCHANGED <<process, keyDb>> /\ file' = [file EXCEPT !.artifacts = TRUE]
    BY <1>4 DEF K!FailStart
  <2>2. /\ file' \in FileType /\ file'.ring = file.ring /\ file'.copy = file.copy
        /\ file'.marker = file.marker
    BY <2>1, FileFields DEF FileType
  <2>3. K!TypeOK'
    BY <1>1, <2>1, <2>2, KeysTypes, KeysTyped
  <2>4. LocksHold'
    BY <1>1, <1>2, <2>1, <2>2 DEF KeysInv, LocksHold, K!AllDown
  <2>5. RingsFit' /\ RestoreFits'
    BY <1>1, <2>1, <2>2 DEF KeysInv, RingsFit, RestoreFits
  <2>6. WorkFits'
    BY <2>1 DEF KeysInv, WorkFits, K!StillVerified, K!Verified
  <2> QED BY <1>1, <2>1, <2>3, <2>4, <2>5, <2>6 DEF KeysInv
<1> QED BY <1>3, <1>4

\* A process that is there: nothing is locked, and the database is.
LEMMA RunningProcess ==
    ASSUME KeysInv, NEW p \in Service, process[p] # "down"
    PROVE  /\ command.step = "idle" /\ restore.step \in {"idle", "checked"} /\ ~partial
           /\ keyDb.exists /\ file.copy = "none" /\ DatabaseFits(keyDb) /\ keyDb \in K!Database
           /\ K!Stored(keyDb) \subseteq file.ring.keys \cup gone
<1>1. ~K!AllDown
  BY DEF K!AllDown
<1> QED BY <1>1, NotLocked, KeysTypes DEF KeysInv, RingsFit

LEMMA StopKeys ==
    ASSUME KeysInv, NEW p \in Service, K!Stop(p) \/ K!RefusePublish(p)
    PROVE  KeysInv'
<1>1. /\ process[p] # "down" /\ UNCHANGED <<file, keyDb, made>>
      /\ UNCHANGED <<command, restore, config, archive, dump, partial, gone, losses>>
      /\ process' = [process EXCEPT ![p] = "down"] \/ process' = [process EXCEPT ![p] = "up"]
  BY DEF K!Stop, K!RefusePublish, K!Offline
<1>2. PICK at \in {"down", "up"} : process' = [process EXCEPT ![p] = at]
  BY <1>1
<1>3. WorkFits'
  BY <1>1, <1>2, WorkKept DEF AtOf
<1> QED BY <1>1, <1>2, <1>3, RunningProcess, FileFields, KeysTypes, ProcessStep DEF AtOf

LEMMA SecretKeys ==
    ASSUME KeysInv, NEW p \in Service, NEW s \in Secret,
           K!StoreSecret(p, s) \/ K!DropSecret(p, s)
    PROVE  KeysInv'
<1>1. /\ process[p] = "up" /\ UNCHANGED process
      /\ UNCHANGED <<command, restore, config, archive, dump, partial, gone, losses>>
  BY DEF K!StoreSecret, K!DropSecret, K!Offline
<1>2. process' = [process EXCEPT ![p] = "up"]
  BY <1>1, KeysTypes
<1>3. CASE K!StoreSecret(p, s)
  <2>1. /\ K!CanStore /\ (made.keys < MaxGeneration \/ file.ring.exists)
        /\ file' = [file EXCEPT !.ring = K!NewRing] /\ made' = K!MadeKeys
        /\ keyDb' = [keyDb EXCEPT !.secret[s] = K!Max(K!NewRing.keys)]
    BY <1>3 DEF K!StoreSecret
  <2>2. /\ K!NewRing \in K!Keyring /\ K!NewRing.keys # {} /\ K!NewRing.exists
        /\ file.ring.keys \subseteq K!NewRing.keys /\ made' \in MadeType
    <3>1. CASE file.ring.exists
      BY <2>1, <3>1, FileFields, KeysTypes DEF K!NewRing, K!MadeKeys, K!CanStore
    <3>2. CASE ~file.ring.exists
      <4>1. made \in MadeType /\ made.keys < MaxGeneration /\ made' = [made EXCEPT !.keys = @ + 1]
        BY <2>1, <3>2, KeysTypes DEF K!MadeKeys
      <4>2. made.keys + 1 \in K!Generation /\ made' \in MadeType
        BY <4>1, KeysLimits DEF MadeType
      <4>3. K!NewRing = [exists |-> TRUE, keys |-> {made.keys + 1}]
        BY <3>2 DEF K!NewRing
      <4> QED BY <3>2, <4>2, <4>3, FileFields DEF K!Keyring
    <3> QED BY <3>1, <3>2
  <2> DEFINE g == K!Max(K!NewRing.keys)
  <2>3. g \in K!NewRing.keys /\ g \in K!Generation
    BY <2>2, NewestKey DEF K!Keyring
  <2>4. file' \in FileType /\ file'.ring = K!NewRing /\ file'.copy = file.copy
    BY <2>1, <2>2, FileFields, RingFile
  <2>5. keyDb' = [keyDb EXCEPT !.secret[s] = g]
    BY <2>1
  <2> HIDE DEF g
  <2>6. /\ DatabaseFits(keyDb') /\ keyDb'.exists /\ keyDb'.trust = keyDb.trust
        /\ keyDb'.run = keyDb.run /\ K!Stored(keyDb') \subseteq K!Stored(keyDb) \cup {g}
    BY <1>1, <2>3, <2>5, RunningProcess, SecretDatabase
  <2>7. WorkFits'
    BY <1>2, <2>6, WorkKept DEF AtOf
  <2>8. K!Stored(keyDb') \subseteq file'.ring.keys \cup gone
    BY <1>1, <2>2, <2>3, <2>4, <2>6, RunningProcess
  <2> QED BY <1>1, <1>2, <2>2, <2>4, <2>6, <2>7, <2>8, RunningProcess, ProcessStep DEF AtOf
<1>4. CASE K!DropSecret(p, s)
  <2>1. keyDb' = [keyDb EXCEPT !.secret[s] = K!Absent] /\ UNCHANGED <<file, made>>
    BY <1>4 DEF K!DropSecret
  <2>2. /\ DatabaseFits(keyDb') /\ keyDb'.exists /\ keyDb'.trust = keyDb.trust
        /\ keyDb'.run = keyDb.run /\ K!Stored(keyDb') \subseteq K!Stored(keyDb)
    BY <1>1, <2>1, RunningProcess, SecretDatabase
  <2>3. WorkFits'
    BY <1>2, <2>2, WorkKept DEF AtOf
  <2> QED BY <1>1, <1>2, <2>1, <2>2, <2>3, RunningProcess, FileFields, KeysTypes, ProcessStep
          DEF AtOf
<1> QED BY <1>3, <1>4

LEMMA TearKeys ==
    ASSUME KeysInv, NEW p \in Service, K!TearRing(p) \/ K!TearKey(p)
    PROVE  KeysInv'
<1>1. /\ process[p] = "up" /\ process' = [process EXCEPT ![p] = "down"]
      /\ UNCHANGED <<keyDb, made>>
      /\ UNCHANGED <<command, restore, config, archive, dump, partial, gone, losses>>
  BY DEF K!TearRing, K!TearKey, K!Offline
<1>2. /\ file' \in FileType /\ file'.ring.keys = file.ring.keys /\ file'.copy = file.copy
      /\ ~file'.ring.exists => file'.ring.keys = {}
  <2>1. CASE K!TearRing(p)
    <3> DEFINE r == [file.ring EXCEPT !.exists = TRUE]
    <3>1. file' = [file EXCEPT !.ring = r]
      BY <2>1 DEF K!TearRing
    <3>2. r \in K!Keyring /\ r.keys = file.ring.keys /\ r.exists
      BY FileFields DEF K!Keyring
    <3> HIDE DEF r
    <3> QED BY <3>1, <3>2, FileFields, RingFile
  <2>2. CASE K!TearKey(p)
    <3>1. WithKey(config, K!Torn)
      BY <2>2 DEF K!TearKey, WithKey
    <3>2. config \in KeyId
      BY KeysTypes
    <3>3. file' \in FileType /\ file'.ring = file.ring /\ file'.copy = file.copy
      BY <3>1, <3>2, KeyFile
    <3> QED BY <3>3, FileFields
  <2> QED BY <2>1, <2>2
<1>3. WorkFits'
  BY <1>1, WorkKept DEF AtOf
<1> QED BY <1>1, <1>2, <1>3, RunningProcess, KeysTypes, ProcessStep DEF AtOf

\* The key that a publication loads.
LEMMA LoadedFacts ==
    ASSUME KeysInv, NEW loaded \in BOOLEAN, K!Loads(config, loaded)
    PROVE  /\ K!LoadedKey(config) \in K!Material /\ K!MadePairs(config) \in MadeType
           /\ file.signing[config] \in K!Material => K!LoadedKey(config) = file.signing[config]
           /\ loaded => file.signing[config] \in K!Material
<1>1. K!Absent \notin K!Material /\ made \in MadeType
  BY KeysLimits, KeysTypes
<1>2. CASE file.signing[config] \in K!Material
  BY <1>1, <1>2 DEF K!LoadedKey, K!MadePairs
<1>3. CASE file.signing[config] = K!Absent /\ ~loaded /\ made.pairs < MaxMaterial
  BY <1>1, <1>3, KeysLimits DEF K!LoadedKey, K!MadePairs, MadeType
<1> QED BY <1>2, <1>3 DEF K!Loads, K!NewPair

LEMMA PublishKeys ==
    ASSUME KeysInv, NEW p \in Service, K!BeginPublish(p) \/ K!Publish(p)
    PROVE  KeysInv'
<1> DEFINE m == K!LoadedKey(config)
<1>1. /\ file' = [file EXCEPT !.signing[config] = m] /\ made' = K!MadePairs(config)
      /\ UNCHANGED <<command, restore, config, archive, dump, partial, gone, losses>>
      /\ process[p] # "down"
  BY DEF K!BeginPublish, K!Publish, K!Offline
<1>2. m \in K!Material /\ made' \in MadeType /\ config \in KeyId
  <2>1. K!Loads(config, TRUE) \/ K!Loads(config, FALSE)
    BY DEF K!BeginPublish, K!Publish
  <2> QED BY <1>1, <2>1, LoadedFacts, KeysTypes
<1> HIDE DEF m
<1>3. file' \in FileType /\ file'.ring = file.ring /\ file'.copy = file.copy
  <2>1. WithKey(config, m)
    BY <1>1 DEF WithKey
  <2> QED BY <1>2, <2>1, KeyFile
<1>4. /\ DatabaseFits(keyDb') /\ keyDb'.exists /\ K!Stored(keyDb') = K!Stored(keyDb)
      /\ keyDb'.run = keyDb.run
      /\ \A k \in KeyId : keyDb.trust[k].status # "unknown" => keyDb'.trust[k] = keyDb.trust[k]
  <2>1. CASE K!BeginPublish(p)
    <3>1. keyDb' = K!Registered(keyDb, config, m)
      BY <2>1 DEF K!BeginPublish, m
    <3> QED BY <1>1, <1>2, <3>1, RunningProcess, RegisteredDatabase
  <2>2. CASE K!Publish(p)
    <3>1. keyDb' = [keyDb EXCEPT !.rule = [key |-> config, material |-> m, revision |-> 0]]
      BY <2>2 DEF K!Publish, m
    <3>2. [key |-> config, material |-> m, revision |-> 0] \in K!Proof
      BY <1>2 DEF K!Proof
    <3> QED BY <1>1, <3>1, <3>2, RunningProcess, RuleDatabase
  <2> QED BY <2>1, <2>2
<1>5. PICK at \in {"up", "signing"} : process' = [process EXCEPT ![p] = at]
  BY DEF K!BeginPublish, K!Publish
<1>6. WorkFits'
  BY <1>4, <1>5, WorkKept DEF AtOf
<1> QED BY <1>1, <1>2, <1>3, <1>4, <1>5, <1>6, RunningProcess, FileFields, ProcessStep DEF AtOf

LEMMA RunKeys ==
    ASSUME KeysInv, NEW p \in Service, K!CreateRun(p) \/ K!ExecuteRun(p) \/ K!CommitRun(p)
    PROVE  KeysInv'
<1>1. /\ process[p] \in {"up", "working"} /\ UNCHANGED <<file, made>>
      /\ UNCHANGED <<command, restore, config, archive, dump, partial, gone, losses>>
  BY DEF K!CreateRun, K!ExecuteRun, K!CommitRun, K!Offline
<1>2. /\ keyDb \in K!Database /\ keyDb.run \in RunType /\ keyDb.rule \in K!Proof
      /\ keyDb.trust \in [KeyId -> K!Trust]
  BY KeysTypes, DatabaseFields
<1>3. CASE K!CreateRun(p)
  <2> DEFINE proof == [keyDb.rule EXCEPT !.revision = keyDb.trust[keyDb.rule.key].revision]
             r == [status |-> "queued", proof |-> proof]
  <2>1. /\ UNCHANGED process /\ keyDb.run.status \notin {"queued", "running"}
        /\ process[p] = "up" /\ keyDb' = [keyDb EXCEPT !.run = r]
    BY <1>3 DEF K!CreateRun
  <2>2. r \in RunType
    BY <1>2 DEF RunType, K!Proof, K!Trust
  <2> HIDE DEF r
  <2>3. /\ DatabaseFits(keyDb') /\ keyDb'.exists /\ K!Stored(keyDb') = K!Stored(keyDb)
    BY <1>1, <2>1, <2>2, RunningProcess, RunDatabase
  <2>4. process' = [process EXCEPT ![p] = "up"]
    BY <2>1, KeysTypes
  <2>5. \A q \in Service : process[q] # "working"
    BY <2>1 DEF KeysInv, WorkFits
  <2>6. WorkFits'
    BY <2>1, <2>5 DEF WorkFits
  <2> QED BY <1>1, <2>3, <2>4, <2>6, RunningProcess, FileFields, KeysTypes, ProcessStep DEF AtOf
<1>4. CASE K!ExecuteRun(p)
  <2> DEFINE st == IF K!StillVerified THEN "running" ELSE "failed"
             at == IF K!StillVerified THEN "working" ELSE "up"
             r  == [keyDb.run EXCEPT !.status = st]
  <2>1. /\ \A q \in Service : process[q] # "working"
        /\ process' = [process EXCEPT ![p] = at]
        /\ keyDb' = [keyDb EXCEPT !.run = r]
    BY <1>4 DEF K!ExecuteRun
  <2>2. r \in RunType /\ r.status = st /\ r.proof = keyDb.run.proof /\ at \in AtOf
    BY <1>2 DEF RunType, AtOf
  <2> HIDE DEF r
  <2>3. /\ DatabaseFits(keyDb') /\ keyDb'.exists /\ keyDb'.trust = keyDb.trust /\ keyDb'.run = r
        /\ K!Stored(keyDb') = K!Stored(keyDb)
    BY <1>1, <2>1, <2>2, RunningProcess, RunDatabase
  <2>4. \A q \in Service : process'[q] = "working" => q = p /\ K!StillVerified
    BY <2>1, KeysTypes
  <2>5. WorkFits'
    BY <2>2, <2>3, <2>4 DEF WorkFits, K!StillVerified, K!Verified
  <2> HIDE DEF st, at
  <2> QED BY <1>1, <2>1, <2>2, <2>3, <2>5, RunningProcess, FileFields, KeysTypes, ProcessStep
<1>5. CASE K!CommitRun(p)
  <2> DEFINE r == [keyDb.run EXCEPT !.status = "committed"]
  <2>1. /\ process[p] = "working" /\ process' = [process EXCEPT ![p] = "up"]
        /\ keyDb' = [keyDb EXCEPT !.run = r]
    BY <1>5 DEF K!CommitRun
  <2>2. r \in RunType
    BY <1>2 DEF RunType
  <2> HIDE DEF r
  <2>3. /\ DatabaseFits(keyDb') /\ keyDb'.exists /\ K!Stored(keyDb') = K!Stored(keyDb)
    BY <1>1, <2>1, <2>2, RunningProcess, RunDatabase
  <2>4. \A q \in Service : process'[q] # "working"
    <3>1. \A q \in Service : process[q] = "working" => q = p
      BY <2>1 DEF KeysInv, WorkFits
    <3> QED BY <2>1, <3>1, KeysTypes
  <2>5. WorkFits'
    BY <2>4 DEF WorkFits
  <2> QED BY <1>1, <2>1, <2>3, <2>5, RunningProcess, FileFields, KeysTypes, ProcessStep DEF AtOf
<1> QED BY <1>3, <1>4, <1>5

-----------------------------------------------------------------------------
(* Commands *)

\* What an offline command finds.
LEMMA CommandFinds ==
    ASSUME KeysInv,
           command.step # "idle" \/ (K!OfflineAllowed /\ (keyDb.exists \/ K!Opens))
    PROVE  /\ K!AllDown /\ restore.step \in {"idle", "checked"} /\ ~file.marker
           /\ command.step # "idle" => keyDb.exists
           /\ keyDb.exists => file.copy = "none"
           /\ DatabaseFits(keyDb) /\ K!Stored(keyDb) \subseteq file.ring.keys \cup gone
BY DEF KeysInv, LocksHold, RingsFit, K!OfflineAllowed, K!Locked, K!MarkerAllows, K!Opens

\* Another command, or the same a step further.
LEMMA CommandMoves ==
    ASSUME KeysInv,
           \/ \E step \in {"ring", "key", "reencrypt"}, k \in KeyId : K!Begin(step, k)
           \/ K!Single \/ K!Finish
           \/ \E step \in {"ringWrite", "key", "keyWrite", "register"} : K!Continue(step)
    PROVE  command' \in CommandType
<1>1. command \in CommandType /\ FirstKey \in KeyId /\ MaxOffline \in Nat
  BY KeysTypes, KeysLimits
<1>2. CASE \E step \in {"ring", "key", "reencrypt"}, k \in KeyId : K!Begin(step, k)
  BY <1>1, <1>2 DEF CommandType, K!Begin, K!Counted
<1>3. CASE K!Single
  BY <1>1, <1>3 DEF CommandType, K!Single, K!Counted
<1>4. CASE K!Finish
  BY <1>1, <1>4 DEF CommandType, K!Finish
<1>5. CASE \E step \in {"ringWrite", "key", "keyWrite", "register"} : K!Continue(step)
  BY <1>1, <1>5 DEF CommandType, K!Continue
<1> QED BY <1>2, <1>3, <1>4, <1>5

\* Where the command is then.
LEMMA CommandStepOf ==
    ASSUME KeysInv
    PROVE  /\ K!Single => command'.step = command.step
           /\ K!Finish => command'.step = "idle"
           /\ \A step : K!Continue(step) => command'.step = step
           /\ \A step, k : K!Begin(step, k) => command'.step = step
<1>1. command \in CommandType
  BY KeysTypes
<1>2. /\ K!Single => command'.step = command.step
      /\ K!Finish => command'.step = "idle"
  BY <1>1 DEF CommandType, K!Single, K!Finish
<1>3. ASSUME NEW step
      PROVE  /\ K!Continue(step) => command'.step = step
             /\ \A k : K!Begin(step, k) => command'.step = step
  <2>1. K!Continue(step) => command'.step = step
    BY <1>1 DEF CommandType, K!Continue
  <2>2. ASSUME NEW k, K!Begin(step, k)
        PROVE  command'.step = step
    <3>1. command' = [step |-> step, key |-> k, count |-> command.count + 1]
      BY <2>2 DEF K!Begin
    <3> QED BY <3>1
  <2> QED BY <2>1, <2>2
<1> QED BY <1>2, <1>3

\* A command that leaves keyring and credentials alone.
LEMMA CommandKeeps ==
    ASSUME KeysInv, command.step # "idle" \/ (K!OfflineAllowed /\ keyDb.exists),
           UNCHANGED <<process, restore, config, archive, dump, partial, gone, losses>>,
           command' \in CommandType,
           command'.step \notin {"ring", "ringWrite"},
           file' \in FileType, file'.marker = file.marker, file'.ring = file.ring,
           file'.copy = file.copy,
           made' \in MadeType, DatabaseFits(keyDb'),
           command'.step # "idle" => keyDb'.exists,
           K!Stored(keyDb') = K!Stored(keyDb)
    PROVE  KeysInv'
BY CommandFinds, FileFields, CommandStep

LEMMA InitializeKeys ==
    ASSUME KeysInv, K!BeginInitialize
    PROVE  KeysInv'
<1>1. /\ K!OfflineAllowed /\ K!Opens /\ keyDb' = K!Initialized(keyDb) /\ UNCHANGED made
      /\ file' = [file EXCEPT !.copy = "none"]
      /\ UNCHANGED <<process, restore, config, archive, dump, partial, gone, losses>>
      /\ (K!CanStore /\ K!Begin("ring", config)) \/ K!Single
  BY DEF K!BeginInitialize, K!Others
<1>2. /\ DatabaseFits(keyDb') /\ keyDb'.exists /\ K!Stored(keyDb') = K!Stored(keyDb)
  BY <1>1, CommandFinds, InitializedDatabase
<1>3. command' \in CommandType
  BY <1>1, CommandMoves, KeysTypes
<1>4. /\ command.step = "idle" /\ made' \in MadeType
      /\ file' \in FileType /\ file'.ring = file.ring /\ file'.marker = file.marker
      /\ file'.copy = "none"
  BY <1>1, KeysTypes, FileFields DEF K!OfflineAllowed, K!Locked, FileType
<1>5. /\ command'.step \in {"ring", "ringWrite"} => K!Stored(keyDb) \subseteq file.ring.keys
      /\ command'.step # "ringWrite"
  BY <1>1, <1>4, CommandStepOf DEF K!CanStore
<1> QED BY <1>1, <1>2, <1>3, <1>4, <1>5, CommandFinds, FileFields, CommandStep

LEMMA RingKeys ==
    ASSUME KeysInv, K!CreateRing \/ K!WriteRing
    PROVE  KeysInv'
<1>1. /\ command.step \in {"ring", "ringWrite"} /\ UNCHANGED keyDb
      /\ UNCHANGED <<process, restore, config, archive, dump, partial, gone, losses>>
  BY DEF K!CreateRing, K!WriteRing, K!Others
<1>2. K!Stored(keyDb) \subseteq file.ring.keys
  BY <1>1 DEF KeysInv, RingsFit
<1>3. CASE K!CreateRing
  <2> DEFINE r == [file.ring EXCEPT !.exists = TRUE]
  <2>1. /\ file' = [file EXCEPT !.ring = r] /\ UNCHANGED made
        /\ IF file.ring.exists THEN K!Continue("key") ELSE K!Continue("ringWrite")
    BY <1>3 DEF K!CreateRing
  <2>2. r \in K!Keyring /\ r.keys = file.ring.keys /\ r.exists
    BY FileFields DEF K!Keyring
  <2> HIDE DEF r
  <2>3. /\ file' \in FileType /\ file'.ring = r /\ file'.marker = file.marker
        /\ file'.copy = file.copy
    BY <2>1, <2>2, FileFields, RingFile
  <2>4. command' \in CommandType /\ (command'.step = "ringWrite" => ~file.ring.exists)
    BY <2>1, CommandMoves, CommandStepOf
  <2> QED BY <1>1, <1>2, <2>1, <2>2, <2>3, <2>4, CommandFinds, FileFields, KeysTypes, CommandStep
<1>4. CASE K!WriteRing
  <2> DEFINE r == [file.ring EXCEPT !.keys = {made.keys + 1}]
  <2>1. /\ file.ring.exists /\ made.keys < MaxGeneration /\ file' = [file EXCEPT !.ring = r]
        /\ made' = [made EXCEPT !.keys = @ + 1] /\ K!Continue("key")
        /\ command.step = "ringWrite"
    BY <1>4 DEF K!WriteRing
  <2>2. made.keys + 1 \in K!Generation /\ made' \in MadeType
    BY <2>1, KeysTypes, KeysLimits DEF MadeType
  <2>3. r \in K!Keyring /\ r.exists
    BY <2>1, <2>2, FileFields DEF K!Keyring
  <2> HIDE DEF r
  <2>4. /\ file' \in FileType /\ file'.ring = r /\ file'.marker = file.marker
        /\ file'.copy = file.copy
    BY <2>1, <2>3, FileFields, RingFile
  <2>5. command' \in CommandType /\ command'.step = "key"
    BY <2>1, CommandMoves, CommandStepOf
  <2>6. file.ring.keys = {} /\ K!Stored(keyDb) = {}
    BY <1>2, <2>1 DEF KeysInv, RingsFit
  <2> QED BY <1>1, <2>2, <2>3, <2>4, <2>5, <2>6, CommandFinds, FileFields, CommandStep
<1> QED BY <1>3, <1>4

LEMMA SigningKeys ==
    ASSUME KeysInv, (\E k \in KeyId : K!BeginCreateSigning(k)) \/ K!CreateKey \/ K!WriteKey
                    \/ K!RegisterKey
    PROVE  KeysInv'
<1>1. UNCHANGED <<process, restore, config, archive, dump, partial, gone, losses>>
  BY DEF K!BeginCreateSigning, K!CreateKey, K!WriteKey, K!RegisterKey, K!Others
<1>2. command.key \in KeyId /\ made \in MadeType /\ K!Absent \notin K!Material
  BY KeysTypes, KeysLimits DEF CommandType
<1>3. ASSUME NEW k \in KeyId, K!BeginCreateSigning(k)
      PROVE  KeysInv'
  <2>1. K!OfflineAllowed /\ keyDb.exists /\ K!Begin("key", k) /\ UNCHANGED <<file, keyDb, made>>
    BY <1>3 DEF K!BeginCreateSigning
  <2>2. command' \in CommandType /\ command'.step = "key"
    BY <2>1, CommandMoves, CommandStepOf
  <2> QED BY <1>1, <2>1, <2>2, CommandFinds, FileFields, KeysTypes, CommandKeeps
<1>4. CASE K!CreateKey
  <2>1. /\ command.step = "key" /\ UNCHANGED <<keyDb, made>>
        /\ \/ /\ file' = [file EXCEPT !.signing[command.key] = K!Torn]
              /\ K!Continue("keyWrite")
           \/ UNCHANGED file /\ K!Continue("register")
    BY <1>4 DEF K!CreateKey
  <2>2. command' \in CommandType /\ command'.step \in {"keyWrite", "register"}
    BY <2>1, CommandMoves, CommandStepOf
  <2>3. /\ file' \in FileType /\ file'.marker = file.marker /\ file'.ring = file.ring
        /\ file'.copy = file.copy
    <3>1. CASE file' = [file EXCEPT !.signing[command.key] = K!Torn]
      <4>1. PICK k \in KeyId : k = command.key
        BY <1>2
      <4>2. WithKey(k, K!Torn)
        BY <3>1, <4>1 DEF WithKey
      <4> QED BY <4>2, KeyFile
    <3>2. CASE UNCHANGED file
      BY <3>2, FileFields
    <3> QED BY <2>1, <3>1, <3>2
  <2> QED BY <1>1, <2>1, <2>2, <2>3, CommandFinds, KeysTypes, CommandKeeps
<1>5. CASE K!WriteKey
  <2>1. /\ command.step = "keyWrite" /\ UNCHANGED keyDb /\ made.pairs < MaxMaterial
        /\ file' = [file EXCEPT !.signing[command.key] = made.pairs + 1]
        /\ made' = [made EXCEPT !.pairs = @ + 1] /\ K!Continue("register")
    BY <1>5 DEF K!WriteKey
  <2>2. made.pairs + 1 \in K!Material /\ made' \in MadeType
    BY <1>2, <2>1, KeysLimits DEF MadeType
  <2>3. /\ file' \in FileType /\ file'.marker = file.marker /\ file'.ring = file.ring
        /\ file'.copy = file.copy
    <3>1. WithKey(command.key, made.pairs + 1)
      BY <2>1 DEF WithKey
    <3> QED BY <1>2, <2>2, <3>1, KeyFile
  <2>4. command' \in CommandType /\ command'.step = "register"
    BY <2>1, CommandMoves, CommandStepOf
  <2> QED BY <1>1, <2>1, <2>2, <2>3, <2>4, CommandFinds, CommandKeeps
<1>6. CASE K!RegisterKey
  <2>1. /\ command.step = "register" /\ UNCHANGED <<file, made>> /\ K!Finish
        /\ file.signing[command.key] \in K!Material
        /\ keyDb' = K!Registered(keyDb, command.key, file.signing[command.key])
    BY <1>6 DEF K!RegisterKey
  <2>2. DatabaseFits(keyDb') /\ K!Stored(keyDb') = K!Stored(keyDb)
    BY <1>2, <2>1, CommandFinds, RegisteredDatabase
  <2>3. command' \in CommandType /\ command'.step = "idle"
    BY <2>1, CommandMoves, CommandStepOf
  <2> QED BY <1>1, <2>1, <2>2, <2>3, FileFields, KeysTypes, CommandKeeps
<1> QED BY <1>3, <1>4, <1>5, <1>6

LEMMA RotateKeys ==
    ASSUME KeysInv, K!BeginRotate \/ K!Reencrypt
    PROVE  KeysInv'
<1>1. UNCHANGED <<process, restore, config, archive, dump, partial, gone, losses>>
  BY DEF K!BeginRotate, K!Reencrypt, K!Others
<1>2. CASE K!BeginRotate
  <2> DEFINE r == K!Rotated(file.ring, made.keys + 1)
  <2>1. /\ K!OfflineAllowed /\ keyDb.exists /\ made.keys < MaxGeneration /\ UNCHANGED keyDb
        /\ file' = [file EXCEPT !.ring = r] /\ made' = [made EXCEPT !.keys = @ + 1]
        /\ K!Begin("reencrypt", config) /\ file.ring.exists
    BY <1>2 DEF K!BeginRotate, K!KeysValid
  <2>2. made.keys + 1 \in K!Generation /\ made' \in MadeType
    BY <2>1, KeysTypes, KeysLimits DEF MadeType
  <2>3. r \in K!Keyring /\ r.exists /\ file.ring.keys \subseteq r.keys
    BY <2>1, <2>2, FileFields DEF K!Keyring, K!Rotated
  <2> HIDE DEF r
  <2>4. /\ file' \in FileType /\ file'.ring = r /\ file'.marker = file.marker
        /\ file'.copy = file.copy
    BY <2>1, <2>3, FileFields, RingFile
  <2>5. command' \in CommandType /\ command'.step = "reencrypt"
    BY <2>1, CommandMoves, CommandStepOf, KeysTypes
  <2> QED BY <1>1, <2>1, <2>2, <2>3, <2>4, <2>5, CommandFinds, CommandStep
<1>3. CASE K!Reencrypt
  <2> DEFINE g == K!Max(file.ring.keys)
             x == [s \in Secret |-> IF keyDb.secret[s] = K!Absent THEN K!Absent ELSE g]
  <2>1. /\ command.step = "reencrypt" /\ K!Stored(keyDb) \subseteq file.ring.keys
        /\ UNCHANGED <<file, made>> /\ K!Finish /\ keyDb' = [keyDb EXCEPT !.secret = x]
    BY <1>3 DEF K!Reencrypt
  <2>2. /\ keyDb \in K!Database /\ keyDb.exists /\ DatabaseFits(keyDb)
        /\ keyDb.secret \in [Secret -> K!Generation \cup {K!Absent}]
    BY <2>1, CommandFinds, KeysTypes, DatabaseFields
  <2>3. ASSUME NEW s \in Secret, keyDb.secret[s] # K!Absent
        PROVE  g \in file.ring.keys /\ g \in K!Generation
    <3>1. keyDb.secret[s] \in K!Stored(keyDb)
      BY <2>3 DEF K!Stored
    <3> QED BY <2>1, <3>1, NewestKey, FileFields
  <2> HIDE DEF g
  <2>4. /\ x \in [Secret -> K!Generation \cup {K!Absent}]
        /\ \A s \in Secret : x[s] # K!Absent => x[s] \in file.ring.keys
    BY <2>3
  <2> HIDE DEF x
  <2>5. /\ keyDb' \in K!Database /\ keyDb'.exists /\ keyDb'.trust = keyDb.trust
        /\ keyDb'.secret = x
    BY <2>1, <2>2, <2>4 DEF K!Database
  <2>6. DatabaseFits(keyDb') /\ K!Stored(keyDb') \subseteq file.ring.keys
    BY <2>2, <2>4, <2>5, DatabaseKept DEF K!Stored
  <2>7. command' \in CommandType /\ command'.step = "idle"
    BY <2>1, CommandMoves, CommandStepOf
  <2> QED BY <1>1, <2>1, <2>6, <2>7, CommandFinds, FileFields, KeysTypes, CommandStep
<1> QED BY <1>2, <1>3

LEMMA StatusKeys ==
    ASSUME KeysInv, NEW k \in KeyId, NEW st \in {"retired", "compromised"}, K!SetStatus(k, st)
    PROVE  KeysInv'
<1> DEFINE t == [keyDb.trust[k] EXCEPT !.status = st, !.revision = @ + 1]
           f == [keyDb.trust EXCEPT ![k] = t]
<1>1. /\ K!OfflineAllowed /\ keyDb.exists /\ K!Single /\ UNCHANGED <<file, made>>
      /\ UNCHANGED <<process, restore, config, archive, dump, partial, gone, losses>>
      /\ \/ keyDb.trust[k].status = "trusted"
         \/ keyDb.trust[k].status = "retired" /\ st = "compromised"
      /\ keyDb' = [keyDb EXCEPT !.trust = f]
  <2>1. K!OfflineAllowed /\ keyDb.exists /\ K!Single /\ UNCHANGED <<file, made>>
    BY DEF K!SetStatus
  <2>2. UNCHANGED <<process, restore, config, archive, dump, partial, gone, losses>>
    BY DEF K!SetStatus, K!Others
  <2>3. \/ keyDb.trust[k].status = "trusted"
        \/ keyDb.trust[k].status = "retired" /\ st = "compromised"
    BY DEF K!SetStatus
  <2>4. keyDb' = [keyDb EXCEPT !.trust[k].status = st, !.trust[k].revision = @ + 1]
    BY DEF K!SetStatus
  <2>5. keyDb \in K!Database /\ keyDb.trust \in [KeyId -> K!Trust]
    BY KeysTypes, DatabaseFields
  <2>6. keyDb' = [keyDb EXCEPT !.trust = f]
    BY <2>4, <2>5 DEF K!Database, K!Trust
  <2> QED BY <2>1, <2>2, <2>3, <2>6
<1>2. /\ keyDb \in K!Database /\ DatabaseFits(keyDb) /\ keyDb.trust \in [KeyId -> K!Trust]
  BY <1>1, CommandFinds, KeysTypes, DatabaseFields
<1>3. /\ keyDb.trust[k].material \in K!Material
      /\ keyDb.trust[k].status = "trusted" => keyDb.trust[k].revision = 1
      /\ keyDb.trust[k].status = "retired" => keyDb.trust[k].revision = 2
  BY <1>1, <1>2 DEF DatabaseFits
<1>4. /\ t \in K!Trust /\ t.status = st /\ t.material \in K!Material
      /\ st = "retired" => t.revision = 2
  <2>1. /\ keyDb.trust[k] \in K!Trust /\ keyDb.trust[k].revision \in {1, 2}
        /\ st = "retired" => keyDb.trust[k].revision = 1
    BY <1>1, <1>2, <1>3
  <2>2. PICK n \in 0..3 : n = keyDb.trust[k].revision + 1
    BY <2>1
  <2>3. t = [keyDb.trust[k] EXCEPT !.status = st, !.revision = n]
    BY <2>2
  <2>4. /\ t \in K!Trust /\ t.status = st /\ t.revision = n
        /\ t.material = keyDb.trust[k].material
    <3> HIDE DEF t
    <3> QED BY <2>1, <2>2, <2>3 DEF K!Trust
  <2> HIDE DEF t
  <2> QED BY <1>3, <2>1, <2>2, <2>4
<1> HIDE DEF t
<1>5. f \in [KeyId -> K!Trust] /\ f[k] = t /\ \A j \in KeyId : j # k => f[j] = keyDb.trust[j]
  BY <1>2, <1>4
<1> HIDE DEF f
<1>6. /\ keyDb' \in K!Database /\ keyDb'.exists /\ keyDb'.trust = f
      /\ keyDb'.secret = keyDb.secret
  BY <1>1, <1>2, <1>5 DEF K!Database
<1>7. ASSUME NEW j \in KeyId
      PROVE  /\ f[j].status # "unknown" => f[j].material \in K!Material
             /\ f[j].status = "trusted" => f[j].revision = 1
             /\ f[j].status = "retired" => f[j].revision = 2
  <2>1. CASE j = k
    BY <1>4, <1>5, <2>1
  <2>2. CASE j # k
    BY <1>2, <1>5, <2>2 DEF DatabaseFits
  <2> QED BY <2>1, <2>2
<1>8. DatabaseFits(keyDb') /\ K!Stored(keyDb') = K!Stored(keyDb)
  BY <1>6, <1>7 DEF DatabaseFits, K!Stored
<1>9. command' \in CommandType /\ command'.step = "idle"
  BY <1>1, CommandMoves, CommandStepOf DEF K!OfflineAllowed, K!Locked
<1> QED BY <1>1, <1>8, <1>9, CommandFinds, FileFields, KeysTypes, CommandKeeps

LEMMA EndKeys ==
    ASSUME KeysInv, K!EndCommand
    PROVE  KeysInv'
<1>1. /\ command.step # "idle" /\ K!Finish /\ UNCHANGED <<file, keyDb, made>>
      /\ UNCHANGED <<process, restore, config, archive, dump, partial, gone, losses>>
  BY DEF K!EndCommand, K!Others
<1>2. command' \in CommandType /\ command'.step = "idle"
  BY <1>1, CommandMoves, CommandStepOf
<1> QED BY <1>1, <1>2, CommandFinds, FileFields, KeysTypes, CommandKeeps

-----------------------------------------------------------------------------
(* Backup, restore and loss *)

LEMMA BackupKeys ==
    ASSUME KeysInv, K!BackupFull \/ K!BackupDatabase
                    \/ \E k \in KeyId : K!Reconfigure(k)
    PROVE  KeysInv'
<1>1. DatabaseFits(keyDb) /\ DatabaseFits(dump) /\ DatabaseFits(archive.db)
  BY DEF KeysInv
<1>2. CASE K!BackupFull
  <2>1. /\ K!OfflineAllowed /\ keyDb.exists /\ K!Single /\ K!KeysValid
        /\ archive' = [exists |-> TRUE, config |-> config, db |-> keyDb, ring |-> file.ring,
                       signing |-> file.signing[config]]
        /\ UNCHANGED <<process, restore, config, file, keyDb, dump, made, partial, gone, losses>>
    BY <1>2 DEF K!BackupFull
  <2>2. /\ file.ring.exists /\ file.ring.keys # {} /\ file.signing[config] \in K!Material
        /\ K!Stored(keyDb) \subseteq file.ring.keys
    BY <2>1 DEF K!KeysValid, K!CanStore
  <2>3. /\ archive'.exists /\ archive'.db = keyDb /\ archive'.ring = file.ring
        /\ archive'.signing = file.signing[config] /\ archive' \in K!Archive
    BY <2>1, <2>2, KeysTypes, FileFields DEF K!Archive
  <2>4. command' \in CommandType /\ command'.step = "idle" /\ command.step = "idle"
    BY <2>1, CommandMoves, CommandStepOf DEF K!OfflineAllowed, K!Locked
  <2>5. LocksHold'
    BY <2>1, <2>4 DEF KeysInv, LocksHold, K!AllDown
  <2>6. RingsFit'
    BY <2>1, <2>2, <2>3, <2>4 DEF KeysInv, RingsFit
  <2>7. RestoreFits'
    <3>1. restore.installed = {}
      BY <2>1, CommandFinds DEF KeysInv, RestoreFits
    <3> QED BY <2>1, <2>2, <2>3, <3>1 DEF RestoreFits
  <2> QED BY <1>1, <2>1, <2>3, <2>4, <2>5, <2>6, <2>7, KeysTypes, QuietStep
<1>3. CASE K!BackupDatabase
  <2>1. /\ keyDb.exists /\ dump' = keyDb /\ K!Single
        /\ UNCHANGED <<process, restore, config, file, keyDb, archive, made, partial, gone, losses>>
    BY <1>3 DEF K!BackupDatabase
  <2>2. command' \in CommandType /\ command'.step = command.step
    BY <2>1, CommandMoves, CommandStepOf
  <2>3. LocksHold' /\ RestoreFits'
    BY <2>1, <2>2 DEF KeysInv, LocksHold, RestoreFits, K!AllDown
  <2>4. RingsFit'
    BY <2>1, <2>2 DEF KeysInv, RingsFit
  <2> QED BY <1>1, <2>1, <2>2, <2>3, <2>4, KeysTypes, QuietStep
<1>4. ASSUME NEW k \in KeyId, K!Reconfigure(k)
      PROVE  KeysInv'
  <2>1. /\ K!AllDown /\ ~K!Locked /\ config' = k
        /\ UNCHANGED <<process, command, restore, file, keyDb, archive, dump, made, partial,
                       gone, losses>>
    BY <1>4 DEF K!Reconfigure
  <2>2. LocksHold' /\ RingsFit'
    BY <2>1 DEF KeysInv, LocksHold, RingsFit, K!AllDown
  <2>3. RestoreFits'
    BY <2>1 DEF KeysInv, RestoreFits, K!Locked
  <2> QED BY <1>1, <2>1, <2>2, <2>3, KeysTypes, QuietStep
<1> QED BY <1>2, <1>3, <1>4

LEMMA RestoreMoves ==
    ASSUME KeysInv, UNCHANGED <<process, command, config, archive, dump, made, losses>>,
           K!AllDown \/ UNCHANGED keyDb, restore' \in RestoreType, file' \in FileType,
           partial' \in BOOLEAN, gone' \subseteq K!Generation, DatabaseFits(keyDb'),
           LocksHold', RingsFit', RestoreFits'
    PROVE  KeysInv'
<1>1. DatabaseFits(dump') /\ DatabaseFits(archive'.db)
  BY DEF KeysInv
<1> QED BY <1>1, KeysTypes, QuietStep

LEMMA LockRestoreKeys ==
    ASSUME KeysInv, K!BeginRestore \/ K!LockRestore \/ K!RefuseRestore \/ K!EndRestore
    PROVE  KeysInv'
<1>1. /\ UNCHANGED <<keyDb, partial, gone>>
      /\ UNCHANGED <<process, command, config, archive, dump, made, losses>>
  BY DEF K!BeginRestore, K!LockRestore, K!RefuseRestore, K!EndRestore, K!Rest
<1>2. CASE K!LockRestore
  <2>1. /\ restore.step = "checked" /\ K!OfflineAllowed /\ K!Opens /\ file.copy = "none"
        /\ ~keyDb.exists
        /\ restore' = [restore EXCEPT !.step = "artifacts"]
        /\ file' = [file EXCEPT !.marker = TRUE]
    BY <1>2 DEF K!LockRestore, K!NoFile, K!Opens
  <2>2. /\ restore' \in RestoreType /\ restore'.step = "artifacts"
        /\ restore'.installed = restore.installed
    BY <2>1, KeysTypes DEF RestoreType
  <2>3. /\ file' \in FileType /\ file'.marker /\ file'.ring = file.ring
        /\ file'.signing = file.signing /\ file'.copy = "none"
    BY <2>1, FileFields DEF FileType
  <2>4. K!AllDown /\ command.step = "idle" /\ ~partial
    BY <2>1, CommandFinds DEF K!OfflineAllowed, K!Locked, KeysInv, LocksHold
  <2>5. LocksHold'
    BY <1>1, <2>1, <2>2, <2>3, <2>4 DEF LocksHold, K!AllDown
  <2>6. RingsFit' /\ RestoreFits'
    BY <1>1, <2>1, <2>2, <2>3 DEF KeysInv, RingsFit, RestoreFits
  <2> QED BY <1>1, <2>2, <2>3, <2>5, <2>6, KeysTypes, RestoreMoves DEF KeysInv
<1>3. CASE K!EndRestore
  <2>1. /\ restore.step = "unmark" /\ file.copy = "none" /\ file' = [file EXCEPT !.marker = FALSE]
        /\ restore' = [step |-> "idle", installed |-> {}]
    BY <1>3 DEF K!EndRestore, KeysInv, LocksHold
  <2>2. restore' \in RestoreType /\ restore'.step = "idle" /\ restore'.installed = {}
    BY <2>1 DEF RestoreType
  <2>3. /\ file' \in FileType /\ ~file'.marker /\ file'.ring = file.ring
        /\ file'.signing = file.signing /\ file'.copy = "none"
    BY <2>1, FileFields DEF FileType
  <2>4. K!AllDown /\ command.step = "idle" /\ ~partial
    BY <2>1 DEF KeysInv, LocksHold
  <2>5. LocksHold'
    BY <1>1, <2>2, <2>3, <2>4 DEF LocksHold, K!AllDown
  <2>6. RingsFit' /\ RestoreFits'
    BY <1>1, <2>1, <2>2, <2>3 DEF KeysInv, RingsFit, RestoreFits
  <2> QED BY <1>1, <2>2, <2>3, <2>5, <2>6, KeysTypes, RestoreMoves DEF KeysInv
<1>4. CASE K!BeginRestore \/ K!RefuseRestore
  <2>1. /\ UNCHANGED file
        /\ \/ restore' = [step |-> "idle", installed |-> {}]
           \/ restore' = [step |-> "checked", installed |-> {}] /\ archive.exists
    <3>1. CASE K!RefuseRestore
      <4>1. restore.step = "checked" /\ restore' = [restore EXCEPT !.step = "idle"]
        BY <3>1 DEF K!RefuseRestore
      <4>2. restore.installed = {}
        BY <4>1 DEF KeysInv, RestoreFits
      <4>3. restore' = [step |-> "idle", installed |-> {}]
        BY <4>1, <4>2, KeysTypes DEF RestoreType
      <4> QED BY <3>1, <4>3 DEF K!RefuseRestore
    <3> QED BY <1>4, <3>1 DEF K!BeginRestore
  <2>2. /\ restore' \in RestoreType /\ restore'.installed = {}
        /\ restore'.step = "idle" \/ (restore'.step = "checked" /\ archive.exists)
    <3>1. CASE restore' = [step |-> "idle", installed |-> {}]
      BY <3>1 DEF RestoreType
    <3>2. CASE restore' = [step |-> "checked", installed |-> {}] /\ archive.exists
      BY <3>2 DEF RestoreType
    <3> QED BY <2>1, <3>1, <3>2
  <2>3. LocksHold'
    BY <1>1, <2>1, <2>2 DEF KeysInv, LocksHold, K!AllDown
  <2>4. RingsFit' /\ RestoreFits'
    BY <1>1, <2>1, <2>2 DEF KeysInv, RingsFit, RestoreFits
  <2> QED BY <1>1, <2>1, <2>2, <2>3, <2>4, KeysTypes, RestoreMoves DEF KeysInv
<1> QED BY <1>2, <1>3, <1>4

\* A restore of the database alone, under no lock.
LEMMA CopyKeys ==
    ASSUME KeysInv, K!BeginCopy \/ K!EndCopy \/ K!UndoCopy
    PROVE  KeysInv'
<1>1. /\ UNCHANGED <<partial, gone>>
      /\ UNCHANGED <<process, command, config, archive, dump, made, losses>>
  BY DEF K!BeginCopy, K!EndCopy, K!UndoCopy, K!Rest
<1>2. /\ ~keyDb.exists /\ restore.step \in {"idle", "copy"} /\ dump.exists
      /\ \/ restore' = [restore EXCEPT !.step = "copy"] /\ UNCHANGED keyDb
            /\ file' = [file EXCEPT !.copy = "part"]
         \/ restore' = [restore EXCEPT !.step = "idle"] /\ keyDb' \in {keyDb, dump}
            /\ file' = [file EXCEPT !.copy = "none"]
  BY DEF K!BeginCopy, K!EndCopy, K!UndoCopy, K!NoFile, KeysInv, LocksHold
<1>3. K!AllDown /\ command.step = "idle" /\ restore.installed = {}
  BY <1>2 DEF KeysInv, LocksHold, RestoreFits
<1>4. PICK step \in {"copy", "idle"}, c \in {"part", "none"} :
         /\ restore' = [restore EXCEPT !.step = step] /\ file' = [file EXCEPT !.copy = c]
         /\ step = "copy" <=> c = "part"
         /\ step = "copy" => UNCHANGED keyDb
  BY <1>2
<1>5. restore' \in RestoreType /\ restore'.step = step /\ restore'.installed = {}
  BY <1>3, <1>4, KeysTypes DEF RestoreType
<1>6. /\ file' \in FileType /\ file'.ring = file.ring /\ file'.signing = file.signing
      /\ file'.marker = file.marker /\ file'.copy = c
  BY <1>4, FileFields DEF FileType
<1>7. DatabaseFits(keyDb') /\ K!Stored(keyDb') \subseteq file.ring.keys \cup gone
  BY <1>2 DEF KeysInv, RingsFit
<1>8. LocksHold'
  BY <1>1, <1>2, <1>3, <1>4, <1>5, <1>6 DEF KeysInv, LocksHold, K!AllDown
<1>9. RingsFit' /\ RestoreFits'
  BY <1>1, <1>3, <1>5, <1>6, <1>7 DEF KeysInv, RingsFit, RestoreFits
<1> QED BY <1>1, <1>3, <1>5, <1>6, <1>7, <1>8, <1>9, KeysTypes, RestoreMoves

\* A restore is killed, and what it was copying stays as it is then.
LEMMA CrashKeys ==
    ASSUME KeysInv, K!CrashRestore
    PROVE  KeysInv'
<1>1. /\ UNCHANGED <<keyDb, partial, gone>> /\ restore' = [step |-> "idle", installed |-> {}]
      /\ UNCHANGED <<process, command, config, archive, dump, made, losses>>
  BY DEF K!CrashRestore, K!Rest
<1>2. PICK c \in {"none", "empty", "part"} :
         /\ file' = [file EXCEPT !.copy = c]
         /\ c # "none" => ~keyDb.exists
  <2>1. PICK c \in K!Remains : file' = [file EXCEPT !.copy = c]
    BY DEF K!CrashRestore
  <2>2. CASE restore.step \in {"copy", "db"}
    <3>1. ~keyDb.exists /\ c \in {"none", "empty", "part"}
      BY <2>1, <2>2 DEF K!Remains, KeysInv, LocksHold
    <3> QED BY <2>1, <3>1
  <2>3. CASE restore.step \notin {"copy", "db"}
    <3>1. c = file.copy
      BY <2>1, <2>3 DEF K!Remains
    <3>2. c # "none" => ~keyDb.exists
      BY <3>1 DEF KeysInv, LocksHold
    <3> QED BY <2>1, <3>1, <3>2, FileFields
  <2> QED BY <2>2, <2>3
<1>3. restore' \in RestoreType /\ restore'.step = "idle" /\ restore'.installed = {}
  BY <1>1 DEF RestoreType
<1>4. /\ file' \in FileType /\ file'.ring = file.ring /\ file'.signing = file.signing
      /\ file'.marker = file.marker /\ file'.copy = c
  BY <1>2, FileFields DEF FileType
<1>5. LocksHold'
  BY <1>1, <1>2, <1>3, <1>4 DEF KeysInv, LocksHold, K!AllDown
<1>6. RingsFit' /\ RestoreFits'
  BY <1>1, <1>3, <1>4 DEF KeysInv, RingsFit, RestoreFits
<1> QED BY <1>1, <1>3, <1>4, <1>5, <1>6, KeysTypes, RestoreMoves DEF KeysInv

\* One target is installed.
LEMMA InstallStep ==
    ASSUME KeysInv, NEW target \in {"artifacts", "signing", "ring"},
           NEW next \in {"signing", "ring", "db"}, K!Install(target, next),
           file' \in FileType, file'.marker = file.marker, file'.copy = file.copy,
           gone' \subseteq K!Generation, RingsFit',
           "signing" \in restore.installed \/ target = "signing" =>
              file'.signing[config] = archive.signing,
           "ring" \in restore.installed \/ target = "ring" => file'.ring = archive.ring
    PROVE  KeysInv'
<1>1. /\ partial' = TRUE /\ UNCHANGED keyDb
      /\ UNCHANGED <<process, command, config, archive, dump, made, losses>>
      /\ restore.step = target
      /\ restore' = [step |-> next, installed |-> restore.installed \cup {target}]
  BY DEF K!Install, K!Rest
<1>2. /\ K!AllDown /\ file.marker /\ command.step = "idle" /\ archive.exists
      /\ file.copy = "none" /\ ~keyDb.exists
  BY <1>1 DEF KeysInv, LocksHold, RestoreFits
<1>3. /\ restore' \in RestoreType /\ restore'.step = next
      /\ restore'.installed = restore.installed \cup {target}
  BY <1>1, KeysTypes DEF RestoreType, K!Target
<1>4. LocksHold'
  BY <1>1, <1>2, <1>3 DEF LocksHold, K!AllDown
<1>5. RestoreFits'
  BY <1>1, <1>2, <1>3 DEF KeysInv, RestoreFits
<1>6. DatabaseFits(keyDb') /\ partial' \in BOOLEAN
  BY <1>1 DEF KeysInv
<1> QED BY <1>1, <1>2, <1>3, <1>4, <1>5, <1>6, RestoreMoves

LEMMA InstallKeys ==
    ASSUME KeysInv, K!InstallArtifacts \/ K!InstallSigning \/ K!InstallRing
    PROVE  KeysInv'
<1>1. /\ UNCHANGED keyDb /\ UNCHANGED <<process, command, config, archive, dump, made, losses>>
      /\ restore.step \in {"artifacts", "signing", "ring"}
  BY DEF K!InstallArtifacts, K!InstallSigning, K!InstallRing, K!Install, K!Rest
<1>2. /\ archive.ring \in K!Keyring /\ config \in KeyId /\ gone \subseteq K!Generation
      /\ archive.signing \in K!Material \cup {K!Absent, K!Torn}
      /\ archive.exists /\ archive.ring.exists /\ command.step = "idle"
      /\ "signing" \in restore.installed => file.signing[config] = archive.signing
      /\ "ring" \in restore.installed => file.ring = archive.ring
  BY <1>1, KeysTypes DEF K!Archive, KeysInv, LocksHold, RestoreFits
<1>3. CASE K!InstallArtifacts
  <2>1. file' = [file EXCEPT !.artifacts = TRUE] /\ UNCHANGED gone
        /\ K!Install("artifacts", "signing")
    BY <1>3 DEF K!InstallArtifacts
  <2>2. /\ file' \in FileType /\ file'.ring = file.ring /\ file'.signing = file.signing
        /\ file'.marker = file.marker /\ file'.copy = file.copy
    BY <2>1, FileFields DEF FileType
  <2>3. RingsFit'
    BY <1>1, <2>1, <2>2 DEF KeysInv, RingsFit
  <2> QED BY <1>2, <2>1, <2>2, <2>3, InstallStep
<1>4. CASE K!InstallSigning
  <2>1. file' = [file EXCEPT !.signing[config] = archive.signing] /\ UNCHANGED gone
        /\ K!Install("signing", "ring")
    BY <1>4 DEF K!InstallSigning
  <2>f. WithKey(config, archive.signing)
    BY <2>1 DEF WithKey
  <2>2. /\ file' \in FileType /\ file'.ring = file.ring /\ file'.marker = file.marker
        /\ file'.copy = file.copy /\ file'.signing[config] = archive.signing
    BY <1>2, <2>f, KeyFile
  <2>3. RingsFit'
    BY <1>1, <2>1, <2>2 DEF KeysInv, RingsFit
  <2> QED BY <1>2, <2>1, <2>2, <2>3, InstallStep
<1>5. CASE K!InstallRing
  <2>1. /\ file' = [file EXCEPT !.ring = archive.ring] /\ gone' = gone \ archive.ring.keys
        /\ ~file.ring.exists /\ K!Install("ring", "db")
    BY <1>5 DEF K!InstallRing
  <2>f. file \in FileType /\ archive.ring \in K!Keyring
    BY <1>2, FileFields
  <2>g. file' = [file EXCEPT !.ring = archive.ring]
    BY <2>1
  <2>2. /\ file' \in FileType /\ file'.ring = archive.ring /\ file'.marker = file.marker
        /\ file'.copy = file.copy /\ file'.signing = file.signing
    BY ONLY <2>f, <2>g, RingFile
  <2>3. file.ring.keys \cup gone \subseteq file'.ring.keys \cup gone'
    BY <2>1, <2>2, FileFields
  <2>4. RingsFit'
    BY <1>1, <1>2, <2>2, <2>3 DEF KeysInv, RingsFit
  <2> QED BY <1>2, <2>1, <2>2, <2>4, InstallStep
<1> QED BY <1>3, <1>4, <1>5

LEMMA InstallDatabaseKeys ==
    ASSUME KeysInv, K!InstallDatabase
    PROVE  KeysInv'
<1>1. /\ restore.step = "db" /\ ~keyDb.exists /\ keyDb' = archive.db /\ partial' = FALSE
      /\ restore' = [restore EXCEPT !.step = "unmark"]
      /\ UNCHANGED <<file, gone>>
      /\ UNCHANGED <<process, command, config, archive, dump, made, losses>>
  BY DEF K!InstallDatabase, K!Rest
<1>2. /\ restore' \in RestoreType /\ restore'.step = "unmark"
      /\ restore'.installed = restore.installed
  BY <1>1, KeysTypes DEF RestoreType
<1>3. /\ K!AllDown /\ file.marker /\ command.step = "idle" /\ DatabaseFits(archive.db)
      /\ archive.exists /\ file.copy = "none"
  BY <1>1 DEF KeysInv, LocksHold, RestoreFits
<1>4. LocksHold'
  BY <1>1, <1>2, <1>3 DEF LocksHold, K!AllDown
<1>5. RingsFit'
  BY <1>1, <1>3 DEF KeysInv, RingsFit
<1>6. RestoreFits'
  BY <1>1, <1>2, <1>3 DEF KeysInv, RestoreFits
<1> QED BY <1>1, <1>2, <1>3, <1>4, <1>5, <1>6, KeysTypes, RestoreMoves

LEMMA UndoKeys ==
    ASSUME KeysInv, K!UndoRestore
    PROVE  KeysInv'
<1>1. /\ restore.step \in {"artifacts", "signing", "ring", "db"} /\ partial' = FALSE
      /\ restore' = [step |-> "idle", installed |-> {}] /\ UNCHANGED keyDb
      /\ UNCHANGED <<process, command, config, archive, dump, made, losses>>
      /\ file'.ring = IF "ring" \in restore.installed THEN K!NoRing ELSE file.ring
      /\ ~file'.marker /\ file'.copy = file.copy
      /\ gone' = IF "ring" \in restore.installed THEN gone \cup file.ring.keys ELSE gone
  BY DEF K!UndoRestore, K!Rest, K!Target, K!Removed
<1>2. file' \in FileType
  <2> DEFINE s == IF "signing" \in restore.installed
                  THEN [file.signing EXCEPT ![config] = K!Absent] ELSE file.signing
             r == IF "ring" \in restore.installed THEN K!NoRing ELSE file.ring
             x == file.artifacts /\ "artifacts" \notin restore.installed
  <2>1. file' = [artifacts |-> x, signing |-> s, ring |-> r, marker |-> FALSE,
                 copy |-> file.copy]
    BY DEF K!UndoRestore, K!Removed
  <2>2. /\ s \in [KeyId -> K!Material \cup {K!Absent, K!Torn}] /\ r \in K!Keyring
        /\ x \in BOOLEAN /\ file.copy \in {"none", "empty", "part"}
    BY FileFields, KeysTypes DEF K!NoRing, K!Keyring
  <2> HIDE DEF s, r, x
  <2> QED BY <2>1, <2>2 DEF FileType
<1>3. restore' \in RestoreType /\ restore'.step = "idle" /\ restore'.installed = {}
  BY <1>1 DEF RestoreType
<1>4. K!AllDown /\ command.step = "idle" /\ file.copy = "none"
  BY <1>1 DEF KeysInv, LocksHold
<1>5. /\ file.ring.keys \cup gone \subseteq file'.ring.keys \cup gone'
      /\ ~file'.ring.exists => file'.ring.keys = {}
      /\ gone' \subseteq K!Generation
  BY <1>1, FileFields, KeysTypes DEF K!NoRing
<1>6. LocksHold'
  BY <1>1, <1>3, <1>4 DEF LocksHold, K!AllDown
<1>7. RingsFit'
  BY <1>1, <1>4, <1>5 DEF KeysInv, RingsFit
<1>8. RestoreFits'
  BY <1>1, <1>3 DEF KeysInv, RestoreFits
<1> QED BY <1>1, <1>2, <1>3, <1>4, <1>5, <1>6, <1>7, <1>8, RestoreMoves DEF KeysInv

LEMMA LossKeys ==
    ASSUME KeysInv, K!LoseRing \/ (\E k \in KeyId : K!LoseKey(k)) \/ K!LoseDatabase \/ K!NewTarget
    PROVE  KeysInv'
<1>1. /\ losses' \in 0..MaxLosses /\ command.step = "idle"
      /\ restore.step \in {"idle", "checked", "copy"} /\ restore.installed = {}
      /\ UNCHANGED <<process, command, restore, config, archive, dump, made>>
  <2>1. /\ losses < MaxLosses /\ losses' = losses + 1 /\ command.step = "idle"
        /\ restore.step \in {"idle", "checked", "copy"}
        /\ UNCHANGED <<process, command, restore, config, archive, dump, made>>
    BY DEF K!LoseRing, K!LoseKey, K!LoseDatabase, K!NewTarget, K!Lose, K!Locked
  <2> QED BY <2>1, KeysTypes, KeysLimits DEF KeysInv, RestoreFits
<1>2. /\ DatabaseFits(keyDb) /\ DatabaseFits(dump') /\ DatabaseFits(archive'.db)
      /\ gone \subseteq K!Generation
  BY <1>1, KeysTypes DEF KeysInv
<1>3. RestoreFits'
  BY <1>1 DEF KeysInv, RestoreFits
<1>4. CASE K!LoseRing
  <2>1. /\ file' = [file EXCEPT !.ring = K!NoRing] /\ gone' = gone \cup file.ring.keys
        /\ UNCHANGED <<keyDb, partial>>
    BY <1>4 DEF K!LoseRing
  <2>2. K!NoRing \in K!Keyring /\ K!NoRing.keys = {} /\ ~K!NoRing.exists
    BY DEF K!NoRing, K!Keyring
  <2>3. /\ file' \in FileType /\ file'.ring = K!NoRing /\ file'.marker = file.marker
        /\ file'.copy = file.copy
    BY <2>1, <2>2, FileFields, RingFile
  <2>4. LocksHold'
    BY <1>1, <2>1, <2>3 DEF KeysInv, LocksHold, K!AllDown
  <2>5. RingsFit'
    BY <1>1, <2>1, <2>2, <2>3 DEF KeysInv, RingsFit
  <2>6. gone' \subseteq K!Generation
    BY <1>2, <2>1, FileFields
  <2> QED BY <1>1, <1>2, <1>3, <2>1, <2>3, <2>4, <2>5, <2>6, KeysTypes, QuietStep
<1>5. ASSUME NEW k \in KeyId, K!LoseKey(k)
      PROVE  KeysInv'
  <2>1. file' = [file EXCEPT !.signing[k] = K!Absent] /\ UNCHANGED <<keyDb, partial, gone>>
    BY <1>5 DEF K!LoseKey
  <2>2. /\ file' \in FileType /\ file'.ring = file.ring /\ file'.marker = file.marker
        /\ file'.copy = file.copy
    <3>1. WithKey(k, K!Absent)
      BY <2>1 DEF WithKey
    <3> QED BY <3>1, KeyFile
  <2>3. LocksHold'
    BY <1>1, <2>1, <2>2 DEF KeysInv, LocksHold, K!AllDown
  <2>4. RingsFit'
    BY <1>1, <2>1, <2>2 DEF KeysInv, RingsFit
  <2> QED BY <1>1, <1>2, <1>3, <2>1, <2>2, <2>3, <2>4, KeysTypes, QuietStep
<1>6. CASE K!LoseDatabase
  <2>1. keyDb' = K!NoDatabase /\ K!AllDown /\ UNCHANGED <<file, partial, gone>>
    BY <1>6 DEF K!LoseDatabase
  <2>2. LocksHold'
    BY <1>1, <2>1, EmptyDatabase DEF KeysInv, LocksHold, K!AllDown
  <2>3. RingsFit'
    BY <1>1, <2>1, EmptyDatabase DEF KeysInv, RingsFit
  <2> QED BY <1>1, <1>2, <1>3, <2>1, <2>2, <2>3, EmptyDatabase, KeysTypes, QuietStep
<1>7. CASE K!NewTarget
  <2>1. /\ file' = [artifacts |-> FALSE, signing |-> [k \in KeyId |-> K!Absent],
                    ring |-> K!NoRing, marker |-> FALSE, copy |-> "none"]
        /\ restore.step # "copy" /\ keyDb' = K!NoDatabase /\ K!AllDown /\ partial' = FALSE
        /\ gone' = gone \cup file.ring.keys
    BY <1>7 DEF K!NewTarget
  <2>2. /\ file' \in FileType /\ ~file'.marker /\ file'.ring = K!NoRing
        /\ file'.copy = "none"
        /\ K!NoRing.keys = {} /\ ~K!NoRing.exists
    BY <2>1 DEF FileType, K!NoRing, K!Keyring
  <2>3. LocksHold'
    BY <1>1, <2>1, <2>2 DEF LocksHold, K!AllDown
  <2>4. RingsFit'
    BY <1>1, <2>1, <2>2, EmptyDatabase DEF KeysInv, RingsFit
  <2>5. gone' \subseteq K!Generation
    BY <1>2, <2>1, FileFields
  <2> QED BY <1>1, <1>2, <1>3, <2>1, <2>2, <2>3, <2>4, <2>5, EmptyDatabase, KeysTypes, QuietStep
<1> QED BY <1>4, <1>5, <1>6, <1>7

LEMMA NextKeys ==
    ASSUME KeysInv, [K!Next]_keyVars
    PROVE  KeysInv'
<1>1. CASE UNCHANGED keyVars
  <2>1. UNCHANGED <<process, command, restore, config, file, keyDb, archive, dump, made, partial,
                    gone, losses>>
    BY <1>1 DEF keyVars
  <2>2. LocksHold' /\ RingsFit' /\ RestoreFits'
    BY <2>1 DEF KeysInv, LocksHold, RingsFit, RestoreFits, K!AllDown
  <2> QED BY <2>1, <2>2, KeysTypes, QuietStep DEF KeysInv
<1>2. CASE K!Next
  BY <1>2, StartKeys, StopKeys, SecretKeys, TearKeys, PublishKeys, RunKeys, InitializeKeys,
     RingKeys, SigningKeys, RotateKeys, StatusKeys, EndKeys, BackupKeys, LockRestoreKeys,
     InstallKeys, InstallDatabaseKeys, UndoKeys, CopyKeys, CrashKeys, LossKeys DEF K!Next
<1> QED BY <1>1, <1>2

LEMMA InitKeys == K!Init => KeysInv
<1> SUFFICES ASSUME K!Init PROVE KeysInv
  OBVIOUS
<1>1. /\ process = [p \in Service |-> "down"]
      /\ command = [step |-> "idle", key |-> FirstKey, count |-> 0]
      /\ restore = [step |-> "idle", installed |-> {}]
      /\ config = FirstKey
      /\ file = [artifacts |-> FALSE, signing |-> [k \in KeyId |-> K!Absent],
                 ring |-> K!NoRing, marker |-> FALSE, copy |-> "none"]
      /\ keyDb = K!NoDatabase /\ archive = K!NoArchive /\ dump = K!NoDatabase
      /\ made = [pairs |-> 0, keys |-> 0] /\ partial = FALSE /\ gone = {} /\ losses = 0
  BY DEF K!Init
<1>2. /\ K!NoRing \in K!Keyring /\ K!NoRing.keys = {} /\ ~K!NoRing.exists
  BY DEF K!NoRing, K!Keyring
<1>3. /\ archive.db = K!NoDatabase /\ archive.ring = K!NoRing /\ ~archive.exists
      /\ archive \in K!Archive
  BY <1>1, <1>2, EmptyDatabase, KeysLimits DEF K!NoArchive, K!Archive, DatabaseFits
<1>4. K!TypeOK
  <2>1. /\ keyDb \in K!Database /\ dump \in K!Database /\ archive \in K!Archive
    BY <1>1, <1>3, EmptyDatabase DEF DatabaseFits
  <2>2. command \in CommandType /\ restore \in RestoreType /\ config \in KeyId
    BY <1>1, KeysLimits DEF CommandType, RestoreType
  <2>3. file \in FileType
    BY <1>1, <1>2 DEF FileType
  <2>4. process \in [Service -> AtOf] /\ partial \in BOOLEAN /\ gone \in SUBSET K!Generation
    BY <1>1 DEF AtOf
  <2>5. made \in MadeType /\ losses \in 0..MaxLosses
    BY <1>1, KeysLimits DEF MadeType
  <2> QED BY <2>1, <2>2, <2>3, <2>4, <2>5
          DEF K!TypeOK, CommandType, RestoreType, FileType, MadeType, AtOf
<1>5. DatabaseFits(keyDb) /\ DatabaseFits(dump) /\ DatabaseFits(archive.db)
  BY <1>1, <1>3, EmptyDatabase
<1>6. LocksHold /\ RestoreFits /\ WorkFits
  BY <1>1, <1>3 DEF LocksHold, RestoreFits, WorkFits, K!AllDown
<1>7. RingsFit
  BY <1>1, <1>2, <1>3, EmptyDatabase DEF RingsFit
<1> QED BY <1>4, <1>5, <1>6, <1>7 DEF KeysInv

LEMMA InstanceOfInv == KeysInv => K!SecretsReadable /\ K!WholeInstance
BY DEF KeysInv, RingsFit, LocksHold, K!SecretsReadable, K!WholeInstance

-----------------------------------------------------------------------------
(* What a step does to the keys *)

\* The action of NeverReplaced.
KeysStay ==
    losses' = losses =>
      /\ \A k \in KeyId :
           /\ /\ file.signing[k] \in K!Material \ {archive.signing}
              => file'.signing[k] = file.signing[k]
           /\ /\ file.signing[k] = K!Absent
              /\ file'.signing[k] \in K!Material \ {archive.signing}
              => keyDb.trust[k].status = "unknown"
      /\ file.ring.keys # {} /\ file.ring # archive.ring
         => file.ring.keys \subseteq file'.ring.keys
      /\ file.ring.keys = {} /\ file'.ring \notin {file.ring, archive.ring}
         => K!Stored(keyDb) = {}

\* The action of CommittedUnderTrust.
CommitTrusted ==
    keyDb.run.status = "running" /\ keyDb'.run.status = "committed"
      => LET trust == keyDb.trust[keyDb.run.proof.key]
         IN  /\ trust.status = "trusted"
             /\ trust.revision = keyDb.run.proof.revision
             /\ trust.material = keyDb.run.proof.material

\* The signing keys are as they were, and the keyring grew.
LEMMA StaySame ==
    ASSUME file'.signing = file.signing, file.ring.keys \subseteq file'.ring.keys,
           file.ring.keys = {} /\ file'.ring \notin {file.ring, archive.ring} =>
              K!Stored(keyDb) = {}
    PROVE  KeysStay
BY KeysLimits DEF KeysStay

LEMMA StayOne ==
    ASSUME KeysInv, NEW k \in KeyId, NEW m \in K!Material \cup {K!Absent, K!Torn},
           file' = [file EXCEPT !.signing[k] = m],
           file.signing[k] \in K!Material => m = file.signing[k],
           file.signing[k] = K!Absent /\ m \in K!Material \ {archive.signing} =>
              keyDb.trust[k].status = "unknown"
    PROVE  KeysStay
<1>1. /\ file'.ring = file.ring /\ file'.signing[k] = m
      /\ \A j \in KeyId : j # k => file'.signing[j] = file.signing[j]
  <2>1. WithKey(k, m)
    BY DEF WithKey
  <2> QED BY <2>1, KeyFile
<1>2. K!Absent \notin K!Material
  BY KeysLimits
<1> QED BY <1>1, <1>2 DEF KeysStay

LEMMA ProcessKeysStay ==
    ASSUME KeysInv, NEW p \in Service,
           \/ K!Start(p) \/ K!FailStart(p) \/ K!Stop(p) \/ K!RefusePublish(p)
           \/ \E s \in Secret : K!StoreSecret(p, s) \/ K!DropSecret(p, s)
           \/ K!TearRing(p) \/ K!TearKey(p) \/ K!BeginPublish(p) \/ K!Publish(p)
           \/ K!CreateRun(p) \/ K!ExecuteRun(p) \/ K!CommitRun(p)
    PROVE  KeysStay
<1>1. CASE K!Start(p) \/ K!FailStart(p)
  <2>1. \/ file' = [file EXCEPT !.artifacts = TRUE]
        \/ file' = [file EXCEPT !.artifacts = TRUE, !.copy = "none"]
    BY <1>1 DEF K!Start, K!FailStart
  <2>2. file'.signing = file.signing /\ file'.ring = file.ring
    BY <2>1, FileFields DEF FileType
  <2> QED BY <2>2, StaySame
<1>2. CASE UNCHANGED file
  BY <1>2, StaySame
<1>3. ASSUME NEW s \in Secret, K!StoreSecret(p, s)
      PROVE  KeysStay
  <2>1. K!CanStore /\ file' = [file EXCEPT !.ring = K!NewRing]
    BY <1>3 DEF K!StoreSecret
  <2>2. file'.signing = file.signing /\ file'.ring = K!NewRing
    BY <2>1, FileFields DEF FileType
  <2>3. file.ring.exists => K!NewRing = file.ring /\ file.ring.keys # {}
    BY <2>1 DEF K!NewRing, K!CanStore
  <2>4. ~file.ring.exists => file.ring.keys = {} /\ K!Stored(keyDb) = {}
    BY <2>1, FileFields DEF K!CanStore
  <2> QED BY <2>2, <2>3, <2>4, StaySame
<1>4. CASE K!TearRing(p)
  <2>1. K!CanStore /\ ~file.ring.exists /\ file' = [file EXCEPT !.ring.exists = TRUE]
    BY <1>4 DEF K!TearRing
  <2>2. file'.signing = file.signing /\ file.ring.keys = {} /\ K!Stored(keyDb) = {}
    BY <2>1, FileFields DEF FileType, K!CanStore
  <2> QED BY <2>2, StaySame
<1>5. CASE K!TearKey(p)
  <2>1. file.signing[config] = K!Absent /\ file' = [file EXCEPT !.signing[config] = K!Torn]
    BY <1>5 DEF K!TearKey
  <2> QED BY <2>1, KeysTypes, KeysLimits, StayOne
<1>6. CASE K!BeginPublish(p) \/ K!Publish(p)
  <2> DEFINE m == K!LoadedKey(config)
  <2>1. file' = [file EXCEPT !.signing[config] = m] /\ config \in KeyId
    BY <1>6, KeysTypes DEF K!BeginPublish, K!Publish
  <2>2. m \in K!Material /\ (file.signing[config] \in K!Material => m = file.signing[config])
    BY <1>6, LoadedFacts DEF K!BeginPublish, K!Publish
  <2>3. file.signing[config] = K!Absent => keyDb.trust[config].status = "unknown"
    <3>1. CASE K!BeginPublish(p)
      <4>1. K!IdentityHolds(config)
        BY <3>1 DEF K!BeginPublish
      <4>2. keyDb.trust[config].status # "unknown" => keyDb.trust[config].material \in K!Material
        BY <2>1 DEF KeysInv, DatabaseFits
      <4> QED BY <4>1, <4>2, KeysLimits DEF K!IdentityHolds
    <3>2. CASE K!Publish(p)
      <4>1. file.signing[config] \in K!Material
        BY <3>2, LoadedFacts DEF K!Publish
      <4> QED BY <4>1, KeysLimits
    <3> QED BY <1>6, <3>1, <3>2
  <2> HIDE DEF m
  <2> QED BY <2>1, <2>2, <2>3, StayOne
<1> QED BY <1>1, <1>2, <1>3, <1>4, <1>5, <1>6
        DEF K!Stop, K!RefusePublish, K!DropSecret, K!CreateRun, K!ExecuteRun, K!CommitRun

LEMMA CommandKeysStay ==
    ASSUME KeysInv,
           \/ K!BeginInitialize \/ K!CreateRing \/ K!WriteRing
           \/ K!CreateKey \/ K!WriteKey \/ K!RegisterKey
           \/ K!BeginRotate \/ K!Reencrypt \/ K!EndCommand
           \/ K!BackupFull \/ K!BackupDatabase
           \/ \E k \in KeyId : \/ K!BeginCreateSigning(k) \/ K!Reconfigure(k)
                               \/ \E st \in {"retired", "compromised"} : K!SetStatus(k, st)
    PROVE  KeysStay
<1>1. CASE UNCHANGED file
  BY <1>1, StaySame
<1>2. CASE K!CreateRing
  <2>1. command.step = "ring" /\ file' = [file EXCEPT !.ring.exists = TRUE]
    BY <1>2 DEF K!CreateRing
  <2>2. file'.signing = file.signing /\ file'.ring.keys = file.ring.keys
    BY <2>1, FileFields DEF FileType, K!Keyring
  <2>3. K!Stored(keyDb) \subseteq file.ring.keys
    BY <2>1 DEF KeysInv, RingsFit
  <2> QED BY <2>2, <2>3, StaySame
<1>3. CASE K!WriteRing
  <2>1. command.step = "ringWrite" /\ file' = [file EXCEPT !.ring.keys = {made.keys + 1}]
    BY <1>3 DEF K!WriteRing
  <2>2. file'.signing = file.signing /\ file.ring.keys = {} /\ K!Stored(keyDb) \subseteq file.ring.keys
    BY <2>1, FileFields DEF FileType, KeysInv, RingsFit
  <2> QED BY <2>2, StaySame
<1>4. CASE K!CreateKey
  <2>1. PICK k \in KeyId : k = command.key
    BY KeysTypes DEF CommandType
  <2>2. \/ file.signing[k] = K!Absent /\ file' = [file EXCEPT !.signing[k] = K!Torn]
        \/ UNCHANGED file
    BY <1>4, <2>1 DEF K!CreateKey
  <2> QED BY <1>1, <2>2, KeysLimits, StayOne
<1>5. CASE K!WriteKey
  <2>1. PICK k \in KeyId : k = command.key
    BY KeysTypes DEF CommandType
  <2>2. PICK m : m = made.pairs + 1
    OBVIOUS
  <2>3. /\ file.signing[k] = K!Torn /\ made.pairs < MaxMaterial
        /\ file' = [file EXCEPT !.signing[k] = m]
    BY <1>5, <2>1, <2>2 DEF K!WriteKey
  <2>4. m \in K!Material /\ K!Torn \notin K!Material /\ K!Torn # K!Absent
    BY <2>2, <2>3, KeysTypes, KeysLimits DEF MadeType
  <2> QED BY <2>3, <2>4, StayOne
<1>6. CASE K!BeginRotate
  <2>1. /\ file' = [file EXCEPT !.ring = K!Rotated(file.ring, made.keys + 1)]
        /\ file.ring.keys # {}
    BY <1>6 DEF K!BeginRotate, K!KeysValid, K!CanStore
  <2>2. file'.signing = file.signing /\ file.ring.keys \subseteq file'.ring.keys
    BY <2>1, FileFields DEF FileType, K!Keyring, K!Rotated
  <2> QED BY <2>1, <2>2, StaySame
<1>7. CASE K!BeginInitialize
  <2>1. file' = [file EXCEPT !.copy = "none"]
    BY <1>7 DEF K!BeginInitialize
  <2>2. file'.signing = file.signing /\ file'.ring = file.ring
    BY <2>1, FileFields DEF FileType
  <2> QED BY <2>2, StaySame
<1> QED BY <1>1, <1>2, <1>3, <1>4, <1>5, <1>6, <1>7
        DEF K!RegisterKey, K!Reencrypt, K!EndCommand, K!BackupFull,
            K!BackupDatabase, K!BeginCreateSigning, K!Reconfigure, K!SetStatus

LEMMA RestoreKeysStay ==
    ASSUME KeysInv,
           \/ K!BeginRestore \/ K!LockRestore \/ K!RefuseRestore
           \/ K!InstallArtifacts \/ K!InstallSigning \/ K!InstallRing \/ K!InstallDatabase
           \/ K!EndRestore \/ K!UndoRestore \/ K!CrashRestore
           \/ K!BeginCopy \/ K!EndCopy \/ K!UndoCopy
    PROVE  KeysStay
<1>1. CASE UNCHANGED file
  BY <1>1, StaySame
<1>2. CASE K!LockRestore \/ K!EndRestore \/ K!InstallArtifacts
  <2>1. \/ file' = [file EXCEPT !.marker = TRUE] \/ file' = [file EXCEPT !.marker = FALSE]
        \/ file' = [file EXCEPT !.artifacts = TRUE]
    BY <1>2 DEF K!LockRestore, K!EndRestore, K!InstallArtifacts
  <2>2. file'.signing = file.signing /\ file'.ring = file.ring
    <3>1. CASE file' = [file EXCEPT !.marker = TRUE]
      BY <3>1, FileFields DEF FileType
    <3>2. CASE file' = [file EXCEPT !.marker = FALSE]
      BY <3>2, FileFields DEF FileType
    <3>3. CASE file' = [file EXCEPT !.artifacts = TRUE]
      BY <3>3, FileFields DEF FileType
    <3> QED BY <2>1, <3>1, <3>2, <3>3
  <2> QED BY <2>2, StaySame
<1>3. CASE K!InstallSigning
  <2>1. /\ file.signing[config] = K!Absent
        /\ file' = [file EXCEPT !.signing[config] = archive.signing]
    BY <1>3 DEF K!InstallSigning
  <2>2. archive.signing \in K!Material \cup {K!Absent, K!Torn} /\ config \in KeyId
    BY KeysTypes DEF K!Archive
  <2> QED BY <2>1, <2>2, KeysLimits, StayOne
<1>4. CASE K!InstallRing
  <2>1. ~file.ring.exists /\ file' = [file EXCEPT !.ring = archive.ring]
    BY <1>4 DEF K!InstallRing
  <2>2. file'.signing = file.signing /\ file'.ring = archive.ring /\ file.ring.keys = {}
    BY <2>1, FileFields DEF FileType
  <2> QED BY <2>2, StaySame
<1>5. CASE K!UndoRestore
  <2>1. /\ restore.step # "idle"
        /\ file'.signing = IF "signing" \in restore.installed
                           THEN [file.signing EXCEPT ![config] = K!Absent] ELSE file.signing
        /\ file'.ring = IF "ring" \in restore.installed THEN K!NoRing ELSE file.ring
    BY <1>5 DEF K!UndoRestore, K!Removed, K!Target
  <2>2. /\ "signing" \in restore.installed => file.signing[config] = archive.signing
        /\ "ring" \in restore.installed => file.ring = archive.ring /\ file.ring.keys # {}
    BY <2>1 DEF KeysInv, RestoreFits
  <2>3. ASSUME NEW k \in KeyId
        PROVE  /\ file.signing[k] \in K!Material \ {archive.signing} =>
                     file'.signing[k] = file.signing[k]
               /\ file.signing[k] = K!Absent => file'.signing[k] = K!Absent
    BY <2>1, <2>2, FileFields
  <2>4. K!Absent \notin K!Material
    BY KeysLimits
  <2> QED BY <2>1, <2>2, <2>3, <2>4 DEF KeysStay
<1>6. CASE K!BeginCopy \/ K!EndCopy \/ K!UndoCopy \/ K!CrashRestore
  <2>1. PICK c : file' = [file EXCEPT !.copy = c]
    BY <1>6 DEF K!BeginCopy, K!EndCopy, K!UndoCopy, K!CrashRestore
  <2>2. file'.signing = file.signing /\ file'.ring = file.ring
    BY <2>1, FileFields DEF FileType
  <2> QED BY <2>2, StaySame
<1> QED BY <1>1, <1>2, <1>3, <1>4, <1>5, <1>6
        DEF K!BeginRestore, K!RefuseRestore, K!InstallDatabase

LEMMA LossKeysStay ==
    ASSUME KeysInv, K!LoseRing \/ (\E k \in KeyId : K!LoseKey(k)) \/ K!LoseDatabase \/ K!NewTarget
    PROVE  KeysStay
<1>1. losses' = losses + 1 /\ losses \in Nat
  BY KeysTypes, KeysLimits DEF K!LoseRing, K!LoseKey, K!LoseDatabase, K!NewTarget, K!Lose
<1> QED BY <1>1 DEF KeysStay

LEMMA NextKeysStay == KeysInv /\ K!Next => KeysStay
<1> SUFFICES ASSUME KeysInv, K!Next PROVE KeysStay
  OBVIOUS
<1> QED BY ProcessKeysStay, CommandKeysStay, RestoreKeysStay, LossKeysStay DEF K!Next

LEMMA NextCommitTrusted == KeysInv /\ K!Next => CommitTrusted
<1> SUFFICES ASSUME KeysInv, K!Next, keyDb.run.status = "running",
                    keyDb'.run.status = "committed"
             PROVE  LET trust == keyDb.trust[keyDb.run.proof.key]
                    IN  /\ trust.status = "trusted"
                        /\ trust.revision = keyDb.run.proof.revision
                        /\ trust.material = keyDb.run.proof.material
  BY DEF CommitTrusted
<1>1. DatabaseFits(keyDb) /\ keyDb.exists
  BY EmptyDatabase DEF KeysInv, DatabaseFits
<1>2. PICK p \in Service : K!CommitRun(p)
  <2>1. keyDb' # keyDb
    OBVIOUS
  <2>2. keyDb' # K!NoDatabase
    BY EmptyDatabase
  <2>3. ASSUME keyDb' = K!Initialized(keyDb)
        PROVE  FALSE
    BY <1>1, <2>3, InitializedDatabase
  <2>4. ASSUME NEW k, NEW m, keyDb' = K!Registered(keyDb, k, m)
        PROVE  FALSE
    <3>1. keyDb \in K!Database
      BY <1>1 DEF DatabaseFits
    <3> QED BY <2>4, <3>1 DEF K!Registered, K!Database
  <2>5. keyDb \in K!Database
    BY <1>1 DEF DatabaseFits
  <2>6. ASSUME NEW q \in Service, NEW s \in Secret, K!StoreSecret(q, s) \/ K!DropSecret(q, s)
        PROVE  FALSE
    <3>1. PICK g : keyDb' = [keyDb EXCEPT !.secret[s] = g]
      BY <2>6 DEF K!StoreSecret, K!DropSecret
    <3> QED BY <2>5, <3>1 DEF K!Database
  <2>7. ASSUME NEW q \in Service, K!Publish(q)
        PROVE  FALSE
    <3>1. PICK r : keyDb' = [keyDb EXCEPT !.rule = r]
      BY <2>7 DEF K!Publish
    <3> QED BY <2>5, <3>1 DEF K!Database
  <2>8. ASSUME NEW q \in Service, K!CreateRun(q) \/ K!ExecuteRun(q)
        PROVE  FALSE
    <3>1. CASE K!CreateRun(q)
      BY <3>1 DEF K!CreateRun
    <3>2. CASE K!ExecuteRun(q)
      <4>1. keyDb.run \in RunType
        BY <2>5, DatabaseFields
      <4>2. keyDb' = [keyDb EXCEPT !.run.status = IF K!StillVerified THEN "running" ELSE "failed"]
        BY <3>2 DEF K!ExecuteRun
      <4>3. keyDb'.run.status = IF K!StillVerified THEN "running" ELSE "failed"
        BY <2>5, <4>1, <4>2 DEF K!Database, RunType
      <4> QED BY <4>3
    <3> QED BY <2>8, <3>1, <3>2
  <2>9. ASSUME NEW k \in KeyId, NEW st, K!SetStatus(k, st)
        PROVE  FALSE
    BY <2>5, <2>9 DEF K!SetStatus, K!Database
  <2>10. ASSUME K!Reencrypt
         PROVE  FALSE
    BY <2>5, <2>10 DEF K!Reencrypt, K!Database
  <2>11. ASSUME NEW q \in Service,
                K!Start(q) \/ K!FailStart(q) \/ K!Stop(q) \/ K!TearRing(q) \/ K!TearKey(q)
                \/ K!BeginPublish(q) \/ K!RefusePublish(q)
         PROVE  FALSE
    BY <2>1, <2>3, <2>4, <2>11
       DEF K!Start, K!FailStart, K!Stop, K!TearRing, K!TearKey, K!BeginPublish, K!RefusePublish
  <2>12. ASSUME K!BeginInitialize \/ K!CreateRing \/ K!WriteRing \/ K!CreateKey \/ K!WriteKey
                \/ K!RegisterKey \/ K!BeginRotate \/ K!EndCommand
         PROVE  FALSE
    BY <2>1, <2>3, <2>4, <2>12
       DEF K!BeginInitialize, K!CreateRing, K!WriteRing, K!CreateKey, K!WriteKey, K!RegisterKey,
           K!BeginRotate, K!EndCommand
  <2>13. ASSUME NEW k \in KeyId, K!BeginCreateSigning(k) \/ K!Reconfigure(k) \/ K!LoseKey(k)
         PROVE  FALSE
    BY <2>1, <2>13 DEF K!BeginCreateSigning, K!Reconfigure, K!LoseKey
  <2>14. ASSUME K!BackupFull \/ K!BackupDatabase \/ K!BeginCopy \/ K!UndoCopy \/ K!BeginRestore
                \/ K!LockRestore \/ K!RefuseRestore \/ K!InstallArtifacts \/ K!InstallSigning
                \/ K!InstallRing \/ K!InstallDatabase \/ K!EndRestore \/ K!UndoRestore
                \/ K!CrashRestore
         PROVE  FALSE
    BY <1>1, <2>1, <2>14
       DEF K!BackupFull, K!BackupDatabase, K!BeginCopy, K!UndoCopy, K!BeginRestore, K!LockRestore,
           K!RefuseRestore, K!InstallArtifacts, K!InstallSigning, K!InstallRing, K!Install,
           K!InstallDatabase, K!EndRestore, K!UndoRestore, K!CrashRestore
  <2>15. ASSUME K!LoseRing \/ K!LoseDatabase \/ K!NewTarget
         PROVE  FALSE
    BY <2>1, <2>2, <2>15 DEF K!LoseRing, K!LoseDatabase, K!NewTarget
  <2>16. ~K!EndCopy
    BY <1>1 DEF K!EndCopy, KeysInv, LocksHold
  <2> QED BY <2>6, <2>7, <2>8, <2>9, <2>10, <2>11, <2>12, <2>13, <2>14, <2>15, <2>16 DEF K!Next
<1>3. process[p] = "working"
  BY <1>2 DEF K!CommitRun
<1> QED BY <1>3 DEF KeysInv, WorkFits, K!StillVerified, K!Verified

-----------------------------------------------------------------------------
(* Upgrade *)

Ops == 1..MaxOp

\* The owner the migration gives a row is told by the earlier release alone: that of
\* a run, of an AI run, of what operation i made, of operation i.
RunOwner    == IF legacy.bound THEN "rule" ELSE None
AiOwner(i)  == IF legacy.bound /\ U!AiRun(i).review = "published" THEN "rule"
               ELSE IF legacy.moved THEN None ELSE "source"
MadeOwner(i) == IF i \in U!Explores THEN AiOwner(i) ELSE RunOwner
OpOwner(i)  == IF MadeOwner(i) # None THEN MadeOwner(i)
               ELSE IF legacy.moved THEN None ELSE "source"

\* A script ran at most once.  Who runs scripts holds the lock and knows what is
\* missing; who went on found all of them.
ScriptsFit ==
    /\ \A s \in 1..MaxScript : db.ran[s] \in {0, 1}
    /\ \A p \in Process :
          /\ proc[p].at \notin {"down", "waiting", "up"} => gate = p
          /\ proc[p].at = "schema" => proc[p].todo = {s \in 1..MaxScript : db.ran[s] = 0}
          /\ proc[p].at \notin {"down", "waiting", "schema"} =>
                \A s \in 1..MaxScript : db.ran[s] = 1

\* Row i is what the earlier release left or what the migration makes of it, and
\* owned with what it made.
RowFits(i) ==
    /\ db.ai_run[i] \in {None, U!AiRun(i)}
    /\ i \notin U!Explores => db.ai_run[i] = None
    /\ i \in db.named <=> db.ai_run[i] # None
    /\ db.owner[<<"run", i>>] \in {None, RunOwner}
    /\ db.owner[<<"ai_run", i>>] \in {None, AiOwner(i)}
    /\ db.owner[<<"operation", i>>] \in {None, OpOwner(i)}
    /\ db.owner[<<"operation", i>>] # None => db.owner[<<U!Made(i), i>>] = MadeOwner(i)

\* An active source gets a policy and loses the checkpoint it had without one.
PolicyFits ==
    /\ legacy.policy => db.policy
    /\ legacy.archived /\ ~legacy.policy => ~db.policy
    /\ db.checkpoint = (legacy.checkpoint /\ (legacy.policy \/ ~db.policy))

\* What is in the database is what the earlier release left or what the migration
\* makes of it, whichever rows it has reached.
RowsFit ==
    /\ PolicyFits
    /\ \A i \in Ops : RowFits(i)

\* Row i is as a stage leaves it.
Whole(stage, i) ==
    CASE stage = "payloads"  -> i \in db.filled
      [] stage = "ai_runs"   -> i \in U!Explores => db.ai_run[i] # None
      [] stage = "run"       -> i \notin U!Explores => db.owner[<<"run", i>>] = RunOwner
      [] stage = "ai_run"    -> i \in U!Explores => db.owner[<<"ai_run", i>>] = AiOwner(i)
      [] stage = "operation" -> db.owner[<<"operation", i>>] = OpOwner(i)

RowStages == {"payloads", "ai_runs", "run", "ai_run", "operation"}

\* The places behind each stage.
Behind(stage) ==
    CASE stage = "collections" -> U!Stage \ {"collections"}
      [] stage = "payloads"    -> U!Stage \ {"collections", "payloads"}
      [] stage = "ai_runs"     -> {"policy", "schedule", "run", "ai_run", "operation", "mark"}
      [] stage = "policy"      -> {"schedule", "run", "ai_run", "operation", "mark"}
      [] stage = "schedule"    -> {"run", "ai_run", "operation", "mark"}
      [] stage = "run"         -> {"ai_run", "operation", "mark"}
      [] stage = "ai_run"      -> {"operation", "mark"}
      [] stage = "operation"   -> {"mark"}

\* What is behind place at was done: the stages before it, and of its own the rows up
\* to last.
DoneBefore(at, last) ==
    /\ at \in Behind("collections") => db.collections
    /\ at \in Behind("policy") => db.policy \/ legacy.archived
    /\ at \in Behind("schedule") => db.schedule
    /\ \A stage \in RowStages : \A i \in Ops :
          at \in Behind(stage) \/ (at = stage /\ i <= last) => Whole(stage, i)

StagesFit ==
    /\ db.marker => DoneBefore("mark", 0)
    /\ \A p \in Process : /\ DoneBefore(proc[p].at, proc[p].last)
                          /\ proc[p].at = "up" => db.marker

UpgradeInv == U!TypeOK /\ legacy \in U!Legacies /\ ScriptsFit /\ RowsFit /\ StagesFit

\* What the earlier release left tells: the AI run an exploration gets, whether a row
\* has an owner and which.
LEMMA LegacyTells ==
    ASSUME legacy \in U!Legacies
    PROVE  /\ U!Explores \subseteq Ops
           /\ \A i \in Ops :
                /\ U!AiRun(i) \in U!AiRuns /\ U!AiRun(i) # None
                /\ U!Made(i) = IF i \in U!Explores THEN "ai_run" ELSE "run"
                /\ AiOwner(i) \in U!Owners /\ RunOwner \in U!Owners
                /\ MadeOwner(i) \in U!Owners /\ OpOwner(i) \in U!Owners
<1>1. U!Explores \subseteq Ops
  BY DEF U!Explores, Ops
<1> SUFFICES ASSUME NEW i \in Ops
             PROVE  /\ U!AiRun(i) \in U!AiRuns /\ U!AiRun(i) # None
                    /\ U!Made(i) = IF i \in U!Explores THEN "ai_run" ELSE "run"
                    /\ AiOwner(i) \in U!Owners /\ RunOwner \in U!Owners
                    /\ MadeOwner(i) \in U!Owners /\ OpOwner(i) \in U!Owners
  BY <1>1
<1>2. /\ legacy.op[i].kind \in {"explore", "run"}
      /\ legacy.op[i].status \in {"queued", "succeeded", "failed"}
      /\ legacy.status \in {"draft", "ready_review", "published"}
  BY DEF U!Legacies, Ops
<1>3. U!AiRun(i) \in U!AiRuns
  <2>1. CASE legacy.op[i].status = "queued"
    BY <2>1 DEF U!AiRun, U!AiRuns
  <2>2. CASE legacy.op[i].status = "failed"
    BY <2>2 DEF U!AiRun, U!AiRuns
  <2>3. CASE legacy.op[i].status = "succeeded"
    BY <1>2, <2>3 DEF U!AiRun, U!AiRuns
  <2> QED BY <1>2, <2>1, <2>2, <2>3
<1>4. U!AiRun(i) # None
  BY <1>3, RecordsAssumption DEF U!UpgradeAssumption
<1>5. U!Made(i) = IF i \in U!Explores THEN "ai_run" ELSE "run"
  BY <1>2 DEF U!Made, U!Explores, Ops
<1>6. AiOwner(i) \in U!Owners /\ RunOwner \in U!Owners
  BY DEF AiOwner, RunOwner, U!Owners
<1>7. MadeOwner(i) \in U!Owners /\ OpOwner(i) \in U!Owners
  BY <1>6 DEF MadeOwner, OpOwner, U!Owners
<1> QED BY <1>3, <1>4, <1>5, <1>6, <1>7

\* The rows a stage has ahead, and the batch of them that is next.
Ahead(rows, last) == {i \in rows : i > last}
BatchOf(ahead) == {i \in ahead : Cardinality({j \in ahead : j < i}) < BatchSize}

\* A batch is of rows ahead, and leaves none behind its last one.
LEMMA BatchReaches ==
    ASSUME NEW rows \in SUBSET Ops, NEW last \in Nat,
           NEW ahead, ahead = Ahead(rows, last), ahead # {},
           NEW batch, batch = BatchOf(ahead)
    PROVE  /\ batch \subseteq rows
           /\ \E m \in batch : \A j \in batch : j <= m
           /\ \A m \in batch : \A i \in rows : i <= m => i <= last \/ i \in batch
<1> USE DEF Ahead, BatchOf
<1>1. MaxOp \in Nat /\ BatchSize \in Nat \ {0}
  BY RecordsAssumption DEF U!UpgradeAssumption
<1>2. ahead \subseteq 0..MaxOp /\ ahead \subseteq Ops /\ IsFiniteSet(ahead)
  <2>1. ahead \subseteq Ops
    OBVIOUS
  <2>2. IsFiniteSet(Ops)
    BY <1>1, FS_Interval DEF Ops
  <2>3. IsFiniteSet(ahead)
    BY <2>1, <2>2, FS_Subset
  <2> QED BY <1>1, <2>1, <2>3 DEF Ops
<1>3. batch # {}
  <2>1. PICK x \in ahead : \A y \in ahead : x <= y
    BY <1>1, <1>2, EndsOfSet
  <2>2. {j \in ahead : j < x} = {}
    BY <1>1, <1>2, <2>1
  <2>3. Cardinality({j \in ahead : j < x}) = 0
    BY <2>2, FS_EmptySet
  <2> QED BY <1>1, <2>1, <2>3
<1>4. \E m \in batch : \A j \in batch : j <= m
  <2>1. batch \subseteq 0..MaxOp
    BY <1>2
  <2>2. PICK x \in batch : \A y \in batch : x >= y
    BY <1>1, <1>3, <2>1, EndsOfSet
  <2>3. \A y \in batch : y <= x
    BY <1>1, <2>1, <2>2
  <2> QED BY <2>2, <2>3
<1>5. ASSUME NEW m \in batch, NEW i \in ahead, i <= m
      PROVE  i \in batch
  <2> DEFINE Below(k) == {j \in ahead : j < k}
  <2>1. m \in ahead /\ Cardinality(Below(m)) < BatchSize
    OBVIOUS
  <2>2. Below(i) \subseteq Below(m)
    <3> SUFFICES ASSUME NEW j \in ahead, j < i
                 PROVE  j < m
      OBVIOUS
    <3>1. j \in Nat /\ i \in Nat /\ m \in Nat
      BY <1>1, <1>2, <2>1
    <3> QED BY ONLY <3>1, j < i, i <= m
  <2>3. IsFiniteSet(Below(m)) /\ IsFiniteSet(Below(i))
    BY <1>2, FS_Subset
  <2>4. Cardinality(Below(i)) <= Cardinality(Below(m))
    BY <2>2, <2>3, FS_Subset
  <2>5. Cardinality(Below(i)) \in Nat /\ Cardinality(Below(m)) \in Nat
    BY <2>3, FS_CardinalityType
  <2>6. Cardinality(Below(i)) < BatchSize
    <3> HIDE DEF Below
    <3> QED BY <1>1, <2>1, <2>4, <2>5
  <2> QED BY <2>6
<1>6. ASSUME NEW m \in batch, NEW i \in rows, i <= m
      PROVE  i <= last \/ i \in batch
  <2>1. i \in Nat
    BY DEF Ops
  <2>2. CASE i > last
    BY <1>5, <1>6, <2>2
  <2> QED BY <2>1, <2>2
<1>7. batch \subseteq rows
  BY <1>2
<1> QED BY <1>4, <1>6, <1>7

\* What the earlier release left does not change, nor what it tells.
LEMMA PastStays ==
    ASSUME UNCHANGED legacy
    PROVE  /\ U!Explores' = U!Explores /\ RunOwner' = RunOwner
           /\ \A i : /\ U!AiRun(i)' = U!AiRun(i) /\ AiOwner(i)' = AiOwner(i)
                    /\ MadeOwner(i)' = MadeOwner(i) /\ OpOwner(i)' = OpOwner(i)
                    /\ U!Made(i)' = U!Made(i)
           /\ (legacy \in U!Legacies)' <=> legacy \in U!Legacies
<1>1. U!Explores' = U!Explores /\ RunOwner' = RunOwner
  BY DEF U!Explores, RunOwner
<1>2. \A i : U!AiRun(i)' = U!AiRun(i) /\ U!Made(i)' = U!Made(i)
  BY DEF U!AiRun, U!Made, U!Latest, U!Explores
<1>3. \A i : AiOwner(i)' = AiOwner(i)
  BY <1>2 DEF AiOwner
<1>4. \A i : MadeOwner(i)' = MadeOwner(i)
  BY <1>1, <1>3 DEF MadeOwner
<1>5. \A i : OpOwner(i)' = OpOwner(i)
  BY <1>4 DEF OpOwner
<1>6. (legacy \in U!Legacies)' <=> legacy \in U!Legacies
  BY DEF U!Legacies, U!Left
<1> QED BY <1>1, <1>2, <1>3, <1>4, <1>5, <1>6

\* Where the database stays, what is true of its rows stays.
LEMMA RowsStay ==
    ASSUME UpgradeInv, UNCHANGED <<legacy, db>>
    PROVE  /\ (legacy \in U!Legacies)' /\ RowsFit'
           /\ (db.marker => DoneBefore("mark", 0))'
           /\ \A at, last : DoneBefore(at, last) => DoneBefore(at, last)'
<1>1. /\ (legacy \in U!Legacies)
      /\ RowsFit /\ (db.marker => DoneBefore("mark", 0))
  BY DEF UpgradeInv, StagesFit
<1>2. RowsFit'
  <2>1. \A i \in Ops : RowFits(i)'
    BY <1>1, PastStays DEF RowsFit, RowFits
  <2>2. PolicyFits'
    BY <1>1 DEF RowsFit, PolicyFits
  <2> QED BY <2>1, <2>2 DEF RowsFit
<1>3. \A at, last : DoneBefore(at, last)' = DoneBefore(at, last)
  BY PastStays DEF DoneBefore, Whole
<1>4. DoneBefore("mark", 0)' = DoneBefore("mark", 0)
  BY <1>3
<1>5. (legacy \in U!Legacies)'
  BY <1>1, PastStays
<1> QED BY <1>1, <1>2, <1>3, <1>4, <1>5

\* The lock and the places, where no script runs and one process moves.
LEMMA PlacesKeepScripts ==
    ASSUME UpgradeInv, NEW p \in Process, db'.ran = db.ran,
           \A q \in Process \ {p} : proc'[q] = proc[q],
           gate' = gate \/ gate = p \/ gate = Nobody,
           proc'[p].at \notin {"down", "waiting", "up"} => gate' = p,
           proc'[p].at = "schema" => proc'[p].todo = {s \in 1..MaxScript : db.ran[s] = 0},
           proc'[p].at \notin {"down", "waiting", "schema"} =>
                \A s \in 1..MaxScript : db.ran[s] = 1
    PROVE  ScriptsFit'
<1>1. ScriptsFit /\ Nobody \notin Process
  BY RecordsAssumption DEF UpgradeInv, U!UpgradeAssumption
<1>2. \A q \in Process :
          /\ proc'[q].at \notin {"down", "waiting", "up"} => gate' = q
          /\ proc'[q].at = "schema" => proc'[q].todo = {s \in 1..MaxScript : db.ran[s] = 0}
          /\ proc'[q].at \notin {"down", "waiting", "schema"} =>
                \A s \in 1..MaxScript : db.ran[s] = 1
  <2> TAKE q \in Process
  <2>1. CASE q = p
    BY <2>1
  <2>2. CASE q # p
    BY <1>1, <2>2 DEF ScriptsFit
  <2> QED BY <2>1, <2>2
<1>3. \A s \in 1..MaxScript : db'.ran[s] \in {0, 1}
  BY <1>1 DEF ScriptsFit
<1> QED BY <1>2, <1>3 DEF ScriptsFit

\* The places, where one process moves on and what was done stays done.
LEMMA PlacesKeepStages ==
    ASSUME UpgradeInv, NEW p \in Process,
           (db.marker => DoneBefore("mark", 0))',
           \A at, last : DoneBefore(at, last) => DoneBefore(at, last)',
           db.marker => db'.marker,
           \A q \in Process \ {p} : proc'[q] = proc[q],
           NEW at0, at0 = proc'[p].at, NEW last0, last0 = proc'[p].last,
           DoneBefore(at0, last0)', at0 = "up" => db'.marker
    PROVE  StagesFit'
<1>1. StagesFit
  BY DEF UpgradeInv
<1>2. ASSUME NEW q \in Process
      PROVE  DoneBefore(proc[q].at, proc[q].last)' /\ (proc'[q].at = "up" => db'.marker)
  <2>1. CASE q = p
    <3>1. DoneBefore(proc[q].at, proc[q].last)'
      BY <2>1 DEF DoneBefore, Whole
    <3> QED BY <2>1, <3>1
  <2>2. CASE q # p
    <3>1. PICK at1, last1 : at1 = proc[q].at /\ last1 = proc[q].last
      OBVIOUS
    <3>2. DoneBefore(at1, last1)
      BY <1>1, <3>1 DEF StagesFit
    <3>3. DoneBefore(at1, last1)'
      BY <3>2
    <3>4. proc'[q].at = at1 /\ proc'[q].last = last1
      BY <2>2, <3>1
    <3>5. DoneBefore(proc[q].at, proc[q].last)'
      BY <3>3, <3>4 DEF DoneBefore, Whole
    <3> QED BY <1>1, <2>2, <3>5 DEF StagesFit
  <2> QED BY <2>1, <2>2
<1> QED BY <1>2 DEF StagesFit

Place == [role : {"command", "service"}, todo : SUBSET (1..MaxScript), last : {0} \cup Ops,
          at : {"down", "waiting", "schema", "data", "up"} \cup U!Stage]

\* A step of a process that leaves the database alone.
LEMMA UpgradeQuietStep ==
    ASSUME UpgradeInv, NEW p \in Process, UNCHANGED <<legacy, auto, db>>,
           NEW r \in Place, proc' = [proc EXCEPT ![p] = r],
           gate' \in {gate, p} \/ (gate' = Nobody /\ gate = p), gate' = p => gate \in {p, Nobody},
           r.at \notin {"down", "waiting", "up"} => gate' = p,
           r.at = "schema" => r.todo = {s \in 1..MaxScript : db.ran[s] = 0},
           r.at \notin {"down", "waiting", "schema"} => \A s \in 1..MaxScript : db.ran[s] = 1,
           DoneBefore(r.at, r.last), r.at = "up" => db.marker
    PROVE  UpgradeInv'
<1>1. /\ U!TypeOK /\ proc \in [Process -> Place]
  BY DEF UpgradeInv, U!TypeOK, Place, Ops
<1>2. /\ proc' \in [Process -> Place] /\ proc'[p] = r
      /\ \A q \in Process \ {p} : proc'[q] = proc[q]
  BY <1>1
<1>3. U!TypeOK'
  BY <1>1, <1>2 DEF U!TypeOK, Place, Ops
<1>4. ScriptsFit'
  BY <1>2, PlacesKeepScripts
<1>5. /\ (legacy \in U!Legacies)' /\ RowsFit' /\ (db.marker => DoneBefore("mark", 0))'
      /\ \A at, last : DoneBefore(at, last) => DoneBefore(at, last)'
  BY RowsStay
<1>6. StagesFit'
  <2>1. PICK at0, last0 : at0 = r.at /\ last0 = r.last
    OBVIOUS
  <2>2. DoneBefore(at0, last0)'
    BY <1>5, <2>1
  <2>3. db.marker => db'.marker
    OBVIOUS
  <2>4. at0 = proc'[p].at /\ last0 = proc'[p].last /\ (at0 = "up" => db'.marker)
    BY <1>2, <2>1
  <2> HIDE DEF DoneBefore
  <2> QED BY <1>2, <1>5, <2>2, <2>3, <2>4, PlacesKeepStages
<1> QED BY <1>3, <1>4, <1>5, <1>6 DEF UpgradeInv

\* Before the first stage nothing is asked of the rows.
LEMMA NothingAsked ==
    ASSUME NEW at \in {"down", "waiting", "schema", "data", "up", "collections"}, NEW last
    PROVE  DoneBefore(at, last)
BY DEF DoneBefore, Behind, RowStages, U!Stage, U!Kinds

LEMMA BeginUpgrade ==
    ASSUME UpgradeInv, NEW p \in Process, U!Begin(p)
    PROVE  UpgradeInv'
<1>1. PICK role \in {"command", "service"} : proc' = [proc EXCEPT ![p] = U!Fresh(role, "waiting")]
  BY DEF U!Begin
<1>2. U!Fresh(role, "waiting") \in Place /\ U!Fresh(role, "waiting").at = "waiting"
  BY DEF U!Fresh, Place
<1>3. UNCHANGED <<legacy, auto, db, gate>>
  BY DEF U!Begin
<1>4. gate' = p => gate \in {p, Nobody}
  BY <1>3
<1> QED BY <1>1, <1>2, <1>3, <1>4, NothingAsked, UpgradeQuietStep

LEMMA EnterUpgrade ==
    ASSUME UpgradeInv, NEW p \in Process, U!EnterGate(p)
    PROVE  UpgradeInv'
<1>1. U!TypeOK /\ proc[p] \in Place
  BY DEF UpgradeInv, U!TypeOK, Place, Ops
<1> DEFINE todo == {s \in 1..MaxScript : db.ran[s] = 0}
           r == [proc[p] EXCEPT !.at = "schema", !.todo = todo]
<1>2. r \in Place /\ r.at = "schema" /\ r.todo = todo
  BY <1>1 DEF Place
<1>3. proc' = [proc EXCEPT ![p] = r]
  BY <1>1 DEF U!EnterGate
<1>4. UNCHANGED <<legacy, auto, db>> /\ gate = Nobody /\ gate' = p
  BY DEF U!EnterGate, U!Free
<1>5. DoneBefore(r.at, r.last)
  BY <1>2, NothingAsked
<1> HIDE DEF r
<1> QED BY <1>2, <1>3, <1>4, <1>5, UpgradeQuietStep

LEMMA StopUpgrade ==
    ASSUME UpgradeInv, NEW p \in Process, U!Stop(p)
    PROVE  UpgradeInv'
<1>1. U!TypeOK /\ proc[p] \in Place
  BY DEF UpgradeInv, U!TypeOK, Place, Ops
<1> DEFINE r == U!Fresh(proc[p].role, "down")
<1>2. r \in Place /\ r.at = "down"
  BY <1>1 DEF Place, U!Fresh
<1>3. proc' = [proc EXCEPT ![p] = r]
  BY <1>1 DEF U!Stop, U!TypeOK
<1>4. UNCHANGED <<legacy, auto, db>> /\ gate' = IF gate = p THEN Nobody ELSE gate
  BY DEF U!Stop
<1>5. DoneBefore(r.at, r.last)
  BY <1>2, NothingAsked
<1>6. Nobody # p
  BY RecordsAssumption DEF U!UpgradeAssumption
<1> HIDE DEF r
<1>7. gate' \in {gate, p} \/ (gate' = Nobody /\ gate = p)
  BY <1>4
<1>8. gate' = p => gate \in {p, Nobody}
  BY <1>4, <1>6
<1> QED BY <1>2, <1>3, <1>4, <1>5, <1>7, <1>8, UpgradeQuietStep

LEMMA SchemaReadyUpgrade ==
    ASSUME UpgradeInv, NEW p \in Process, U!SchemaReady(p)
    PROVE  UpgradeInv'
<1>1. U!TypeOK /\ proc[p] \in Place /\ ScriptsFit
  BY DEF UpgradeInv, U!TypeOK, Place, Ops
<1> DEFINE r == [proc[p] EXCEPT !.at = "data", !.last = 0]
<1>2. r \in Place /\ r.at = "data"
  BY <1>1 DEF Place
<1>3. proc' = [proc EXCEPT ![p] = r]
  BY <1>1 DEF U!SchemaReady, U!Goes
<1>4. /\ UNCHANGED <<legacy, auto, db, gate>> /\ proc[p].at = "schema" /\ proc[p].todo = {}
  BY DEF U!SchemaReady
<1>5. DoneBefore(r.at, r.last)
  BY <1>2, NothingAsked
<1>6. gate = p /\ \A s \in 1..MaxScript : db.ran[s] = 1
  BY <1>1, <1>4 DEF ScriptsFit
<1> HIDE DEF r
<1> QED BY <1>2, <1>3, <1>4, <1>5, <1>6, UpgradeQuietStep

LEMMA LookUpgrade ==
    ASSUME UpgradeInv, NEW p \in Process, U!LookAtData(p)
    PROVE  UpgradeInv'
<1>1. U!TypeOK /\ proc[p] \in Place /\ ScriptsFit
  BY DEF UpgradeInv, U!TypeOK, Place, Ops
<1>2. UNCHANGED <<legacy, auto, db>> /\ proc[p].at = "data"
  BY DEF U!LookAtData
<1>3. gate = p /\ \A s \in 1..MaxScript : db.ran[s] = 1
  BY <1>1, <1>2 DEF ScriptsFit
<1>4. PICK at \in {"down", "up", "collections"} :
          /\ U!Goes(p, at)
          /\ at = "collections" => UNCHANGED gate
          /\ at # "collections" => gate' = Nobody
          /\ at = "up" => db.marker
  <2>1. CASE U!Complete
    BY <2>1 DEF U!LookAtData, U!Complete
  <2>2. CASE ~U!Complete
    BY <2>2 DEF U!LookAtData
  <2> QED BY <2>1, <2>2
<1> DEFINE r == [proc[p] EXCEPT !.at = at, !.last = 0]
<1>5. r \in Place /\ r.at = at
  BY <1>1 DEF Place, U!Stage
<1>6. proc' = [proc EXCEPT ![p] = r]
  BY <1>1, <1>4 DEF U!Goes
<1>7. DoneBefore(r.at, r.last)
  BY <1>5, NothingAsked
<1>8. Nobody # p
  BY RecordsAssumption DEF U!UpgradeAssumption
<1>9. /\ gate' \in {gate, p} \/ (gate' = Nobody /\ gate = p)
      /\ gate' = p => gate \in {p, Nobody}
      /\ r.at \notin {"down", "waiting", "up"} => gate' = p
  BY <1>3, <1>4, <1>5
<1> HIDE DEF r
<1> QED BY <1>2, <1>3, <1>4, <1>5, <1>6, <1>7, <1>9, UpgradeQuietStep

Database == [ran : [1..MaxScript -> 0..2], collections : BOOLEAN, filled : SUBSET Ops,
             ai_run : [Ops -> U!AiRuns \cup {None}], named : SUBSET Ops,
             policy : BOOLEAN, checkpoint : BOOLEAN, schedule : BOOLEAN,
             owner : [U!Kinds \X Ops -> U!Owners], marker : BOOLEAN]

\* What was done stays done.
Kept ==
    /\ db.collections => db'.collections
    /\ db.policy => db'.policy
    /\ db.schedule => db'.schedule
    /\ \A stage \in RowStages : \A i \in Ops : Whole(stage, i) => Whole(stage, i)'

\* A step of the process that holds the lock, which writes to the database.
LEMMA WorkStep ==
    ASSUME UpgradeInv, NEW p \in Process, UNCHANGED <<legacy, auto>>, gate' \in {gate, Nobody},
           db' \in Database, RowsFit', Kept, ScriptsFit',
           db'.marker = db.marker \/ (db'.marker = TRUE /\ DoneBefore("mark", 0)'),
           NEW r \in Place, proc' = [proc EXCEPT ![p] = r],
           NEW at0, at0 = r.at, NEW last0, last0 = r.last,
           DoneBefore(at0, last0)', at0 = "up" => db'.marker
    PROVE  UpgradeInv'
<1>1. /\ U!TypeOK /\ proc \in [Process -> Place] /\ StagesFit
  BY DEF UpgradeInv, U!TypeOK, Place, Ops
<1>2. /\ proc' \in [Process -> Place] /\ proc'[p] = r
      /\ \A q \in Process \ {p} : proc'[q] = proc[q]
  BY <1>1
<1>3. U!TypeOK'
  <2>1. auto' \in BOOLEAN /\ gate' \in Process \cup {Nobody}
    BY <1>1 DEF U!TypeOK
  <2> QED BY <1>2, <2>1 DEF U!TypeOK, Place, Database, Ops
<1>4. (legacy \in U!Legacies)'
  BY PastStays DEF UpgradeInv
<1>5. \A at, last : DoneBefore(at, last) => DoneBefore(at, last)'
  BY DEF Kept, DoneBefore
<1>6. (db.marker => DoneBefore("mark", 0))' /\ (db.marker => db'.marker)
  <2>1. db.marker => DoneBefore("mark", 0)
    BY <1>1 DEF StagesFit
  <2>2. DoneBefore("mark", 0) => DoneBefore("mark", 0)'
    BY <1>5
  <2> HIDE DEF DoneBefore
  <2>3. CASE db'.marker = db.marker
    BY <2>1, <2>2, <2>3
  <2>4. CASE db'.marker = TRUE /\ DoneBefore("mark", 0)'
    BY <2>4
  <2> QED BY <2>3, <2>4
<1>7. StagesFit'
  <2>1. at0 = proc'[p].at /\ last0 = proc'[p].last
    BY <1>2
  <2> QED BY <1>2, <1>5, <1>6, <2>1, PlacesKeepStages
<1> QED BY <1>3, <1>4, <1>7 DEF UpgradeInv

\* Where rows, AI runs and owners stay, what is true of them stays.
LEMMA SameRows ==
    ASSUME UNCHANGED legacy, db'.filled = db.filled, db'.ai_run = db.ai_run,
           db'.named = db.named, db'.owner = db.owner
    PROVE  /\ \A stage \in RowStages : \A i \in Ops : Whole(stage, i)' = Whole(stage, i)
           /\ PolicyFits' /\ RowsFit => RowsFit'
<1>1. ASSUME NEW stage \in RowStages, NEW i \in Ops
      PROVE  Whole(stage, i)' = Whole(stage, i)
  <2>1. CASE stage = "payloads"
    BY <2>1 DEF Whole
  <2>2. CASE stage = "ai_runs"
    BY <2>2, PastStays DEF Whole
  <2>3. CASE stage = "run"
    BY <2>3, PastStays DEF Whole
  <2>4. CASE stage = "ai_run"
    BY <2>4, PastStays DEF Whole
  <2>5. CASE stage = "operation"
    BY <2>5, PastStays DEF Whole
  <2> QED BY <1>1, <2>1, <2>2, <2>3, <2>4, <2>5 DEF RowStages
<1>2. ASSUME RowsFit, PolicyFits'
      PROVE  RowsFit'
  <2>1. ASSUME NEW i \in Ops
        PROVE  RowFits(i)'
    <3>1. /\ db.ai_run[i] \in {None, U!AiRun(i)}
          /\ i \notin U!Explores => db.ai_run[i] = None
          /\ i \in db.named <=> db.ai_run[i] # None
          /\ db.owner[<<"run", i>>] \in {None, RunOwner}
          /\ db.owner[<<"ai_run", i>>] \in {None, AiOwner(i)}
          /\ db.owner[<<"operation", i>>] \in {None, OpOwner(i)}
          /\ db.owner[<<"operation", i>>] # None => db.owner[<<U!Made(i), i>>] = MadeOwner(i)
      BY <1>2 DEF RowsFit, RowFits
    <3>2. /\ U!Explores' = U!Explores /\ RunOwner' = RunOwner
          /\ U!AiRun(i)' = U!AiRun(i) /\ AiOwner(i)' = AiOwner(i)
          /\ MadeOwner(i)' = MadeOwner(i) /\ OpOwner(i)' = OpOwner(i)
          /\ U!Made(i)' = U!Made(i)
      BY PastStays
    <3>3. /\ db'.owner = db.owner /\ db'.ai_run = db.ai_run /\ db'.named = db.named
      OBVIOUS
    <3> QED BY ONLY <3>1, <3>2, <3>3 DEF RowFits
  <2> QED BY <1>2, <2>1 DEF RowsFit, RowFits
<1> QED BY <1>1, <1>2

LEMMA ScriptUpgrade ==
    ASSUME UpgradeInv, NEW p \in Process, U!RunScript(p)
    PROVE  UpgradeInv'
<1>1. /\ U!TypeOK /\ proc[p] \in Place /\ ScriptsFit /\ RowsFit /\ db \in Database
      /\ proc \in [Process -> Place]
  BY DEF UpgradeInv, U!TypeOK, Place, Ops, Database
<1>2. PICK s \in proc[p].todo :
          /\ db' = U!Ran(s)
          /\ proc' = [proc EXCEPT ![p].todo = @ \ {s}]
  BY DEF U!RunScript
<1>3. proc[p].at = "schema" /\ UNCHANGED <<legacy, auto, gate>>
  BY DEF U!RunScript
<1>4. /\ proc[p].todo = {t \in 1..MaxScript : db.ran[t] = 0} /\ gate = p
      /\ s \in 1..MaxScript /\ db.ran[s] = 0
  BY <1>1, <1>2, <1>3 DEF ScriptsFit
<1>5. db' = [db EXCEPT !.ran = [db.ran EXCEPT ![s] = 1]]
  BY <1>1, <1>2, <1>4 DEF U!Ran, Database
<1>6. /\ db' \in Database /\ db'.ran = [db.ran EXCEPT ![s] = 1]
      /\ db'.collections = db.collections /\ db'.filled = db.filled
      /\ db'.ai_run = db.ai_run /\ db'.named = db.named /\ db'.policy = db.policy
      /\ db'.checkpoint = db.checkpoint /\ db'.schedule = db.schedule
      /\ db'.owner = db.owner /\ db'.marker = db.marker
  <2> DEFINE ran == [db.ran EXCEPT ![s] = 1]
  <2>1. ran \in [1..MaxScript -> 0..2]
    BY <1>1, <1>4 DEF Database
  <2>2. db' = [db EXCEPT !.ran = ran]
    BY <1>5
  <2> HIDE DEF ran
  <2>3. db' \in Database /\ db'.ran = ran
    BY <1>1, <2>1, <2>2 DEF Database
  <2>4. /\ db'.collections = db.collections /\ db'.filled = db.filled
        /\ db'.ai_run = db.ai_run /\ db'.named = db.named /\ db'.policy = db.policy
        /\ db'.checkpoint = db.checkpoint /\ db'.schedule = db.schedule
        /\ db'.owner = db.owner /\ db'.marker = db.marker
    BY <1>1, <2>2 DEF Database
  <2> QED BY <2>3, <2>4 DEF ran
<1> DEFINE r == [proc[p] EXCEPT !.todo = @ \ {s}]
<1>7. r \in Place /\ r.at = "schema" /\ r.todo = proc[p].todo \ {s}
  BY <1>1, <1>3 DEF Place
<1>8. proc' = [proc EXCEPT ![p] = r]
  BY <1>1, <1>2
<1>9. RowsFit'
  <2>1. PolicyFits'
    BY <1>1, <1>3, <1>6 DEF RowsFit, PolicyFits
  <2> QED BY <1>1, <1>3, <1>6, <2>1, SameRows
<1>10. Kept
  BY <1>3, <1>6, SameRows DEF Kept
<1>11. ScriptsFit'
  <2> HIDE DEF r
  <2>1. \A t \in 1..MaxScript : db'.ran[t] = IF t = s THEN 1 ELSE db.ran[t]
    BY <1>1, <1>4, <1>6 DEF Database
  <2>2. \A t \in 1..MaxScript : db'.ran[t] \in {0, 1} /\ (db.ran[t] = 1 => db'.ran[t] = 1)
    BY <1>1, <2>1 DEF ScriptsFit
  <2>3. proc'[p].todo = {t \in 1..MaxScript : db'.ran[t] = 0}
    BY <1>1, <1>4, <1>7, <1>8, <2>1
  <2>4. \A q \in Process \ {p} : proc'[q] = proc[q] /\ gate # q
    BY <1>1, <1>4, <1>8
  <2>5. proc'[p].at = "schema"
    BY <1>1, <1>7, <1>8
  <2>6. \A q \in Process :
          /\ proc'[q].at \notin {"down", "waiting", "up"} => gate' = q
          /\ proc'[q].at = "schema" => proc'[q].todo = {t \in 1..MaxScript : db'.ran[t] = 0}
          /\ proc'[q].at \notin {"down", "waiting", "schema"} =>
                \A t \in 1..MaxScript : db'.ran[t] = 1
    <3> TAKE q \in Process
    <3>1. CASE q = p
      BY <1>3, <1>4, <2>3, <2>5, <3>1
    <3>2. CASE q # p
      BY <1>1, <1>3, <2>2, <2>4, <3>2 DEF ScriptsFit
    <3> QED BY <3>1, <3>2
  <2> QED BY <2>2, <2>6 DEF ScriptsFit
<1>12. PICK at0, last0 : at0 = r.at /\ last0 = r.last
  OBVIOUS
<1>13. DoneBefore(at0, last0)' /\ at0 = "schema"
  BY <1>7, <1>12 DEF DoneBefore, Behind, RowStages, U!Stage, U!Kinds
<1> HIDE DEF r
<1> QED BY <1>3, <1>6, <1>7, <1>8, <1>9, <1>10, <1>11, <1>12, <1>13, WorkStep

\* The stage that follows has behind it what this one has, and this one.
LEMMA StageDone ==
    ASSUME NEW at \in U!Stage \ {"mark"}, NEW last, DoneBefore(at, last), Kept,
           UNCHANGED legacy,
           at = "collections" => db'.collections,
           at = "policy" => db'.policy \/ legacy.archived,
           at = "schedule" => db'.schedule,
           at \in RowStages => \A i \in Ops : Whole(at, i)'
    PROVE  /\ U!After(at) \in U!Stage
           /\ \A next, zero : next = U!After(at) /\ zero = 0 => DoneBefore(next, zero)'
<1>1. /\ U!After(at) \in U!Stage
      /\ \A stage \in {"collections", "policy", "schedule"} \cup RowStages :
            U!After(at) \in Behind(stage) => at \in Behind(stage) \/ at = stage
  <2>1. CASE at = "collections"
    BY <2>1 DEF U!After, U!Stage, U!Kinds, Behind, RowStages
  <2>2. CASE at = "payloads"
    BY <2>2 DEF U!After, U!Stage, U!Kinds, Behind, RowStages
  <2>3. CASE at = "ai_runs"
    BY <2>3 DEF U!After, U!Stage, U!Kinds, Behind, RowStages
  <2>4. CASE at = "policy"
    BY <2>4 DEF U!After, U!Stage, U!Kinds, Behind, RowStages
  <2>5. CASE at = "schedule"
    BY <2>5 DEF U!After, U!Stage, U!Kinds, Behind, RowStages
  <2>6. CASE at = "run"
    BY <2>6 DEF U!After, U!Stage, U!Kinds, Behind, RowStages
  <2>7. CASE at = "ai_run"
    BY <2>7 DEF U!After, U!Stage, U!Kinds, Behind, RowStages
  <2>8. CASE at = "operation"
    BY <2>8 DEF U!After, U!Stage, U!Kinds, Behind, RowStages
  <2> QED BY <2>1, <2>2, <2>3, <2>4, <2>5, <2>6, <2>7, <2>8 DEF U!Stage, U!Kinds
<1> SUFFICES ASSUME NEW next, NEW zero, next = U!After(at), zero = 0
             PROVE  DoneBefore(next, zero)'
  BY <1>1
<1>2. \A stage \in RowStages : \A i \in Ops :
          next \in Behind(stage) \/ (next = stage /\ i <= zero) => Whole(stage, i)'
  <2> SUFFICES ASSUME NEW stage \in RowStages, NEW i \in Ops,
                      next \in Behind(stage) \/ (next = stage /\ i <= zero)
               PROVE  Whole(stage, i)'
    OBVIOUS
  <2>1. ~(i <= zero)
    BY DEF Ops
  <2>2. at \in Behind(stage) \/ at = stage
    BY <1>1, <2>1
  <2>3. CASE at \in Behind(stage)
    <3>1. Whole(stage, i)
      BY <2>3 DEF DoneBefore
    <3> QED BY <3>1 DEF Kept
  <2>4. CASE at = stage
    BY <2>4
  <2> QED BY <2>2, <2>3, <2>4
<1>3. next \in Behind("collections") => db'.collections
  BY <1>1 DEF DoneBefore, Kept
<1>4. next \in Behind("policy") => db'.policy \/ legacy.archived
  BY <1>1 DEF DoneBefore, Kept
<1>5. next \in Behind("schedule") => db'.schedule
  BY <1>1 DEF DoneBefore, Kept
<1> QED BY <1>2, <1>3, <1>4, <1>5 DEF DoneBefore

\* What a process on one of the stages may rely on.
LEMMA OnStage ==
    ASSUME UpgradeInv, NEW p \in Process, proc[p].at \in U!Stage
    PROVE  /\ U!TypeOK /\ db \in Database /\ proc \in [Process -> Place] /\ proc[p] \in Place
           /\ ScriptsFit /\ RowsFit /\ DoneBefore(proc[p].at, proc[p].last)
           /\ gate = p /\ \A s \in 1..MaxScript : db.ran[s] = 1
<1>1. /\ U!TypeOK /\ db \in Database /\ proc \in [Process -> Place] /\ proc[p] \in Place
      /\ ScriptsFit /\ RowsFit
  BY DEF UpgradeInv, U!TypeOK, Place, Ops, Database
<1>2. DoneBefore(proc[p].at, proc[p].last)
  BY DEF UpgradeInv, StagesFit
<1>3. proc[p].at \notin {"down", "waiting", "up", "schema"}
  BY DEF U!Stage, U!Kinds
<1> QED BY <1>1, <1>2, <1>3 DEF ScriptsFit

\* The scripts and the lock, where a process goes from a stage to another place.
LEMMA StageKeepsScripts ==
    ASSUME UpgradeInv, NEW p \in Process, proc[p].at \in U!Stage,
           gate' = gate \/ gate' = Nobody, db'.ran = db.ran,
           NEW r \in Place, proc' = [proc EXCEPT ![p] = r],
           r.at \in U!Stage \/ r.at \in {"down", "up"}, r.at \in U!Stage => gate' = gate
    PROVE  ScriptsFit'
<1>1. /\ proc \in [Process -> Place] /\ gate = p
      /\ \A s \in 1..MaxScript : db.ran[s] = 1
  BY OnStage
<1>2. proc'[p] = r /\ \A q \in Process \ {p} : proc'[q] = proc[q]
  BY <1>1
<1>3. /\ r.at \notin {"schema", "waiting"}
      /\ r.at \notin {"down", "waiting", "up"} => gate' = p
  BY <1>1 DEF U!Stage, U!Kinds
<1> QED BY <1>1, <1>2, <1>3, PlacesKeepScripts

LEMMA SingleUpgrade ==
    ASSUME UpgradeInv, NEW p \in Process, U!Single(p)
    PROVE  UpgradeInv'
<1> DEFINE at == proc[p].at
           r == [proc[p] EXCEPT !.at = U!After(at), !.last = 0]
<1>1. /\ UNCHANGED <<legacy, auto, gate>> /\ at \in {"collections", "policy", "schedule"}
      /\ U!Goes(p, U!After(at))
  BY DEF U!Single
<1>2. at \in U!Stage \ {"mark"} /\ at \notin RowStages
  BY <1>1 DEF U!Stage, U!Kinds, RowStages
<1>3. /\ db \in Database /\ proc \in [Process -> Place] /\ proc[p] \in Place
      /\ RowsFit /\ DoneBefore(at, proc[p].last)
  BY <1>2, OnStage
<1>4. /\ db' \in Database
      /\ db'.ran = db.ran /\ db'.filled = db.filled /\ db'.ai_run = db.ai_run
      /\ db'.named = db.named /\ db'.owner = db.owner /\ db'.marker = db.marker
      /\ db.collections => db'.collections
      /\ db.policy => db'.policy
      /\ db.schedule => db'.schedule
      /\ PolicyFits'
      /\ at = "collections" => db'.collections
      /\ at = "policy" => db'.policy \/ legacy.archived
      /\ at = "schedule" => db'.schedule
  <2>1. CASE at = "collections"
    <3>1. db' = [db EXCEPT !.collections = TRUE]
      BY <2>1 DEF U!Single, U!WithCollections
    <3> QED BY <1>1, <1>3, <2>1, <3>1 DEF Database, RowsFit, PolicyFits
  <2>2. CASE at = "policy"
    <3>1. db' = IF db.policy \/ legacy.archived THEN db
                ELSE [db EXCEPT !.policy = TRUE, !.checkpoint = FALSE]
      BY <2>2 DEF U!Single, U!WithPolicy
    <3>2. CASE db.policy \/ legacy.archived
      BY <1>1, <1>3, <2>2, <3>1, <3>2 DEF RowsFit, PolicyFits
    <3>3. CASE ~db.policy /\ ~legacy.archived
      <4>1. db' = [db EXCEPT !.policy = TRUE, !.checkpoint = FALSE]
        BY <3>1, <3>3
      <4>2. ~legacy.policy
        BY <1>3, <3>3 DEF RowsFit, PolicyFits
      <4> QED BY <1>1, <1>3, <2>2, <3>3, <4>1, <4>2 DEF Database, PolicyFits
    <3> QED BY <3>2, <3>3
  <2>3. CASE at = "schedule"
    <3>1. db' = [db EXCEPT !.schedule = TRUE]
      BY <2>3 DEF U!Single, U!WithSchedule
    <3> QED BY <1>1, <1>3, <2>3, <3>1 DEF Database, RowsFit, PolicyFits
  <2> QED BY <1>1, <2>1, <2>2, <2>3
<1>5. RowsFit'
  BY <1>1, <1>3, <1>4, SameRows
<1>6. Kept
  BY <1>1, <1>4, SameRows DEF Kept
<1>7. PICK at0, last0 : at0 = at /\ last0 = proc[p].last
  OBVIOUS
<1>8. PICK next, zero : next = U!After(at) /\ zero = 0
  OBVIOUS
<1>9. next \in U!Stage /\ DoneBefore(next, zero)'
  <2>1. at0 \in U!Stage \ {"mark"} /\ at0 \notin RowStages /\ DoneBefore(at0, last0)
    BY <1>2, <1>3, <1>7
  <2>2. /\ at0 = "collections" => db'.collections
        /\ at0 = "policy" => db'.policy \/ legacy.archived
        /\ at0 = "schedule" => db'.schedule
    BY <1>4, <1>7
  <2>3. next = U!After(at0)
    BY <1>7, <1>8
  <2> HIDE DEF at
  <2> QED BY <1>1, <1>6, <1>8, <2>1, <2>2, <2>3, StageDone
<1>10. r \in Place /\ next = r.at /\ zero = r.last
  BY <1>3, <1>8, <1>9 DEF Place
<1>11. proc' = [proc EXCEPT ![p] = r]
  BY <1>1, <1>3 DEF U!Goes
<1>12. ScriptsFit'
  <2> HIDE DEF r
  <2> QED BY <1>1, <1>2, <1>4, <1>9, <1>10, <1>11, StageKeepsScripts
<1>13. next # "up"
  BY <1>9 DEF U!Stage, U!Kinds
<1> HIDE DEF r, at
<1> QED BY <1>1, <1>4, <1>5, <1>6, <1>9, <1>10, <1>11, <1>12, <1>13, WorkStep

\* The stages that go through rows each complete the rows of a batch.
LEMMA PayloadsCompleted ==
    ASSUME UpgradeInv, UNCHANGED legacy, NEW batch \in SUBSET Ops,
           db' = [db EXCEPT !.filled = @ \cup batch]
    PROVE  /\ db' \in Database /\ RowsFit' /\ Kept /\ db'.ran = db.ran
           /\ db'.marker = db.marker /\ \A i \in batch : Whole("payloads", i)'
<1>1. db \in Database /\ RowsFit
  BY DEF UpgradeInv, U!TypeOK, Database, Ops
<1>2. /\ db' \in Database /\ db'.filled = db.filled \cup batch
      /\ db'.ran = db.ran /\ db'.collections = db.collections
      /\ db'.ai_run = db.ai_run /\ db'.named = db.named /\ db'.policy = db.policy
      /\ db'.checkpoint = db.checkpoint /\ db'.schedule = db.schedule
      /\ db'.owner = db.owner /\ db'.marker = db.marker
  BY <1>1 DEF Database
<1>3. RowsFit'
  <2>1. ASSUME NEW i \in Ops
        PROVE  RowFits(i)'
    <3>1. /\ db.ai_run[i] \in {None, U!AiRun(i)}
          /\ i \notin U!Explores => db.ai_run[i] = None
          /\ i \in db.named <=> db.ai_run[i] # None
          /\ db.owner[<<"run", i>>] \in {None, RunOwner}
          /\ db.owner[<<"ai_run", i>>] \in {None, AiOwner(i)}
          /\ db.owner[<<"operation", i>>] \in {None, OpOwner(i)}
          /\ db.owner[<<"operation", i>>] # None => db.owner[<<U!Made(i), i>>] = MadeOwner(i)
      BY <1>1 DEF RowsFit, RowFits
    <3> QED BY <1>2, <3>1, PastStays DEF RowFits
  <2>2. PolicyFits'
    BY <1>1, <1>2 DEF RowsFit, PolicyFits
  <2> QED BY <2>1, <2>2 DEF RowsFit, RowFits
<1>4. ASSUME NEW stage \in RowStages, NEW i \in Ops, Whole(stage, i)
      PROVE  Whole(stage, i)'
  <2>1. CASE stage = "payloads"
    BY <1>2, <1>4, <2>1 DEF Whole
  <2>2. CASE stage = "ai_runs"
    BY <1>2, <1>4, <2>2, PastStays DEF Whole
  <2>3. CASE stage = "run"
    BY <1>2, <1>4, <2>3, PastStays DEF Whole
  <2>4. CASE stage = "ai_run"
    BY <1>2, <1>4, <2>4, PastStays DEF Whole
  <2>5. CASE stage = "operation"
    BY <1>2, <1>4, <2>5, PastStays DEF Whole
  <2> QED BY <1>4, <2>1, <2>2, <2>3, <2>4, <2>5 DEF RowStages
<1>5. \A i \in batch : Whole("payloads", i)'
  BY <1>2 DEF Whole
<1> QED BY <1>2, <1>3, <1>4, <1>5 DEF Kept

LEMMA AiRunsCompleted ==
    ASSUME UpgradeInv, UNCHANGED legacy, NEW batch \in SUBSET Ops,
           db' = U!WithAiRuns(batch)
    PROVE  /\ db' \in Database /\ RowsFit' /\ Kept /\ db'.ran = db.ran
           /\ db'.marker = db.marker /\ \A i \in batch : Whole("ai_runs", i)'
<1>1. db \in Database /\ RowsFit /\ legacy \in U!Legacies
  BY DEF UpgradeInv, U!TypeOK, Database, Ops
<1>2. PICK runs : runs = [i \in Ops |-> IF i \in batch \cap U!Explores THEN U!AiRun(i) ELSE db.ai_run[i]]
  OBVIOUS
<1>3. /\ runs \in [Ops -> U!AiRuns \cup {None}]
      /\ \A i \in Ops : runs[i] = IF i \in batch \cap U!Explores THEN U!AiRun(i) ELSE db.ai_run[i]
  BY <1>1, <1>2, LegacyTells DEF Database
<1>4. db' = [db EXCEPT !.ai_run = runs, !.named = db.named \cup (batch \cap U!Explores)]
  BY <1>1, <1>2 DEF U!WithAiRuns, Database, Ops
<1>5. /\ db' \in Database /\ db'.ai_run = runs
      /\ db'.named = db.named \cup (batch \cap U!Explores)
      /\ db'.ran = db.ran /\ db'.collections = db.collections /\ db'.filled = db.filled
      /\ db'.policy = db.policy
      /\ db'.checkpoint = db.checkpoint /\ db'.schedule = db.schedule
      /\ db'.owner = db.owner /\ db'.marker = db.marker
  BY <1>1, <1>3, <1>4 DEF Database
<1>6. RowsFit'
  <2>1. ASSUME NEW i \in Ops
        PROVE  RowFits(i)'
    <3>1. /\ db.ai_run[i] \in {None, U!AiRun(i)}
          /\ i \notin U!Explores => db.ai_run[i] = None
          /\ i \in db.named <=> db.ai_run[i] # None
          /\ db.owner[<<"run", i>>] \in {None, RunOwner}
          /\ db.owner[<<"ai_run", i>>] \in {None, AiOwner(i)}
          /\ db.owner[<<"operation", i>>] \in {None, OpOwner(i)}
          /\ db.owner[<<"operation", i>>] # None => db.owner[<<U!Made(i), i>>] = MadeOwner(i)
      BY <1>1 DEF RowsFit, RowFits
    <3>2. U!AiRun(i) # None
      BY <1>1, LegacyTells
    <3>3. /\ db'.ai_run[i] \in {None, U!AiRun(i)'}
          /\ i \notin U!Explores' => db'.ai_run[i] = None
          /\ i \in db'.named <=> db'.ai_run[i] # None
      BY <1>3, <1>5, <3>1, <3>2, PastStays
    <3> QED BY <1>5, <3>1, <3>3, PastStays DEF RowFits
  <2>2. PolicyFits'
    BY <1>1, <1>5 DEF RowsFit, PolicyFits
  <2> QED BY <2>1, <2>2 DEF RowsFit, RowFits
<1>7. \A i \in Ops : db.ai_run[i] # None \/ i \in batch \cap U!Explores => db'.ai_run[i] # None
  BY <1>1, <1>3, <1>5, LegacyTells
<1>8. ASSUME NEW stage \in RowStages, NEW i \in Ops, Whole(stage, i)
      PROVE  Whole(stage, i)'
  <2>1. CASE stage = "payloads"
    BY <1>5, <1>8, <2>1 DEF Whole
  <2>2. CASE stage = "ai_runs"
    BY <1>7, <1>8, <2>2, PastStays DEF Whole
  <2>3. CASE stage = "run"
    BY <1>5, <1>8, <2>3, PastStays DEF Whole
  <2>4. CASE stage = "ai_run"
    BY <1>5, <1>8, <2>4, PastStays DEF Whole
  <2>5. CASE stage = "operation"
    BY <1>5, <1>8, <2>5, PastStays DEF Whole
  <2> QED BY <1>8, <2>1, <2>2, <2>3, <2>4, <2>5 DEF RowStages
<1>9. \A i \in batch : Whole("ai_runs", i)'
  BY <1>7, PastStays DEF Whole
<1> QED BY <1>5, <1>6, <1>8, <1>9 DEF Kept

\* The owner that a stage gives a row.
Final(kind, i) == CASE kind = "run"       -> RunOwner
                    [] kind = "ai_run"    -> AiOwner(i)
                    [] kind = "operation" -> OpOwner(i)

\* What a stage reads of the rows before it is complete: it tells the final owner.
LEMMA OwnersTold ==
    ASSUME UpgradeInv, NEW kind \in U!Kinds, NEW last, DoneBefore(kind, last),
           NEW i \in Ops, i \in U!RowsOf(kind)
    PROVE  /\ U!OwnerOf(kind, i) = Final(kind, i)
           /\ kind = "operation" => db.owner[<<U!Made(i), i>>] = MadeOwner(i)
<1>1. RowsFit /\ legacy \in U!Legacies
  BY DEF UpgradeInv
<1>2. CASE kind = "run"
  <2>1. U!OwnerOf(kind, i) = RunOwner
    BY <1>2 DEF U!OwnerOf, RunOwner
  <2> QED BY <1>2, <2>1 DEF Final
<1>3. CASE kind = "ai_run"
  <2>1. db.ai_run[i] # None
    BY <1>3 DEF U!RowsOf
  <2>2. db.ai_run[i] = U!AiRun(i)
    BY <1>1, <2>1 DEF RowsFit, RowFits
  <2>3. U!OwnerOf(kind, i) = AiOwner(i)
    BY <1>3, <2>2 DEF U!OwnerOf, AiOwner
  <2> QED BY <1>3, <2>3 DEF Final
<1>4. CASE kind = "operation"
  <2>1. "operation" \in Behind("run") /\ "operation" \in Behind("ai_run")
        /\ "run" \in RowStages /\ "ai_run" \in RowStages
    BY DEF Behind, RowStages
  <2>2. Whole("run", i) /\ Whole("ai_run", i)
    BY <1>4, <2>1 DEF DoneBefore
  <2>3. db.owner[<<U!Made(i), i>>] = MadeOwner(i)
    <3>1. CASE i \in U!Explores
      <4>1. db.owner[<<"ai_run", i>>] = AiOwner(i)
        BY <2>2, <3>1 DEF Whole
      <4> QED BY <1>1, <3>1, <4>1, LegacyTells DEF MadeOwner
    <3>2. CASE i \notin U!Explores
      <4>1. db.owner[<<"run", i>>] = RunOwner
        BY <2>2, <3>2 DEF Whole
      <4> QED BY <1>1, <3>2, <4>1, LegacyTells DEF MadeOwner
    <3> QED BY <3>1, <3>2
  <2>4. U!OwnerOf(kind, i) = OpOwner(i)
    BY <1>4, <2>3 DEF U!OwnerOf, OpOwner
  <2> QED BY <1>4, <2>3, <2>4 DEF Final
<1> QED BY <1>2, <1>3, <1>4 DEF U!Kinds

LEMMA OwnersCompleted ==
    ASSUME UpgradeInv, UNCHANGED legacy, NEW kind \in U!Kinds, NEW last, DoneBefore(kind, last),
           NEW batch \in SUBSET Ops, batch \subseteq U!RowsOf(kind),
           db' = U!WithOwners(kind, batch)
    PROVE  /\ db' \in Database /\ RowsFit' /\ Kept /\ db'.ran = db.ran
           /\ db'.marker = db.marker /\ \A i \in batch : Whole(kind, i)'
<1>1. db \in Database /\ RowsFit /\ legacy \in U!Legacies
  BY DEF UpgradeInv, U!TypeOK, Database, Ops
<1>2. \A i \in batch :
          /\ U!OwnerOf(kind, i) = Final(kind, i)
          /\ kind = "operation" => db.owner[<<U!Made(i), i>>] = MadeOwner(i)
  BY OwnersTold
<1>3. PICK owned : owned = [x \in U!Kinds \X Ops |->
          IF x[1] = kind /\ x[2] \in batch /\ db.owner[x] = None
          THEN U!OwnerOf(kind, x[2]) ELSE db.owner[x]]
  OBVIOUS
<1>4. \A k \in U!Kinds, i \in Ops :
          owned[<<k, i>>] = IF k = kind /\ i \in batch /\ db.owner[<<k, i>>] = None
                            THEN Final(k, i) ELSE db.owner[<<k, i>>]
  BY <1>2, <1>3
<1>5. \A k \in U!Kinds, i \in Ops : Final(k, i) \in U!Owners
  BY <1>1, LegacyTells DEF Final, U!Kinds
<1>6. owned \in [U!Kinds \X Ops -> U!Owners]
  <2>1. \A x \in U!Kinds \X Ops : owned[x] \in U!Owners
    <3> TAKE x \in U!Kinds \X Ops
    <3>1. PICK k \in U!Kinds, i \in Ops : x = <<k, i>>
      OBVIOUS
    <3>2. db.owner[<<k, i>>] \in U!Owners
      BY <1>1 DEF Database
    <3> QED BY <1>4, <1>5, <3>1, <3>2
  <2> QED BY <1>3, <2>1
<1>7. db' = [db EXCEPT !.owner = owned]
  BY <1>1, <1>3 DEF U!WithOwners, Database, Ops
<1>8. /\ db' \in Database /\ db'.owner = owned
      /\ db'.ran = db.ran /\ db'.collections = db.collections /\ db'.filled = db.filled
      /\ db'.ai_run = db.ai_run /\ db'.named = db.named /\ db'.policy = db.policy
      /\ db'.checkpoint = db.checkpoint /\ db'.schedule = db.schedule
      /\ db'.marker = db.marker
  BY <1>1, <1>6, <1>7 DEF Database
<1>9. \A k \in U!Kinds, i \in Ops :
          /\ db'.owner[<<k, i>>] = IF k = kind /\ i \in batch /\ db.owner[<<k, i>>] = None
                                   THEN Final(k, i) ELSE db.owner[<<k, i>>]
  BY <1>4, <1>8
<1>10. /\ "run" \in U!Kinds /\ "ai_run" \in U!Kinds /\ "operation" \in U!Kinds
  BY DEF U!Kinds
<1>11. \A i : Final("run", i) = RunOwner /\ Final("ai_run", i) = AiOwner(i)
              /\ Final("operation", i) = OpOwner(i)
  BY DEF Final
<1>12. RowsFit'
  <2>1. ASSUME NEW i \in Ops
        PROVE  RowFits(i)'
    <3>1. /\ db.ai_run[i] \in {None, U!AiRun(i)}
          /\ i \notin U!Explores => db.ai_run[i] = None
          /\ i \in db.named <=> db.ai_run[i] # None
          /\ db.owner[<<"run", i>>] \in {None, RunOwner}
          /\ db.owner[<<"ai_run", i>>] \in {None, AiOwner(i)}
          /\ db.owner[<<"operation", i>>] \in {None, OpOwner(i)}
          /\ db.owner[<<"operation", i>>] # None => db.owner[<<U!Made(i), i>>] = MadeOwner(i)
      BY <1>1 DEF RowsFit, RowFits
    <3>2. /\ db'.ai_run[i] \in {None, U!AiRun(i)'}
          /\ i \notin U!Explores' => db'.ai_run[i] = None
          /\ i \in db'.named <=> db'.ai_run[i] # None
      BY <1>8, <3>1, PastStays
    <3>3. /\ db'.owner[<<"run", i>>] \in {None, RunOwner}
          /\ db'.owner[<<"ai_run", i>>] \in {None, AiOwner(i)}
          /\ db'.owner[<<"operation", i>>] \in {None, OpOwner(i)}
      BY <1>9, <1>10, <1>11, <3>1
    <3>4. Final(U!Made(i), i) = MadeOwner(i) /\ U!Made(i) \in {"run", "ai_run"}
      BY <1>1, <1>11, LegacyTells DEF MadeOwner
    <3>5. /\ U!Made(i) \in U!Kinds /\ U!Made(i) # "operation"
      BY <3>4 DEF U!Kinds
    <3>6. db'.owner[<<"operation", i>>] # None => db'.owner[<<U!Made(i), i>>] = MadeOwner(i)
      <4>1. db'.owner[<<U!Made(i), i>>] \in {db.owner[<<U!Made(i), i>>], MadeOwner(i)}
        BY <1>9, <3>4, <3>5
      <4>2. CASE db.owner[<<"operation", i>>] # None
        BY <3>1, <4>1, <4>2
      <4>3. CASE db.owner[<<"operation", i>>] = None /\ kind = "operation" /\ i \in batch
        BY <1>2, <4>1, <4>3
      <4>4. CASE db.owner[<<"operation", i>>] = None /\ ~(kind = "operation" /\ i \in batch)
        BY <1>9, <1>10, <4>4
      <4> QED BY <4>2, <4>3, <4>4
    <3>7. /\ RunOwner' = RunOwner /\ AiOwner(i)' = AiOwner(i) /\ OpOwner(i)' = OpOwner(i)
          /\ MadeOwner(i)' = MadeOwner(i) /\ U!Made(i)' = U!Made(i)
      BY PastStays
    <3> QED BY <3>2, <3>3, <3>6, <3>7 DEF RowFits
  <2>2. PolicyFits'
    BY <1>1, <1>8 DEF RowsFit, PolicyFits
  <2> QED BY <2>1, <2>2 DEF RowsFit, RowFits
<1>13. \A k \in U!Kinds, i \in Ops :
          db.owner[<<k, i>>] = Final(k, i) => db'.owner[<<k, i>>] = Final(k, i)
  BY <1>9
<1>14. ASSUME NEW stage \in RowStages, NEW i \in Ops, Whole(stage, i)
      PROVE  Whole(stage, i)'
  <2>1. CASE stage = "payloads"
    BY <1>8, <1>14, <2>1 DEF Whole
  <2>2. CASE stage = "ai_runs"
    BY <1>8, <1>14, <2>2, PastStays DEF Whole
  <2>3. CASE stage = "run"
    BY <1>10, <1>11, <1>13, <1>14, <2>3, PastStays DEF Whole
  <2>4. CASE stage = "ai_run"
    BY <1>10, <1>11, <1>13, <1>14, <2>4, PastStays DEF Whole
  <2>5. CASE stage = "operation"
    BY <1>10, <1>11, <1>13, <1>14, <2>5, PastStays DEF Whole
  <2> QED BY <1>14, <2>1, <2>2, <2>3, <2>4, <2>5 DEF RowStages
<1>15. ASSUME NEW i \in batch
       PROVE  Whole(kind, i)'
  <2>1. db.owner[<<kind, i>>] \in {None, Final(kind, i)}
    <3>1. /\ db.owner[<<"run", i>>] \in {None, RunOwner}
          /\ db.owner[<<"ai_run", i>>] \in {None, AiOwner(i)}
          /\ db.owner[<<"operation", i>>] \in {None, OpOwner(i)}
      BY <1>1 DEF RowsFit, RowFits
    <3> QED BY <1>11, <3>1 DEF U!Kinds
  <2>2. db'.owner[<<kind, i>>] = Final(kind, i)
    BY <1>9, <2>1
  <2>3. CASE kind = "run"
    BY <1>11, <2>2, <2>3, PastStays DEF Whole
  <2>4. CASE kind = "ai_run"
    BY <1>11, <2>2, <2>4, PastStays DEF Whole
  <2>5. CASE kind = "operation"
    BY <1>11, <2>2, <2>5, PastStays DEF Whole
  <2> QED BY <2>3, <2>4, <2>5 DEF U!Kinds
<1> QED BY <1>8, <1>12, <1>14, <1>15 DEF Kept

\* A row that a stage does not go through needs nothing from it.
LEMMA OutOfRows ==
    ASSUME UpgradeInv, NEW stage \in RowStages, NEW last, DoneBefore(stage, last),
           NEW i \in Ops, i \notin U!RowsOf(stage)
    PROVE  Whole(stage, i)
<1>1. RowsFit /\ legacy \in U!Legacies
  BY DEF UpgradeInv
<1>2. CASE stage \in {"payloads", "operation"}
  BY <1>2 DEF U!RowsOf, Ops
<1>3. CASE stage = "ai_runs"
  BY <1>3 DEF U!RowsOf, Whole, Ops
<1>4. CASE stage = "run"
  BY <1>4 DEF U!RowsOf, Whole, Ops
<1>5. CASE stage = "ai_run"
  <2>1. "ai_run" \in Behind("ai_runs") /\ "ai_runs" \in RowStages
    BY DEF Behind, RowStages
  <2>2. Whole("ai_runs", i)
    BY <1>5, <2>1 DEF DoneBefore
  <2>3. i \notin U!Explores
    BY <1>5, <2>2 DEF Whole, U!RowsOf, Ops
  <2> QED BY <1>5, <2>3 DEF Whole
<1> QED BY <1>2, <1>3, <1>4, <1>5 DEF RowStages

\* A batch completes its rows, and nothing that was complete before suffers.
LEMMA BatchCompleted ==
    ASSUME UpgradeInv, UNCHANGED legacy, NEW stage \in RowStages, NEW last,
           DoneBefore(stage, last), NEW batch \in SUBSET Ops, batch \subseteq U!RowsOf(stage),
           db' = U!Completed(stage, batch)
    PROVE  /\ db' \in Database /\ RowsFit' /\ Kept /\ db'.ran = db.ran
           /\ db'.marker = db.marker /\ \A i \in batch : Whole(stage, i)'
<1>1. CASE stage = "payloads"
  <2>1. db' = [db EXCEPT !.filled = @ \cup batch]
    BY <1>1 DEF U!Completed, U!WithFields, U!Kinds
  <2>2. /\ db' \in Database /\ RowsFit' /\ Kept /\ db'.ran = db.ran
        /\ db'.marker = db.marker /\ \A i \in batch : Whole("payloads", i)'
    BY <2>1, PayloadsCompleted
  <2> QED BY <1>1, <2>2 DEF Whole
<1>2. CASE stage = "ai_runs"
  <2>1. db' = U!WithAiRuns(batch)
    BY <1>2 DEF U!Completed, U!Kinds
  <2>2. /\ db' \in Database /\ RowsFit' /\ Kept /\ db'.ran = db.ran
        /\ db'.marker = db.marker /\ \A i \in batch : Whole("ai_runs", i)'
    BY <2>1, AiRunsCompleted
  <2> QED BY <1>2, <2>2 DEF Whole
<1>3. CASE stage \in U!Kinds
  <2>1. db' = U!WithOwners(stage, batch)
    BY <1>3 DEF U!Completed, U!Kinds
  <2> QED BY <1>3, <2>1, OwnersCompleted
<1> QED BY <1>1, <1>2, <1>3 DEF RowStages, U!Kinds

\* Cardinality is the same operator where Upgrade is instantiated.
LEMMA CardinalityThere == \A S : U!Cardinality(S) = Cardinality(S)
BY DEF U!Cardinality, Cardinality

LEMMA BatchUpgrade ==
    ASSUME UpgradeInv, NEW p \in Process, U!Batch(p)
    PROVE  UpgradeInv'
<1>1. PICK stage, last : stage = proc[p].at /\ last = proc[p].last
  OBVIOUS
<1>2. stage \in RowStages /\ stage \in U!Stage \ {"mark"} /\ UNCHANGED <<legacy, auto, gate>>
  BY <1>1 DEF U!Batch, RowStages, U!Kinds, U!Stage
<1>3. /\ db \in Database /\ proc \in [Process -> Place] /\ proc[p] \in Place
      /\ RowsFit /\ DoneBefore(stage, last) /\ last \in Nat
  <2>1. /\ db \in Database /\ proc \in [Process -> Place] /\ proc[p] \in Place
        /\ RowsFit /\ DoneBefore(proc[p].at, proc[p].last)
    BY <1>1, <1>2, OnStage
  <2>2. proc[p].last \in Nat
    BY <2>1 DEF Place, Ops
  <2> QED BY <1>1, <2>1, <2>2
<1>4. U!RowsOf(stage) \subseteq Ops
  <2>1. CASE stage \in {"payloads", "operation"}
    BY <2>1 DEF U!RowsOf, Ops
  <2>2. CASE stage = "ai_runs"
    BY <2>2 DEF U!RowsOf, Ops
  <2>3. CASE stage = "run"
    BY <2>3 DEF U!RowsOf, Ops
  <2>4. CASE stage = "ai_run"
    BY <2>4 DEF U!RowsOf, Ops
  <2> QED BY <1>2, <2>1, <2>2, <2>3, <2>4 DEF RowStages
<1>5. PICK rows, ahead, batch :
          /\ rows = U!RowsOf(stage)
          /\ ahead = Ahead(rows, last)
          /\ batch = BatchOf(ahead)
  OBVIOUS
<1>6. IF ahead = {}
      THEN U!Goes(p, U!After(stage)) /\ UNCHANGED db
      ELSE /\ db' = U!Completed(stage, batch)
           /\ proc' = [proc EXCEPT ![p].last = CHOOSE i \in batch : \A j \in batch : j <= i]
  <2> DEFINE a == {i \in U!RowsOf(proc[p].at) : i > proc[p].last}
             b == BatchOf(a)
             c == {i \in a : U!Cardinality({j \in a : j < i}) < BatchSize}
  <2>1. IF a = {}
        THEN U!Goes(p, U!After(proc[p].at)) /\ UNCHANGED db
        ELSE /\ db' = U!Completed(proc[p].at, c)
             /\ proc' = [proc EXCEPT ![p].last = CHOOSE i \in c : \A j \in c : j <= i]
    BY DEF U!Batch
  <2>2. a = ahead
    BY <1>1, <1>5 DEF Ahead
  <2>3. b = batch
    BY <1>5, <2>2
  <2>4. c = b
    BY CardinalityThere DEF BatchOf
  <2> HIDE DEF a, b, c
  <2> QED BY <1>1, <2>1, <2>2, <2>3, <2>4
<1>7. CASE ahead = {}
  <2>1. db' = db /\ U!Goes(p, U!After(stage))
    BY <1>6, <1>7
  <2>2. /\ RowsFit' /\ Kept
    BY <1>2, <1>3, <2>1, SameRows, RowsStay DEF Kept
  <2>3. ASSUME NEW i \in Ops
        PROVE  Whole(stage, i)'
    <3>1. Whole(stage, i)
      <4>1. CASE i \in rows
        <5>1. i <= last
          BY <1>3, <1>5, <1>7, <4>1 DEF Ops, Ahead
        <5> QED BY <1>2, <1>3, <5>1 DEF DoneBefore
      <4>2. CASE i \notin rows
        BY <1>2, <1>3, <1>5, <4>2, OutOfRows
      <4> QED BY <4>1, <4>2
    <3> QED BY <1>2, <2>2, <3>1 DEF Kept
  <2>4. PICK next, zero : next = U!After(stage) /\ zero = 0
    OBVIOUS
  <2>5. stage \notin {"collections", "policy", "schedule"}
    BY <1>2 DEF RowStages
  <2>6. next \in U!Stage /\ DoneBefore(next, zero)'
    BY <1>2, <1>3, <2>2, <2>3, <2>4, <2>5, StageDone
  <2> DEFINE r == [proc[p] EXCEPT !.at = next, !.last = 0]
  <2>7. r \in Place /\ next = r.at /\ zero = r.last
    BY <1>3, <2>4, <2>6 DEF Place
  <2>8. proc' = [proc EXCEPT ![p] = r]
    BY <1>3, <2>1, <2>4 DEF U!Goes
  <2> HIDE DEF r
  <2>9. ScriptsFit'
    BY <1>1, <1>2, <2>1, <2>6, <2>7, <2>8, StageKeepsScripts
  <2>10. next # "up"
    BY <2>6 DEF U!Stage, U!Kinds
  <2> QED BY <1>2, <1>3, <2>1, <2>2, <2>6, <2>7, <2>8, <2>9, <2>10, WorkStep
<1>8. CASE ahead # {}
  <2>1. PICK m : m = CHOOSE i \in batch : \A j \in batch : j <= i
    OBVIOUS
  <2>2. /\ batch \subseteq rows /\ m \in Ops
        /\ \A i \in rows : i <= m => i <= last \/ i \in batch
    <3>1. rows \in SUBSET Ops /\ last \in Nat
      BY <1>3, <1>4, <1>5
    <3>2. ahead = Ahead(rows, last) /\ ahead # {} /\ batch = BatchOf(ahead)
      BY <1>5, <1>8
    <3>3. /\ batch \subseteq rows
          /\ \E x \in batch : \A j \in batch : j <= x
          /\ \A x \in batch : \A i \in rows : i <= x => i <= last \/ i \in batch
      BY <3>1, <3>2, BatchReaches
    <3>4. m \in batch
      BY <2>1, <3>3
    <3> QED BY <3>1, <3>3, <3>4
  <2>3. db' = U!Completed(stage, batch) /\ proc' = [proc EXCEPT ![p].last = m]
    BY <1>6, <1>8, <2>1
  <2>4. batch \in SUBSET Ops /\ batch \subseteq U!RowsOf(stage)
    BY <1>4, <1>5, <2>2
  <2>5. /\ db' \in Database /\ RowsFit' /\ Kept /\ db'.ran = db.ran
        /\ db'.marker = db.marker /\ \A i \in batch : Whole(stage, i)'
    BY <1>2, <1>3, <2>3, <2>4, BatchCompleted
  <2>6. ASSUME NEW i \in Ops, i <= m
        PROVE  Whole(stage, i)'
    <3>1. CASE i \in batch
      BY <2>5, <3>1
    <3>2. CASE i \notin batch
      <4>1. Whole(stage, i)
        <5>1. CASE i \in rows
          <6>1. i <= last
            BY <2>2, <2>6, <3>2, <5>1
          <6> QED BY <1>2, <1>3, <6>1 DEF DoneBefore
        <5>2. CASE i \notin rows
          BY <1>2, <1>3, <1>5, <5>2, OutOfRows
        <5> QED BY <5>1, <5>2
      <4> QED BY <1>2, <2>5, <4>1 DEF Kept
    <3> QED BY <3>1, <3>2
  <2>7. DoneBefore(stage, m)'
    <3>1. \A other \in RowStages : \A i \in Ops :
              stage \in Behind(other) \/ (stage = other /\ i <= m) => Whole(other, i)'
      <4> SUFFICES ASSUME NEW other \in RowStages, NEW i \in Ops,
                          stage \in Behind(other) \/ (stage = other /\ i <= m)
                   PROVE  Whole(other, i)'
        OBVIOUS
      <4>1. CASE stage \in Behind(other)
        <5>1. Whole(other, i)
          BY <1>3, <4>1 DEF DoneBefore
        <5> QED BY <2>5, <5>1 DEF Kept
      <4>2. CASE stage = other /\ i <= m
        BY <2>6, <4>2
      <4> QED BY <4>1, <4>2
    <3>2. /\ stage \in Behind("collections") => db'.collections
          /\ stage \in Behind("policy") => db'.policy \/ legacy.archived
          /\ stage \in Behind("schedule") => db'.schedule
      BY <1>2, <1>3, <2>5 DEF DoneBefore, Kept
    <3> QED BY <1>2, <3>1, <3>2 DEF DoneBefore
  <2> DEFINE r == [proc[p] EXCEPT !.last = m]
  <2>8. r \in Place /\ stage = r.at /\ m = r.last
    BY <1>1, <1>3, <2>2 DEF Place
  <2>9. proc' = [proc EXCEPT ![p] = r]
    BY <1>3, <2>3
  <2> HIDE DEF r
  <2>10. ScriptsFit'
    BY <1>1, <1>2, <2>5, <2>8, <2>9, StageKeepsScripts
  <2>11. stage # "up"
    BY <1>2 DEF RowStages
  <2> QED BY <1>2, <2>5, <2>7, <2>8, <2>9, <2>10, <2>11, WorkStep
<1> QED BY <1>7, <1>8

LEMMA MarkUpgrade ==
    ASSUME UpgradeInv, NEW p \in Process, U!Mark(p)
    PROVE  UpgradeInv'
<1>1. /\ proc[p].at = "mark" /\ "mark" \in U!Stage /\ UNCHANGED <<legacy, auto>>
      /\ db' = [db EXCEPT !.marker = TRUE] /\ gate' = Nobody
  BY DEF U!Mark, U!Stage
<1>2. /\ db \in Database /\ proc \in [Process -> Place] /\ proc[p] \in Place
      /\ RowsFit /\ DoneBefore("mark", proc[p].last)
  BY <1>1, OnStage
<1>3. /\ db' \in Database /\ db'.ran = db.ran /\ db'.marker = TRUE
      /\ db'.collections = db.collections /\ db'.filled = db.filled
      /\ db'.ai_run = db.ai_run /\ db'.named = db.named /\ db'.policy = db.policy
      /\ db'.checkpoint = db.checkpoint /\ db'.schedule = db.schedule
      /\ db'.owner = db.owner
  BY <1>1, <1>2 DEF Database
<1>4. RowsFit'
  <2>1. PolicyFits'
    BY <1>1, <1>2, <1>3 DEF RowsFit, PolicyFits
  <2> QED BY <1>1, <1>2, <1>3, <2>1, SameRows
<1>5. Kept
  BY <1>1, <1>3, SameRows DEF Kept
<1>6. PICK zero, last0 : zero = 0 /\ last0 = proc[p].last
  OBVIOUS
<1>7. DoneBefore("mark", zero)' /\ DoneBefore("mark", 0)'
  <2>1. DoneBefore("mark", zero)
    <3>1. DoneBefore("mark", last0)
      BY <1>2, <1>6
    <3>2. "mark" \notin RowStages /\ \A i \in Ops : ~(i <= 0)
      BY DEF RowStages, Ops
    <3> QED BY <1>6, <3>1, <3>2 DEF DoneBefore
  <2>2. DoneBefore("mark", zero)'
    BY <1>1, <1>5, <2>1 DEF Kept, DoneBefore
  <2> QED BY <1>6, <2>2
<1>8. PICK at \in {"down", "up"} : U!Goes(p, at)
  BY DEF U!Mark
<1> DEFINE r == [proc[p] EXCEPT !.at = at, !.last = 0]
<1>9. r \in Place /\ at = r.at /\ zero = r.last
  BY <1>2, <1>6 DEF Place
<1>10. proc' = [proc EXCEPT ![p] = r]
  BY <1>2, <1>8 DEF U!Goes
<1>11. DoneBefore(at, zero)'
  BY DEF DoneBefore, Behind, RowStages, U!Stage, U!Kinds
<1>12. ScriptsFit'
  <2>1. r.at \notin U!Stage
    BY <1>9 DEF U!Stage, U!Kinds
  <2> HIDE DEF r
  <2> QED BY <1>1, <1>3, <1>9, <1>10, <2>1, StageKeepsScripts
<1> HIDE DEF r
<1> QED BY <1>1, <1>3, <1>4, <1>5, <1>7, <1>9, <1>10, <1>11, <1>12, WorkStep

LEMMA NextUpgrade ==
    ASSUME UpgradeInv, [U!Next]_upgradeVars
    PROVE  UpgradeInv'
<1>1. CASE U!Next
  <2>1. PICK p \in Process :
            \/ U!Begin(p) \/ U!EnterGate(p) \/ U!Stop(p)
            \/ U!RunScript(p) \/ U!SchemaReady(p)
            \/ U!LookAtData(p) \/ U!Single(p) \/ U!Batch(p) \/ U!Mark(p)
    BY <1>1 DEF U!Next
  <2> QED BY <2>1, BeginUpgrade, EnterUpgrade, StopUpgrade, ScriptUpgrade,
             SchemaReadyUpgrade, LookUpgrade, SingleUpgrade, BatchUpgrade, MarkUpgrade
<1>2. CASE UNCHANGED upgradeVars
  <2>1. UNCHANGED <<legacy, auto, db, gate, proc>>
    BY <1>2 DEF upgradeVars
  <2>2. /\ (legacy \in U!Legacies)' /\ RowsFit' /\ (db.marker => DoneBefore("mark", 0))'
        /\ \A at, last : DoneBefore(at, last) => DoneBefore(at, last)'
    BY <2>1, RowsStay
  <2>3. ASSUME NEW p \in Process
        PROVE  DoneBefore(proc[p].at, proc[p].last)'
    <3>1. PICK at0, last0 : at0 = proc[p].at /\ last0 = proc[p].last
      OBVIOUS
    <3>2. DoneBefore(at0, last0)
      BY <3>1 DEF UpgradeInv, StagesFit
    <3>3. DoneBefore(at0, last0)' /\ proc'[p].at = at0 /\ proc'[p].last = last0
      BY <2>1, <2>2, <3>1, <3>2
    <3> QED BY <3>3 DEF DoneBefore, Whole
  <2>4. StagesFit'
    BY <2>1, <2>2, <2>3 DEF UpgradeInv, StagesFit
  <2>5. U!TypeOK' /\ ScriptsFit'
    BY <2>1 DEF UpgradeInv, U!TypeOK, ScriptsFit
  <2> QED BY <2>2, <2>4, <2>5 DEF UpgradeInv
<1> QED BY <1>1, <1>2

LEMMA InitUpgrade ==
    ASSUME U!Init
    PROVE  UpgradeInv
<1>1. legacy \in U!Legacies /\ auto \in BOOLEAN /\ gate = Nobody
      /\ proc = [p \in Process |-> U!Fresh("service", "down")]
  BY DEF U!Init
<1>2. /\ legacy.policy \in BOOLEAN /\ legacy.checkpoint \in BOOLEAN
      /\ legacy.archived \in BOOLEAN
  BY <1>1 DEF U!Legacies
<1>3. /\ db \in Database /\ db.marker = FALSE /\ db.named = {}
      /\ db.policy = legacy.policy /\ db.checkpoint = legacy.checkpoint
      /\ \A i \in Ops : db.ai_run[i] = None
      /\ \A x \in U!Kinds \X Ops : db.owner[x] = None
      /\ \A s \in 1..MaxScript : db.ran[s] \in {0, 1}
  <2>1. db = [ran |-> [s \in 1..MaxScript |-> IF s = 1 THEN 1 ELSE 0], collections |-> FALSE,
              filled |-> {}, ai_run |-> [i \in Ops |-> None], named |-> {},
              policy |-> legacy.policy, checkpoint |-> legacy.checkpoint, schedule |-> FALSE,
              owner |-> [x \in U!Kinds \X Ops |-> None], marker |-> FALSE]
    BY DEF U!Init, Ops
  <2>2. [s \in 1..MaxScript |-> IF s = 1 THEN 1 ELSE 0] \in [1..MaxScript -> 0..2]
    OBVIOUS
  <2>3. [x \in U!Kinds \X Ops |-> None] \in [U!Kinds \X Ops -> U!Owners]
    BY DEF U!Owners
  <2> QED BY <1>2, <2>1, <2>2, <2>3 DEF Database
<1>4. proc \in [Process -> Place] /\ \A p \in Process : proc[p].at = "down"
  <2>1. U!Fresh("service", "down") \in Place /\ U!Fresh("service", "down").at = "down"
    BY DEF U!Fresh, Place
  <2> QED BY <1>1, <2>1
<1>5. U!TypeOK
  BY <1>1, <1>3, <1>4 DEF U!TypeOK, Place, Database, Ops
<1>6. ScriptsFit
  BY <1>3, <1>4 DEF ScriptsFit
<1>7. RowsFit
  <2>1. ASSUME NEW i \in Ops
        PROVE  /\ db.owner[<<"run", i>>] = None /\ db.owner[<<"ai_run", i>>] = None
               /\ db.owner[<<"operation", i>>] = None
    BY <1>3 DEF U!Kinds
  <2>2. \A i \in Ops : RowFits(i)
    BY <1>3, <2>1 DEF RowFits
  <2>3. PolicyFits
    BY <1>2, <1>3 DEF PolicyFits
  <2> QED BY <2>2, <2>3 DEF RowsFit
<1>8. StagesFit
  BY <1>3, <1>4, NothingAsked DEF StagesFit
<1> QED BY <1>1, <1>5, <1>6, <1>7, <1>8 DEF UpgradeInv

\* Nothing is done twice, what serves finds the whole, and one AI run is under review.
LEMMA UpgradeOfInv == UpgradeInv => U!UpgradeSound
<1> SUFFICES ASSUME UpgradeInv
             PROVE  U!UpgradeSound
  OBVIOUS
<1>1. ScriptsFit /\ RowsFit /\ StagesFit /\ legacy \in U!Legacies /\ db \in Database
  BY DEF UpgradeInv, U!TypeOK, Database, Ops
<1>2. None # "source"
  BY RecordsAssumption DEF U!UpgradeAssumption
<1>3. U!NothingTwice
  <2>1. \A s \in 1..MaxScript : db.ran[s] <= 1
    BY <1>1 DEF ScriptsFit
  <2>2. ASSUME NEW i \in Ops
        PROVE  \/ db.owner[<<"operation", i>>] \in {None, db.owner[<<U!Made(i), i>>]}
               \/ db.owner[<<U!Made(i), i>>] = None
    <3>1. /\ db.owner[<<"operation", i>>] \in {None, OpOwner(i)}
          /\ db.owner[<<"operation", i>>] # None => db.owner[<<U!Made(i), i>>] = MadeOwner(i)
      BY <1>1 DEF RowsFit, RowFits
    <3> QED BY <3>1 DEF OpOwner
  <2> QED BY <2>1, <2>2 DEF U!NothingTwice, Ops
<1>4. ASSUME U!Serving
      PROVE  /\ \A s \in 1..MaxScript : db.ran[s] = 1
             /\ db.collections /\ db.schedule /\ db.filled = Ops
             /\ db.policy = (legacy.policy \/ ~legacy.archived)
             /\ db.checkpoint = (legacy.checkpoint /\ (legacy.policy \/ legacy.archived))
             /\ db.named = U!Explores
             /\ \A i \in Ops : i \in U!Explores <=> db.ai_run[i] # None
             /\ \A i \in Ops : \/ db.owner[<<"operation", i>>] # None
                               \/ legacy.moved /\ db.owner[<<U!Made(i), i>>] = None
  <2>1. PICK p \in Process : proc[p].at = "up"
    BY <1>4 DEF U!Serving
  <2>2. db.marker /\ \A s \in 1..MaxScript : db.ran[s] = 1
    BY <1>1, <2>1 DEF StagesFit, ScriptsFit
  <2>3. DoneBefore("mark", 0)
    BY <1>1, <2>2 DEF StagesFit
  <2>4. /\ "mark" \in Behind("collections") /\ "mark" \in Behind("policy")
        /\ "mark" \in Behind("schedule") /\ \A stage \in RowStages : "mark" \in Behind(stage)
    BY DEF Behind, RowStages, U!Stage, U!Kinds
  <2>5. /\ db.collections /\ (db.policy \/ legacy.archived) /\ db.schedule
        /\ \A stage \in RowStages : \A i \in Ops : Whole(stage, i)
    BY <2>3, <2>4 DEF DoneBefore
  <2>6. /\ "payloads" \in RowStages /\ "ai_runs" \in RowStages /\ "operation" \in RowStages
    BY DEF RowStages
  <2>7. \A i \in Ops : i \in db.filled /\ (i \in U!Explores => db.ai_run[i] # None)
                       /\ db.owner[<<"operation", i>>] = OpOwner(i)
    BY <2>5, <2>6 DEF Whole
  <2>8. db.filled = Ops
    BY <1>1, <2>7 DEF Database
  <2>9. \A i \in Ops : i \in U!Explores <=> db.ai_run[i] # None
    BY <1>1, <2>7 DEF RowsFit, RowFits
  <2>10. db.named = U!Explores
    BY <1>1, <2>9, LegacyTells DEF RowsFit, RowFits, Database
  <2>11. /\ db.policy = (legacy.policy \/ ~legacy.archived)
         /\ db.checkpoint = (legacy.checkpoint /\ (legacy.policy \/ legacy.archived))
    <3>1. /\ legacy.policy => db.policy
          /\ legacy.archived /\ ~legacy.policy => ~db.policy
          /\ db.checkpoint = (legacy.checkpoint /\ (legacy.policy \/ ~db.policy))
      BY <1>1 DEF RowsFit, PolicyFits
    <3>2. /\ legacy.policy \in BOOLEAN /\ legacy.archived \in BOOLEAN
          /\ legacy.checkpoint \in BOOLEAN /\ db.policy \in BOOLEAN
      BY <1>1 DEF U!Legacies, Database
    <3> QED BY <2>5, <3>1, <3>2
  <2>12. ASSUME NEW i \in Ops
         PROVE  \/ db.owner[<<"operation", i>>] # None
                \/ legacy.moved /\ db.owner[<<U!Made(i), i>>] = None
    <3>1. db.owner[<<"operation", i>>] = OpOwner(i)
      BY <2>7
    <3>2. db.owner[<<U!Made(i), i>>] \in {None, MadeOwner(i)}
      <4>1. db.owner[<<"run", i>>] \in {None, RunOwner} /\ db.owner[<<"ai_run", i>>] \in {None, AiOwner(i)}
        BY <1>1 DEF RowsFit, RowFits
      <4> QED BY <1>1, <4>1, LegacyTells DEF MadeOwner
    <3> QED BY <1>2, <3>1, <3>2 DEF OpOwner
  <2> QED BY <2>2, <2>5, <2>8, <2>9, <2>10, <2>11, <2>12
<1>5. U!UpgradeWhole
  BY <1>4 DEF U!UpgradeWhole, Ops
<1>6. U!OneReviewed
  <2>1. ASSUME NEW i \in Ops, db.ai_run[i] # None,
               db.ai_run[i].review \in {"ready_review", "published"}
        PROVE  /\ \A j \in U!Explores : legacy.op[j].born <= legacy.op[i].born
               /\ legacy.op[i].status = "succeeded" /\ legacy.status = db.ai_run[i].review
    <3>1. db.ai_run[i] = U!AiRun(i)
      BY <1>1, <2>1 DEF RowsFit, RowFits
    <3>2. legacy.op[i].status \in {"queued", "succeeded", "failed"}
      BY <1>1 DEF U!Legacies, Ops
    <3>3. CASE legacy.op[i].status \in {"queued", "failed"}
      BY <2>1, <3>1, <3>3 DEF U!AiRun
    <3>4. CASE legacy.op[i].status = "succeeded"
      <4>1. U!AiRun(i).review = IF U!Latest(i) /\ legacy.status # "draft"
                                THEN legacy.status ELSE "superseded"
        BY <3>4 DEF U!AiRun
      <4> QED BY <2>1, <3>1, <3>4, <4>1 DEF U!Latest
    <3> QED BY <3>2, <3>3, <3>4
  <2> QED BY <2>1 DEF U!OneReviewed, Ops
<1> QED BY <1>3, <1>5, <1>6 DEF U!UpgradeSound

-----------------------------------------------------------------------------
(* The parts together *)

\* A step moves one part by its next-state relation, and the others not at all.
LEMMA PartsStep ==
    ASSUME [MCNext]_MCVars
    PROVE  /\ [Next]_vars /\ [U!Next]_upgradeVars /\ [E!Next]_evidenceVars
           /\ [A!Next]_activityVars /\ [K!Next]_keyVars
           /\ UNCHANGED part
<1>1. CASE SourceNext
  BY <1>1 DEF SourceNext
<1>2. CASE UpgradeNext
  BY <1>2 DEF UpgradeNext
<1>3. CASE EvidenceNext
  BY <1>3 DEF EvidenceNext
<1>4. CASE ActivityNext
  BY <1>4 DEF ActivityNext
<1>5. CASE KeysNext
  BY <1>5 DEF KeysNext
<1>6. CASE UNCHANGED MCVars
  BY <1>6 DEF MCVars
<1> QED BY <1>1, <1>2, <1>3, <1>4, <1>5, <1>6 DEF MCNext

PartsInv == part \in {"source", "upgrade", "evidence", "activity", "keys"}
            /\ MInv /\ UpgradeInv /\ EvidenceInv /\ ActivityInv /\ KeysInv

\* The inductive invariants of all parts hold at once: of the source and its history,
\* of a migration of the data, of raw evidence, of an exploration's trail and of the
\* instance's keys.
THEOREM RecordsAgree == MCSpec => []PartsInv
<1>1. MCInit => PartsInv
  <2> SUFFICES ASSUME MCInit PROVE PartsInv
    OBVIOUS
  <2>1. part \in {"source", "upgrade", "evidence", "activity", "keys"}
        /\ Init /\ U!Init /\ E!Init /\ A!Init /\ K!Init
    BY DEF MCInit
  <2> QED BY <2>1, InitMInv, InitUpgrade, InitEvidence, InitActivity, InitKeys DEF PartsInv
<1>2. PartsInv /\ [MCNext]_MCVars => PartsInv'
  <2> SUFFICES ASSUME PartsInv, [MCNext]_MCVars PROVE PartsInv'
    OBVIOUS
  <2>1. /\ [Next]_vars /\ [U!Next]_upgradeVars /\ [E!Next]_evidenceVars
        /\ [A!Next]_activityVars /\ [K!Next]_keyVars /\ UNCHANGED part
    BY PartsStep
  <2>2. MInv'
    BY <2>1, NextMInv DEF PartsInv
  <2>3. UpgradeInv'
    BY <2>1, NextUpgrade DEF PartsInv
  <2>4. EvidenceInv'
    BY <2>1, NextEvidence DEF PartsInv
  <2>5. ActivityInv'
    BY <2>1, NextActivity DEF PartsInv
  <2>6. KeysInv'
    BY <2>1, NextKeys DEF PartsInv
  <2> QED BY <2>1, <2>2, <2>3, <2>4, <2>5, <2>6 DEF PartsInv
<1> QED BY <1>1, <1>2, PTL DEF MCSpec

\* Every variable of every part has its type.
THEOREM RecordsTyped == MCSpec => []AllTypesOK
<1>1. ASSUME PartsInv PROVE AllTypesOK
  <2>1. TypeOK /\ U!TypeOK /\ E!TypeOK /\ A!TypeOK /\ K!TypeOK
    BY <1>1 DEF PartsInv, MInv, UpgradeInv, EvidenceInv, ActivityInv, KeysInv
  <2> QED BY <1>1, <2>1 DEF AllTypesOK, PartsInv
<1> QED BY <1>1, RecordsAgree, PTL

\* However often a migration of the data dies and begins again, by one process or
\* several (initialize, store_backfills.py): what serves finds the database as one
\* undisturbed migration leaves it, no script ran twice, an operation and what it
\* made have one owner, and never is more than one AI run of a source under review
\* or published.
THEOREM MigrationOfDataSound == MCSpec => []UpgradeSound
<1>1. PartsInv => UpgradeSound
  BY UpgradeOfInv DEF PartsInv, UpgradeSound
<1> QED BY <1>1, RecordsAgree, PTL

\* A committed snapshot (publish_result, commit_run_result) stays what was committed,
\* and a reader of it is told no more and no less; the phases, the end and the bill
\* of an exploration are those of the workers that had it.
THEOREM TrailIsTrue == MCSpec => []TrailTruthful
<1>1. PartsInv => TrailTruthful
  BY EvidenceTold, ActivityTold DEF PartsInv, TrailTruthful
<1> QED BY <1>1, RecordsAgree, PTL

\* Whatever is created, rotated, lost, backed up and restored, in whatever order and
\* with a death between any two steps: what the database holds can be decrypted with
\* the keyring there is, and no process lives on half of a restore.
THEOREM InstanceStaysSound == MCSpec => []InstanceSound
<1>1. PartsInv => InstanceSound
  BY InstanceOfInv DEF PartsInv, InstanceSound
<1> QED BY <1>1, RecordsAgree, PTL

\* No step but a loss replaces a key file by a new one, and no run is committed under
\* a signing key that was withdrawn since its rule was signed.
THEOREM KeysStaySound == MCSpec => KeysSound
<1>1. PartsInv /\ [MCNext]_MCVars => [KeysStay]_keyVars
  <2> SUFFICES ASSUME PartsInv, [MCNext]_MCVars PROVE [KeysStay]_keyVars
    OBVIOUS
  <2>1. [K!Next]_keyVars /\ KeysInv
    BY PartsStep DEF PartsInv
  <2> QED BY <2>1, NextKeysStay
<1>2. PartsInv /\ [MCNext]_MCVars => [CommitTrusted]_keyVars
  <2> SUFFICES ASSUME PartsInv, [MCNext]_MCVars PROVE [CommitTrusted]_keyVars
    OBVIOUS
  <2>1. [K!Next]_keyVars /\ KeysInv
    BY PartsStep DEF PartsInv
  <2> QED BY <2>1, NextCommitTrusted
<1>3. MCSpec => [][KeysStay]_keyVars /\ [][CommitTrusted]_keyVars
  BY <1>1, <1>2, RecordsAgree, PTL DEF MCSpec
<1>4. [][KeysStay]_keyVars => K!NeverReplaced
  BY PTL DEF KeysStay, K!NeverReplaced, keyVars, K!vars
<1>5. [][CommitTrusted]_keyVars => K!CommittedUnderTrust
  BY PTL DEF CommitTrusted, K!CommittedUnderTrust, keyVars, K!vars
<1> QED BY <1>3, <1>4, <1>5 DEF KeysSound
=============================================================================
