-------------------------------- MODULE Items --------------------------------
(***************************************************************************)
(* What runs observe and readers see.  A run reads the detail pages of its  *)
(* collector, decides which are accepted, compares each with the latest     *)
(* accepted observation of the same entity and commits the rows, with the   *)
(* deliveries of what is new or updated.  Other collectors commit meanwhile, *)
(* workers are overtaken, and a reader pages through the rows by cursor.    *)
(***************************************************************************)
EXTENDS Integers, Sequences, SequencesExt, FiniteSets

CONSTANTS Collector,
          Url,         \* detail pages of a source, numbers; also their keys
          NoCode,      \* a page that does not show its identity fields
          Shows,       \* what each page may show: its code, the rest, valid or not
          PageSize,    \* rows a reader asks for at once
          MaxRuns,     \* bound: runs
          MaxClaims,   \* bound: claims of a run
          MaxReads,    \* bound: times any run reads its pages
          MaxMinutes   \* bound: minutes of the clock

\* Keys and values are numbers, a page of rows holds at least one (app.list_items), and
\* of a source finitely many pages are read.
ItemsAssumption ==
    /\ Collector # {} /\ IsFiniteSet(Url) /\ Url \subseteq Nat
    /\ Shows \in [Collector \X Url -> SUBSET [code : Nat, value : Nat, valid : BOOLEAN]]
    /\ PageSize \in Nat \ {0}
    /\ MaxRuns \in Nat /\ MaxClaims \in Nat /\ MaxMinutes \in Nat

VARIABLES now,       \* the clock, in minutes
          runs,      \* rows of runs
          items,     \* rows of items, in the order they were written
          events,    \* the deliveries enqueued, as numbers of rows
          reader     \* a reader under way, or done

itemVars == <<now, runs, items, events, reader>>

-----------------------------------------------------------------------------
Run    == 1..MaxRuns     \* ids, in no order a reader could rely on
Claim  == 1..MaxClaims
Minute == 0..MaxMinutes
Row    == 1..Len(items)

\* The members of a finite set of numbers, in order.
InOrder(S) == [n \in 1..Cardinality(S) |->
                  CHOOSE i \in S : Cardinality({j \in S : j < i}) = n - 1]

\* Pages not read yet; a run that reads none writes nothing, and is left out.
Unread == <<>>

\* The identity of an entity: its identity fields, or the page it was found on.
Key(u, page) == IF page.code = NoCode THEN u ELSE page.code

Item == [run : Run, collector : Collector, key : Nat, url : Url, value : Nat,
         observed : Minute, decision : {"accepted", "rejected"},
         change : {"new", "updated", "unchanged", "none"}, revision : Nat]

TypeOK ==
    /\ now \in Minute
    /\ \A r \in Run :
          /\ runs[r].status \in {"absent", "live", "done", "failed", "cancelled"}
          /\ runs[r].collector \in Collector /\ runs[r].targets \subseteq Url
          /\ runs[r].claim \in 0..MaxClaims
          /\ \A n \in Claim : Range(runs[r].found[n]) \subseteq Item
    /\ Range(items) \subseteq Item
    /\ Range(events) \subseteq Row
    /\ reader.state \in {"none", "reading", "done"}
    /\ reader.view \in {"observations", "entities"}
    /\ Range(reader.seen) \subseteq Row /\ reader.first \subseteq Row

-----------------------------------------------------------------------------
(* Faults: definitions below as a plausible mistake would have written them. *)

\* Fault in Later: rows of one minute are told apart by their random id.
LaterById(i, j) == \/ items[i].observed > items[j].observed
                   \/ items[i].observed = items[j].observed /\ items[i].run > items[j].run

\* The rows of an entity, by collector and key.
Of(c, k) == {i \in Row : items[i].collector = c /\ items[i].key = k}

\* Fault in Previous: a rejected observation counts as well.
PreviousAny(c, k) == Of(c, k)

\* Fault in Before: a cursor of the minute alone.
BeforeMinute(i, at) == at = <<>> \/ items[i].observed < at[1]

\* Fault in Deliverable: only what is new.
DeliverableNew(item) == item.decision = "accepted" /\ item.change = "new"

\* Fault in MayCommit: whoever has read the pages commits them.
MayCommitUnfenced(r, n) == runs[r].found[n] # Unread

-----------------------------------------------------------------------------
(* The latest observation of an entity *)

\* Row i is later than row j: by the minute it was observed in, then as it was written.
Later(i, j) == \/ items[i].observed > items[j].observed
               \/ items[i].observed = items[j].observed /\ i > j

LatestOf(rows) == CHOOSE i \in rows : \A j \in rows \ {i} : Later(i, j)

\* What a run compares with: the accepted observations of the entity.
Previous(c, k) == {i \in Of(c, k) : items[i].decision = "accepted"}

\* classify_items: new, updated or unchanged, and the revision that makes.
Classified(item) ==
    LET before == Previous(item.collector, item.key)
        last   == items[LatestOf(before)]
    IN  IF item.decision = "rejected" THEN item
        ELSE IF before = {} THEN [item EXCEPT !.change = "new", !.revision = 1]
        ELSE IF last.value # item.value
             THEN [item EXCEPT !.change = "updated", !.revision = last.revision + 1]
        ELSE [item EXCEPT !.change = "unchanged", !.revision = last.revision]

\* make_item: what the page shows, accepted if nothing required is missing.
Made(r, u, page) ==
    [run |-> r, collector |-> runs[r].collector, key |-> Key(u, page), url |-> u,
     value |-> page.value, observed |-> now,
     decision |-> IF page.valid THEN "accepted" ELSE "rejected",
     change |-> "none", revision |-> 0]

-----------------------------------------------------------------------------
(* Views *)

\* The latest observation of each entity, whatever was decided about it.
Entities == {i \in Row : \A j \in Of(items[i].collector, items[i].key) \ {i} : Later(i, j)}

\* The rows of a view.  Entities are ranked first and filtered then: an accepted
\* observation does not stand for an entity that was rejected since.
View(view) == IF view = "observations" THEN Row
              ELSE {i \in Entities : items[i].decision = "accepted"}

\* The position of a row: observedAt, entityKey, id, all descending.
Position(i) == <<items[i].observed, items[i].key, items[i].run>>

\* The position p comes after q.
Behind(p, q) == \/ p[1] < q[1]
                \/ p[1] = q[1] /\ p[2] < q[2]
                \/ p[1] = q[1] /\ p[2] = q[2] /\ p[3] < q[3]

\* A row is behind the cursor.
Before(i, at) == at = <<>> \/ Behind(Position(i), at)

\* Rows in the order they are returned in.
Sorted(rows) ==
    [n \in 1..Cardinality(rows) |->
        CHOOSE i \in rows :
            Cardinality({j \in rows : Behind(Position(i), Position(j))}) = n - 1]

\* Entities of a collector that wait for review.
Backlog(c) == {i \in Entities : items[i].collector = c /\ items[i].decision = "rejected"}

-----------------------------------------------------------------------------
NoReader == [state |-> "none", view |-> "observations", at |-> <<>>,
             seen |-> <<>>, first |-> {}]

NoRun == [status |-> "absent", collector |-> CHOOSE c \in Collector : TRUE,
          targets |-> {}, claim |-> 0, found |-> [n \in Claim |-> Unread]]

Init ==
    /\ now = 0
    /\ runs = [r \in Run |-> NoRun]
    /\ items = <<>> /\ events = <<>>
    /\ reader = NoReader

Tick == /\ now < MaxMinutes
        /\ now' = now + 1
        /\ UNCHANGED <<runs, items, events, reader>>

Starts(c, targets) ==
    /\ \A r \in Run : ~(runs[r].status = "live" /\ runs[r].collector = c)
    /\ \E r \in Run : /\ runs[r].status = "absent"
                      /\ runs' = [runs EXCEPT ![r] = [NoRun EXCEPT !.status = "live",
                                                        !.collector = c, !.targets = targets]]
    /\ UNCHANGED <<now, items, events, reader>>

\* A run of the list as it is.
Start(c) == Starts(c, Url)

\* reprocess_rejected: a run of the pages that wait for review.
Reprocess(c) == /\ Backlog(c) # {}
                /\ Starts(c, {items[i].url : i \in Backlog(c)})

\* A worker claims the run, for the first time or from one that is lost, reads what
\* its pages show now, those that can be read, and compares it with what is known.
Fetch(r) ==
    /\ runs[r].status = "live" /\ runs[r].claim < MaxClaims
    /\ Cardinality({p \in Run \X Claim : p[2] <= runs[p[1]].claim}) < MaxReads
    /\ \E read \in SUBSET runs[r].targets \ {{}} :
       \E shown \in [read -> UNION {Shows[<<runs[r].collector, u>>] : u \in read}] :
          /\ \A u \in read : shown[u] \in Shows[<<runs[r].collector, u>>]
          /\ LET urls  == InOrder(read)
                 batch == [k \in DOMAIN urls |-> Classified(Made(r, urls[k], shown[urls[k]]))]
             IN  runs' = [runs EXCEPT ![r].claim = @ + 1, ![r].found[runs[r].claim + 1] = batch]
    /\ UNCHANGED <<now, items, events, reader>>

-----------------------------------------------------------------------------
\* owned_transaction: the claim still holds the run.
MayCommit(r, n) == /\ runs[r].status = "live" /\ runs[r].claim = n
                   /\ runs[r].found[n] # Unread

Ended(r, status) == [NoRun EXCEPT !.status = status, !.claim = runs[r].claim]

\* The id of a row is its run and its key, and ids are unique.
IdsDiffer(batch) == \A k, l \in DOMAIN batch : k # l => batch[k].key # batch[l].key

\* enqueue_run_deliveries: accepted, and new or updated.
Deliverable(item) == item.decision = "accepted" /\ item.change \in {"new", "updated"}

\* save_items: the rows of the run are replaced.
Written(r, batch) ==
    LET kept == InOrder({i \in Row : items[i].run # r})
    IN  [k \in DOMAIN kept |-> items[kept[k]]] \o batch

\* The run is finalized: its rows, its deliveries and its end, in one transaction.
Commit(r, n) ==
    LET batch == runs[r].found[n]
    IN  /\ MayCommit(r, n) /\ IdsDiffer(batch)
        /\ runs'  = [runs EXCEPT ![r].status = "done", ![r].found[n] = Unread]
        /\ items' = Written(r, batch)
        /\ events' = events \o InOrder({i \in DOMAIN items' : /\ i > Len(items') - Len(batch)
                                                             /\ Deliverable(items'[i])})
        /\ UNCHANGED <<now, reader>>

\* Two pages of one entity: the insertion is refused, and the run fails for it.
Collide(r, n) == /\ MayCommit(r, n) /\ ~IdsDiffer(runs[r].found[n])
                 /\ runs' = [runs EXCEPT ![r] = Ended(r, "failed")]
                 /\ UNCHANGED <<now, items, events, reader>>

\* It is cancelled, or fails for another reason.
Cancel(r) == /\ runs[r].status = "live"
             /\ runs' = [runs EXCEPT ![r] = Ended(r, "cancelled")]
             /\ UNCHANGED <<now, items, events, reader>>

-----------------------------------------------------------------------------
\* A reader begins, of all observations or of the accepted entities.
Open(view) ==
    /\ reader = NoReader
    /\ items # <<>>
    /\ reader' = [reader EXCEPT !.state = "reading", !.view = view, !.first = View(view)]
    /\ UNCHANGED <<now, runs, items, events>>

\* list_items_cursor: the next page, until there is nothing behind it.
Read ==
    LET behind == {i \in View(reader.view) : Before(i, reader.at)}
        more   == Cardinality(behind) > PageSize
        rows   == IF more THEN SubSeq(Sorted(behind), 1, PageSize) ELSE Sorted(behind)
    IN  /\ reader.state = "reading"
        /\ reader' = [reader EXCEPT
              !.seen  = @ \o rows,
              !.at    = IF more THEN Position(Last(rows)) ELSE <<>>,
              !.state = IF more THEN "reading" ELSE "done"]
        /\ UNCHANGED <<now, runs, items, events>>

\* iter_items_export: the whole view, by one statement.
Export == /\ reader.state = "reading" /\ reader.at = <<>>
          /\ reader' = [reader EXCEPT !.seen = Sorted(View(reader.view)),
                                      !.state = "done"]
          /\ UNCHANGED <<now, runs, items, events>>

\* Bounds: a reader begins once there is more than a page; while it is on its way, what
\* happens is the commits of runs that have read their pages, so no other is begun; and
\* after it nothing.
HasRead(r) == runs[r].status = "live" => runs[r].claim > 0

Next ==
    \/ /\ reader.state = "none"
       /\ \/ Tick
          \/ \E c \in Collector : Start(c) \/ Reprocess(c)
          \/ \E r \in Run : Fetch(r) \/ Cancel(r)
          \/ \E r \in Run, n \in Claim : Collide(r, n)
          \/ /\ Len(items) > PageSize /\ \A r \in Run : HasRead(r)
             /\ \E view \in {"observations", "entities"} : Open(view)
    \/ /\ reader.state # "done"
       /\ Read \/ Export \/ \E r \in Run, n \in Claim : Commit(r, n)

Spec == Init /\ [][Next]_itemVars

-----------------------------------------------------------------------------
(* Properties *)

\* The rows of what was accepted of an entity, in the order they were written.
Accepted(c, k) == InOrder({i \in Of(c, k) : items[i].decision = "accepted"})

\* The rows of it that were delivered, in the order of the deliveries.
Delivered(c, k) ==
    LET places == InOrder({e \in DOMAIN events : events[e] \in Of(c, k)})
    IN  [n \in DOMAIN places |-> events[places[n]]]

Keys == {items[i].key : i \in Row}

\* Revisions count the values an entity has had: the first observation is new, each
\* later one is an update by one exactly when it differs from the one before, over
\* overtaken workers, runs of one minute and pages rejected in between.
RevisionsChain ==
    \A c \in Collector, k \in Keys :
        LET seen == Accepted(c, k)
        IN  \A n \in DOMAIN seen :
              LET item == items[seen[n]]
                  last == items[seen[n - 1]]
              IN  IF n = 1 THEN item.change = "new" /\ item.revision = 1
                  ELSE IF item.value = last.value
                       THEN item.change = "unchanged" /\ item.revision = last.revision
                  ELSE item.change = "updated" /\ item.revision = last.revision + 1

\* Whoever takes the deliveries in order has the latest accepted value of every
\* entity, was told nothing twice in a row, and counts its revisions.
FeedComplete ==
    \A c \in Collector, k \in Keys :
        LET seen == Accepted(c, k)
            told == Delivered(c, k)
        IN  /\ seen # <<>> => /\ told # <<>>
                              /\ items[Last(told)].value = items[Last(seen)].value
                              /\ Len(told) = items[Last(seen)].revision
            /\ \A n \in 2..Len(told) : items[told[n]].value # items[told[n - 1]].value

\* A walk by cursor, or an export, returns every row there from its start to its end
\* once, in order, while others commit; among entities, those that did not change.
WalkExact ==
    /\ \A n \in 2..Len(reader.seen) :
          Behind(Position(reader.seen[n]), Position(reader.seen[n - 1]))
    /\ reader.state = "done" =>
          reader.first \cap View(reader.view) \subseteq Range(reader.seen)

\* docs/runtime-contract.md:173: candidates of one entity in a run are merged, or
\* rejected together when they differ; no run is lost to them.
DuplicatesMerged == \A r \in Run : runs[r].status # "failed"
=============================================================================
