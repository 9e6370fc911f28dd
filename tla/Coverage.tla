------------------------------- MODULE Coverage -------------------------------
(***************************************************************************)
(* How far a collector has read its source.  A run reads a list page after  *)
(* page, newest first, until a limit, the end of the list or pages older    *)
(* than its window; what it could not finish is continued by the next run   *)
(* from the last page it read, and only a traversal that was completed      *)
(* moves the checkpoint from which later windows are computed.              *)
(*                                                                          *)
(* The list changes meanwhile: records are published at its head or, some   *)
(* days late, inside it, and removed between runs.  Extraction, browsers    *)
(* and hosts are left out: a page is the records it shows, a record is      *)
(* accepted or rejected.  Who may run when is JobControl.                   *)
(***************************************************************************)
EXTENDS Integers, Sequences, SequencesExt, FiniteSets, FiniteSetsExt

CONSTANTS PageSize,        \* records the source shows on a page
          MaxPages,        \* maxPages: pages one run reads
          MaxItems,        \* maxItems: details one run fetches
          OlderPages,      \* consecutiveOlderPages
          InitialWindow,   \* initialWindowDays
          Lookback,        \* lookbackDays
          FirstDates,      \* dates of the list at the start, newest first
          StartsObserved,  \* checkpointMode of the first policy is "observed"
          MaxDay,          \* bound: days that pass
          MaxPublished,    \* bound: records published, the first ones included
          MaxSlow,         \* bound: days between what a slow command reads and its run
          MaxFaults,       \* bound: changes of rule or policy, rejections, pages of
                           \* records that leave, slow commands, failed or limited runs
          None             \* no progress, no checkpoint, no anchor

ASSUME LimitAssumption ==
    /\ PageSize \in Nat \ {0} /\ MaxPages \in Nat \ {0} /\ MaxItems \in Nat \ {0}
    /\ OlderPages \in Nat \ {0} /\ InitialWindow \in Nat /\ Lookback \in Nat
    /\ MaxDay \in Nat /\ MaxPublished \in Nat /\ MaxSlow \in Nat /\ MaxFaults \in Nat

\* A list with something on it, newest first.
ASSUME FirstAssumption ==
    /\ FirstDates \in Seq(1..MaxDay)
    /\ Len(FirstDates) \in 1..MaxPublished
    /\ \A i, j \in DOMAIN FirstDates : i <= j => FirstDates[i] >= FirstDates[j]
    /\ StartsObserved \in BOOLEAN

ASSUME NoneAssumption == None \notin 1..MaxPublished

VARIABLES today,      \* the calendar
          source,     \* the list, newest first
          published,  \* records published so far
          collector,  \* the collector row and its checkpoint row
          snapshot,   \* what a slow create_run_operation has read, and when, or None
          run,        \* the active run: its row and what the runtime holds
          kept,       \* rows of items: for which policy and rule a record was
                      \* persisted as that policy asks: in the strict mode, accepted
          backlog,    \* records whose latest decision is a rejection
          faults,     \* what went wrong so far
          skipped     \* history: days the look-back asks for that an initial window
                      \* of the policy did not reach

vars == <<today, source, published, collector, snapshot, run, kept, backlog,
          faults, skipped>>

-----------------------------------------------------------------------------
Day      == 0..MaxDay
NoDate   == 0
RecordId == 1..MaxPublished
Context  == 1..(MaxFaults + 1)

Record == [id : RecordId, date : Day]

\* progress_record.
Progress == [rule : Context, policy : Context, window : Int, page : Nat,
             anchor : RecordId, processed : SUBSET RecordId, older : Nat,
             watermark : Day, complete : BOOLEAN, overlap : SUBSET RecordId]

\* checkpoint_after; since is history: from where on the runs read that led here.
Checkpoint == [rule : Context, policy : Context, watermark : Int, since : Int]

\* The collector: its rule, its policy and the policy's mode, how far it has read.
Row == [rule : Context, policy : Context, observed : BOOLEAN,
        progress : Progress \cup {None}, checkpoint : Checkpoint \cup {None}]

StopReason == {"none", "not_applicable", "max_pages", "max_items",
               "next_link_exhausted", "time_window_reached", "checkpoint_reached",
               "coverage_order_unverified", "source_structure_mismatch",
               "source_rate_limited", "detail_fetch_incomplete"}

RunType == [pc         : {"idle", "listing", "details", "finishing"},
            retry      : BOOLEAN,
            rule       : Context,
            policy     : Context,
            observed   : BOOLEAN,
            window     : Int,
            checkpoint : Checkpoint \cup {None},
            before     : Progress \cup {None},
            resume     : Progress \cup {None},
            seeking    : RecordId \cup {None},
            page       : Nat,
            read       : 0..MaxPages,
            pagesSeen  : SUBSET Seq(RecordId),
            found      : Seq(RecordId),
            older      : Nat,
            watermark  : Day,
            oldest     : Day,
            stop       : StopReason,
            progress   : Progress \cup {None},
            complete   : BOOLEAN]

\* The types, and the limits of a run.
TypeOK ==
    /\ today \in Day
    /\ source \in Seq(Record)
    /\ published \in 0..MaxPublished
    /\ collector \in Row
    /\ snapshot \in [day : Day, row : Row] \cup {None}
    /\ run \in RunType
    /\ Len(run.found) <= MaxItems
    /\ kept \in [RecordId -> SUBSET [policy : Context, rule : Context]]
    /\ backlog \subseteq RecordId
    /\ faults \in 0..MaxFaults
    /\ skipped \subseteq Day

NoRun == [pc |-> "idle", retry |-> FALSE, rule |-> 1, policy |-> 1,
          observed |-> FALSE, window |-> 0, checkpoint |-> None, before |-> None,
          resume |-> None, seeking |-> None, page |-> 0, read |-> 0,
          pagesSeen |-> {}, found |-> <<>>, older |-> 0, watermark |-> NoDate,
          oldest |-> NoDate, stop |-> "none", progress |-> None, complete |-> FALSE]

\* The elements of s at the places in I, in their order.
Picked(s, I) ==
    [n \in 1..Cardinality(I) |-> s[CHOOSE i \in I : Cardinality({j \in I : j <= i}) = n]]

Ids(page)   == [i \in DOMAIN page |-> page[i].id]
IdSet(page) == ToSet(Ids(page))
DaysOf(S)   == {r.date : r \in S}

-----------------------------------------------------------------------------
(* Faults: definitions below as a plausible mistake would have written them. *)

\* Cut: the limit of items is looked at after the page only.
CutWholePage(page) == Len(page)

\* EndListing: a run that never came to the anchor counts as continued.
EndListingUnanchored(r, reason) ==
    [r EXCEPT !.pc = "details", !.stop = reason,
              !.complete = run.observed /\ ~run.retry /\ reason \in
                  {"next_link_exhausted", "time_window_reached", "checkpoint_reached"},
              !.progress = IF reason \in {"max_items", "max_pages"} THEN r.progress
                                                                 ELSE None]

\* ResumedPage: the traversal goes on behind the page it stopped at.
ResumedPageBehind(progress) == progress.page + 1

-----------------------------------------------------------------------------
(* The source *)

Init ==
    /\ today     = Max(ToSet(FirstDates))
    /\ source    = [i \in DOMAIN FirstDates |-> [id |-> i, date |-> FirstDates[i]]]
    /\ published = Len(FirstDates)
    /\ collector = [rule |-> 1, policy |-> 1, observed |-> StartsObserved,
                    progress |-> None, checkpoint |-> None]
    /\ snapshot  = None
    /\ run       = NoRun
    /\ kept      = [r \in RecordId |-> {}]
    /\ backlog   = {}
    /\ faults    = 0
    /\ skipped   = {}

\* The list stays in the order of its dates; a record may be up to lookbackDays
\* late, which is what the look-back is there for.
Publish ==
    /\ published < MaxPublished
    /\ \E day \in {d \in Day \ {NoDate} : d \in (today - Lookback)..today} :
         LET newer == Cardinality({i \in DOMAIN source : source[i].date > day})
         IN  source' = InsertAt(source, newer + 1, [id |-> published + 1, date |-> day])
    /\ published' = published + 1
    /\ UNCHANGED <<today, collector, snapshot, run, kept, backlog, faults, skipped>>

\* As many records as a page shows, so that what follows moves to another page.
\* Between runs only: what leaves the list between two requests of one run
\* moves the rest forward unseen, and no reader of pages can tell.
Withdraw ==
    /\ run.pc = "idle"
    /\ faults < MaxFaults
    /\ faults' = faults + 1
    /\ \E gone \in kSubset(PageSize, IdSet(source)) :
         source' = Picked(source, {i \in DOMAIN source : source[i].id \notin gone})
    /\ UNCHANGED <<today, published, collector, snapshot, run, kept, backlog, skipped>>

NextDay ==
    /\ today < MaxDay
    /\ today' = today + 1
    /\ UNCHANGED <<source, published, collector, snapshot, run, kept, backlog, faults, skipped>>

Page(k)    == SubSeq(source, k * PageSize + 1,
                     IF (k + 1) * PageSize < Len(source) THEN (k + 1) * PageSize
                                                         ELSE Len(source))
HasNext(k) == (k + 1) * PageSize < Len(source)

-----------------------------------------------------------------------------
(* The control plane *)

Environment == <<today, source, published>>

\* store.publish_rule_bundle: refused while the collector has an active run.
PublishRule ==
    /\ run.pc = "idle"
    /\ faults < MaxFaults
    /\ faults' = faults + 1
    /\ collector' = [collector EXCEPT !.rule = @ + 1]
    /\ UNCHANGED <<Environment, snapshot, run, kept, backlog, skipped>>

\* store.create_collection_policy.  That no run is active was checked before,
\* outside its transaction.
ChangePolicy ==
    /\ faults < MaxFaults
    /\ faults' = faults + 1
    /\ \E observed \in BOOLEAN :
         collector' = [collector EXCEPT !.policy = @ + 1, !.observed = observed,
                                        !.progress = None, !.checkpoint = None]
    /\ skipped' = {}
    /\ UNCHANGED <<Environment, snapshot, run, kept, backlog>>

\* create_run_operation reads the policy, the progress and the checkpoint
\* before the transaction that creates the run, and may be overtaken by a run.
ReadCollector ==
    /\ run.pc = "idle"
    /\ snapshot = None
    /\ faults < MaxFaults
    /\ faults' = faults + 1
    /\ snapshot' = [day |-> today, row |-> collector]
    /\ UNCHANGED <<Environment, collector, run, kept, backlog, skipped>>

\* valid_progress.
ValidProgress(row) ==
    /\ row.observed
    /\ row.progress # None
    /\ row.progress.rule = row.rule
    /\ row.progress.policy = row.policy

\* The checkpoint a run starts from: of its policy and, observed, of its rule.
StartCheckpoint(row) ==
    IF /\ row.checkpoint # None
       /\ row.checkpoint.policy = row.policy
       /\ row.observed => row.checkpoint.rule = row.rule
    THEN row.checkpoint ELSE None

WindowStart(row, retry) ==
    IF ValidProgress(row) /\ ~retry THEN row.progress.window
    ELSE IF StartCheckpoint(row) # None THEN StartCheckpoint(row).watermark - Lookback
    ELSE today - InitialWindow

\* The days from the look-back of the day on which a row was read to the initial window of
\* its run, where that is what it begins with: a policy may have a window shorter than
\* its look-back, and a slow command a later one than it would have had.
Skips(row, day) ==
    IF ValidProgress(row) \/ StartCheckpoint(row) # None THEN {}
    ELSE {d \in Day : day - Lookback <= d /\ d < today - InitialWindow}

ResumedPage(progress) == progress.page

\* A run as create_run_operation queues it, and how the runtime begins it: a
\* continuation takes up the page, the counter and the watermark it was left
\* with, a retry goes to the details of rejected records at once.
NewRun(row, retry, batch) ==
    LET before == IF ValidProgress(row) THEN row.progress ELSE None
        resume == IF retry THEN None ELSE before
    IN  [pc         |-> IF retry THEN "details" ELSE "listing",
         retry      |-> retry,
         rule       |-> row.rule,
         policy     |-> row.policy,
         observed   |-> row.observed,
         window     |-> WindowStart(row, retry),
         checkpoint |-> StartCheckpoint(row),
         before     |-> before,
         resume     |-> resume,
         seeking    |-> IF resume = None THEN None ELSE resume.anchor,
         page       |-> IF resume = None THEN 0 ELSE ResumedPage(resume),
         read       |-> 0,
         pagesSeen  |-> {},
         found      |-> batch,
         older      |-> IF resume = None THEN 0 ELSE resume.older,
         watermark  |-> IF resume = None THEN NoDate ELSE resume.watermark,
         oldest     |-> NoDate,
         stop       |-> IF retry THEN "not_applicable" ELSE "none",
         progress   |-> None,
         complete   |-> FALSE]

\* create_async_command compares rule and policy with those the command has
\* read, progress and checkpoint it does not.
CreateRun ==
    /\ run.pc = "idle"
    /\ run' = NewRun(collector, FALSE, <<>>)
    /\ skipped' = skipped \cup Skips(collector, today)
    /\ UNCHANGED <<Environment, collector, snapshot, kept, backlog, faults>>

CreateLateRun ==
    /\ run.pc = "idle"
    /\ snapshot # None
    /\ today - snapshot.day <= MaxSlow
    /\ snapshot' = None
    /\ LET read == snapshot.row IN
       IF read.rule = collector.rule /\ read.policy = collector.policy
       THEN /\ run' = NewRun(read, FALSE, <<>>)
            /\ skipped' = skipped \cup Skips(read, snapshot.day)
       ELSE UNCHANGED <<run, skipped>>
    /\ UNCHANGED <<Environment, collector, kept, backlog, faults>>

\* Reprocessing of rejected records, as many as a run may fetch.
RetryRejected ==
    /\ run.pc = "idle"
    /\ backlog # {}
    /\ LET n == Min({Cardinality(backlog), MaxItems})
       IN  \E batch \in kSubset(n, backlog) :
             run' = NewRun(collector, TRUE, SetToSeq(batch))
    /\ UNCHANGED <<Environment, collector, snapshot, kept, backlog, faults, skipped>>

-----------------------------------------------------------------------------
(* The runtime: one list page, as the body of its loop *)

Traversing == run.observed /\ ~run.retry

\* The page a traversal stopped at is recognised by the last record it read or,
\* if it had read all of it, by two of its last three.
AnchorFound(page) ==
    \/ run.seeking \in IdSet(page)
    \/ /\ run.resume.complete
       /\ Cardinality(IdSet(page) \cap run.resume.overlap) >= 2

\* The page repeats one of this run, or starts newer than the last one ended.
Disordered(page) ==
    /\ Traversing
    /\ \/ Ids(page) \in run.pagesSeen
       \/ run.oldest # NoDate /\ page[1].date > run.oldest

InWindow(r)    == r.date >= run.window
Processed0     == IF run.resume = None THEN {} ELSE run.resume.processed
Wanted(page)   == {i \in DOMAIN page : /\ InWindow(page[i])
                                       /\ page[i].id \notin Processed0
                                       /\ page[i].id \notin ToSet(run.found)}

\* How far the page is read: to its end, or to the record that reaches maxItems.
Cut(page) ==
    LET room == MaxItems - Len(run.found) IN
    IF Cardinality(Wanted(page)) < room THEN Len(page)
    ELSE CHOOSE i \in Wanted(page) :
           Cardinality({j \in Wanted(page) : j <= i}) = room

\* Nothing to read where something must be: the response is not trusted.  The
\* strict mode raises an error.
EmptyPage ==
    /\ run.pc = "listing"
    /\ run.read < MaxPages
    /\ Page(run.page) = <<>>
    /\ Traversing
    /\ run' = [run EXCEPT !.pc = "finishing", !.stop = "source_structure_mismatch",
                          !.found = <<>>, !.progress = run.before, !.complete = FALSE]
    /\ UNCHANGED <<Environment, collector, snapshot, kept, backlog, faults, skipped>>

\* The traversal cannot be certified, what it found so far is kept.
DisorderedPage ==
    /\ run.pc = "listing"
    /\ run.read < MaxPages
    /\ Page(run.page) # <<>>
    /\ Disordered(Page(run.page))
    /\ run' = [run EXCEPT !.pc = "details", !.stop = "coverage_order_unverified",
                          !.progress = None, !.complete = FALSE]
    /\ UNCHANGED <<Environment, collector, snapshot, kept, backlog, faults, skipped>>

\* Stop reasons that let a traversal count as done.
Whole(stop) ==
    stop \in {"next_link_exhausted", "time_window_reached", "checkpoint_reached"}

\* What the runtime makes of the end of the list loop.
EndListing(r, reason) ==
    LET stop == IF r.seeking # None /\ Traversing THEN "coverage_order_unverified"
                                                  ELSE reason
    IN  [r EXCEPT !.pc = "details", !.stop = stop,
                  !.complete = Traversing /\ Whole(stop),
                  !.progress = IF Traversing /\ stop \in {"max_items", "max_pages"}
                               THEN r.progress ELSE None]

\* The page is read: the run with all it holds after it.
AfterPage(page) ==
    LET read    == SubSeq(page, 1, Cut(page))
        wanted  == Picked(page, {i \in Wanted(page) : i <= Cut(page)})
        full    == Len(run.found) + Len(wanted) >= MaxItems
        found   == run.seeking = None \/ AnchorFound(page)
        older   == IF found THEN run.older ELSE 0
        isOlder == \A i \in DOMAIN page : ~InWindow(page[i])
        newest  == Max({run.watermark} \cup
                       DaysOf({r \in ToSet(read) : InWindow(r)}))
    IN  [run EXCEPT
           !.found = @ \o Ids(wanted),
           !.watermark = newest,
           !.seeking = IF found THEN None ELSE @,
           !.resume = IF found THEN None ELSE @,
           !.older = IF isOlder THEN older + 1 ELSE 0,
           !.oldest = IF Traversing THEN Last(page).date ELSE NoDate,
           !.pagesSeen = IF Traversing THEN @ \cup {Ids(page)} ELSE @,
           !.page = @ + 1,
           !.read = @ + 1,
           !.stop = IF full THEN "max_items" ELSE "none",
           !.progress = IF ~Traversing THEN None ELSE
              [rule |-> run.rule, policy |-> run.policy, window |-> run.window,
               page |-> run.page, anchor |-> Last(read).id,
               processed |-> Processed0 \cup IdSet(read), older |-> older,
               watermark |-> newest, complete |-> ~full,
               overlap |-> ToSet(SubSeq(Ids(page), Max({1, Len(page) - 2}), Len(page)))]]

\* Why the loop ends after a page, or "none".
StopAfter(r, k) ==
    IF r.stop = "max_items" THEN "max_items"
    ELSE IF r.older >= OlderPages
         THEN IF run.checkpoint = None THEN "time_window_reached" ELSE "checkpoint_reached"
    ELSE IF ~HasNext(k) THEN "next_link_exhausted"
    ELSE IF r.read >= MaxPages THEN "max_pages"
    ELSE "none"

ReadPage ==
    /\ run.pc = "listing"
    /\ run.read < MaxPages
    /\ Page(run.page) # <<>>
    /\ ~Disordered(Page(run.page))
    /\ \E next \in {AfterPage(Page(run.page))} :
       \E stop \in {StopAfter(next, run.page)} :
          run' = IF stop = "none" THEN next ELSE EndListing(next, stop)
    /\ UNCHANGED <<Environment, collector, snapshot, kept, backlog, faults, skipped>>

\* The details: all of them, or what could be fetched, which certifies nothing.
FetchDetails ==
    /\ run.pc = "details"
    /\ run' = [run EXCEPT !.pc = "finishing"]
    /\ UNCHANGED <<Environment, collector, snapshot, kept, backlog, faults, skipped>>

LoseDetails ==
    /\ run.pc = "details"
    /\ faults < MaxFaults
    /\ faults' = faults + 1
    /\ \E i \in DOMAIN run.found :
         run' = [run EXCEPT !.pc = "finishing", !.found = RemoveAt(@, i),
                            !.stop = "detail_fetch_incomplete",
                            !.progress = None, !.complete = FALSE]
    /\ UNCHANGED <<Environment, collector, snapshot, kept, backlog, skipped>>

\* The source asks to slow down: nothing of the run counts.
RateLimited ==
    /\ run.pc \in {"listing", "details"}
    /\ faults < MaxFaults
    /\ faults' = faults + 1
    /\ run' = [run EXCEPT !.pc = "finishing", !.found = <<>>, !.watermark = NoDate,
                          !.stop = "source_rate_limited",
                          !.progress = run.before, !.complete = FALSE]
    /\ UNCHANGED <<Environment, collector, snapshot, kept, backlog, skipped>>

-----------------------------------------------------------------------------
(* The worker: finalization *)

\* final_run_status = "succeeded".
Succeeded(rejected) == rejected = {} /\ run.stop \in
    {"not_applicable", "max_pages", "next_link_exhausted", "time_window_reached",
     "checkpoint_reached"}

\* Whether the run moves the checkpoint: observed, when it completed the
\* traversal; strict, when everything in a whole window was accepted.
Advances(rejected) ==
    IF run.observed THEN ~run.retry /\ run.complete
    ELSE Succeeded(rejected) /\ run.stop # "max_pages" /\ run.watermark # NoDate

NextWatermark ==
    Max({run.watermark}
        \cup (IF run.checkpoint = None THEN {} ELSE {run.checkpoint.watermark})
        \cup (IF run.observed THEN {run.window} ELSE {}))

\* Policy or rule are no longer those of the run; only observed runs look.
ContextLost == run.observed /\ \/ run.rule # collector.rule
                               \/ run.policy # collector.policy

\* One transaction: run, items, progress, backlog and checkpoint.
Commit ==
    /\ run.pc = "finishing"
    /\ ~ContextLost
    /\ \E rejected \in SUBSET ToSet(run.found) :
         LET found == ToSet(run.found)
             good  == IF run.observed THEN found ELSE found \ rejected
         IN  /\ faults + Cardinality(rejected) <= MaxFaults
             /\ faults' = faults + Cardinality(rejected)
             /\ kept' = [r \in RecordId |-> IF r \notin good THEN kept[r] ELSE
                             kept[r] \cup {[policy |-> run.policy, rule |-> run.rule]}]
             /\ backlog' = (backlog \ found) \cup rejected
             /\ collector' = [collector EXCEPT
                  !.progress = IF run.observed /\ ~run.retry THEN run.progress ELSE @,
                  !.checkpoint = IF ~Advances(rejected) THEN @ ELSE
                     [rule |-> run.rule, policy |-> run.policy,
                      watermark |-> NextWatermark,
                      since |-> IF run.checkpoint = None THEN run.window
                                                         ELSE run.checkpoint.since]]
    /\ run' = NoRun
    /\ UNCHANGED <<Environment, snapshot, skipped>>

\* IntegrityError: nothing of the run is kept.
RefuseCommit ==
    /\ run.pc = "finishing"
    /\ ContextLost
    /\ run' = NoRun
    /\ UNCHANGED <<Environment, collector, snapshot, kept, backlog, faults, skipped>>

\* Any other end: a crash, a timeout, a cancellation, an error of the source;
\* in the strict mode, an empty list.
Fail ==
    LET errs == run.pc = "listing" /\ Page(run.page) = <<>> /\ ~Traversing IN
    /\ run.pc # "idle"
    /\ errs \/ faults < MaxFaults
    /\ faults' = IF errs THEN faults ELSE faults + 1
    /\ run' = NoRun
    /\ UNCHANGED <<Environment, collector, snapshot, kept, backlog, skipped>>

-----------------------------------------------------------------------------
Proceed == \/ EmptyPage    \/ DisorderedPage \/ ReadPage
           \/ FetchDetails \/ Commit         \/ RefuseCommit

Next == \/ Publish       \/ Withdraw  \/ NextDay
        \/ PublishRule   \/ ChangePolicy
        \/ ReadCollector \/ CreateRun \/ CreateLateRun \/ RetryRejected
        \/ Proceed       \/ LoseDetails \/ RateLimited \/ Fail

Spec == Init /\ [][Next]_vars

\* Runs are started again and again, by a schedule or by hand, and carried out.
Fairness == WF_vars(Proceed) /\ WF_vars(CreateRun)

FairSpec == Spec /\ Fairness

-----------------------------------------------------------------------------
(* Properties *)

CurrentCheckpoint == StartCheckpoint(collector)

\* The policy's promise of a record: persisted either way when coverage is
\* observed, accepted when it is strict.
Handled(r) ==
    \E context \in kept[r] :
        /\ context.policy = collector.policy
        /\ collector.observed => context.rule = collector.rule

\* A checkpoint hides nothing: what is in the list, within the window the
\* checkpoint was built up from, is handled or will be in the next window, whatever
\* the policy; all but the days on which an initial window fell short of the look-back.
\* Holds over continued traversals, lists that move between two pages, late
\* records, lost anchors, slow commands and changes of rule and policy.
CheckpointCovers ==
    CurrentCheckpoint # None =>
        \A i \in DOMAIN source :
            \/ Handled(source[i].id)
            \/ source[i].date < CurrentCheckpoint.since
            \/ source[i].date >= CurrentCheckpoint.watermark - Lookback
            \/ source[i].date \in skipped

\* The page a traversal would go on from is no longer there.
Stranded == collector.progress # None /\ Page(collector.progress.page) = <<>>

\* Once the source is quiet the runs come to cover it: limits of pages and
\* items only delay it.
EventuallyCovered ==
    []<>(\/ ~collector.observed \/ Stranded \/ source = <<>>
         \/ CurrentCheckpoint # None /\ collector.progress = None)
=============================================================================
