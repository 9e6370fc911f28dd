------------------------------ MODULE MCCoverage ------------------------------
(***************************************************************************)
(* Small instances of the two sides of reading a source: Coverage, how far  *)
(* its list was read, and Items, what is recorded of its pages and seen by  *)
(* readers.  A behaviour is one of either, with the other at rest.          *)
(***************************************************************************)
EXTENDS Coverage

CONSTANTS Collector, First, Url, NoCode, Shows, ReaderPage, MaxRuns, MaxClaims, MaxReads,
          MaxMinutes

VARIABLES now, runs, items, events, reader    \* Items
VARIABLE part                                 \* which one moves

I == INSTANCE Items WITH PageSize <- ReaderPage

ASSUME PagesAssumption == I!ItemsAssumption

itemVars == <<now, runs, items, events, reader>>
MCVars   == <<part, vars, itemVars>>

\* Three records over two days: two pages of two, three once they are five.
ThreeRecords == <<4, 4, 3>>

Good(code, value) == [code |-> code, value |-> value, valid |-> TRUE]
Bad(code, value)  == [code |-> code, value |-> value, valid |-> FALSE]

\* Of one collector two pages of one entity, one of which is rejected at times.  Of any
\* other collector a page of that key, and one that does not show which entity it is.
TwoPages == [at \in Collector \X Url |->
    CASE at = <<First, 1>>  -> {Good(3, 1), Bad(3, 2)}
      [] at = <<First, 2>>  -> {Good(3, 2)}
      [] at[1] # First /\ at[2] = 1 -> {Good(3, 1)}
      [] OTHER -> {Bad(NoCode, 1)}]

MCInit == /\ part \in {"coverage", "items"}
          /\ Init /\ I!Init

CoverageNext == part = "coverage" /\ Next /\ UNCHANGED <<part, itemVars>>
ItemsNext    == part = "items" /\ I!Next /\ UNCHANGED <<part, vars>>

MCNext == CoverageNext \/ ItemsNext

\* The fairness of Coverage; nothing is owed to a reader.
MCSpec == /\ MCInit /\ [][MCNext]_MCVars
          /\ WF_vars(part = "coverage" /\ Proceed)
          /\ WF_vars(part = "coverage" /\ CreateRun)

-----------------------------------------------------------------------------
(* The properties of the two parts *)

\* Every variable of the two parts has its type.
AllTypesOK == TypeOK /\ I!TypeOK

\* Items: the revisions of an entity count its accepted values, over overtaken workers,
\* runs of one minute and pages rejected in between.
RevisionsChain == I!RevisionsChain

\* Items: who takes the deliveries in order has the latest accepted value of each entity.
FeedComplete == I!FeedComplete

\* Items: a walk by cursor or an export returns what was there all along, once.
WalkExact == I!WalkExact

\* Items, for the run of duplicates.
DuplicatesMerged == I!DuplicatesMerged

\* Coverage: once the source is quiet the runs come to cover it.
NewRecordsCovered == part = "coverage" => EventuallyCovered
=============================================================================
