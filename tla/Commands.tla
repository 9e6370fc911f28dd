------------------------------- MODULE Commands -------------------------------
(***************************************************************************)
(* Commands given under an idempotency key, and the rows they make.  Those  *)
(* on collections keep their receipt in the transaction of the change; those *)
(* that create sources and sinks look for a receipt, make their rows in one  *)
(* transaction each, and remember the answer in another.  Several processes  *)
(* serve them, die in the middle, and clients repeat what was not answered.  *)
(***************************************************************************)
EXTENDS Integers, Sequences, SequencesExt, FiniteSets, FiniteSetsExt

CONSTANTS Process,
          Command,         \* what clients send: key, kind, urls, target, revision
          Idle,            \* a process that serves no command
          MaxCollections,  \* bound: collections ever made
          MaxSources,      \* bound: sources ever made
          MaxSinks,        \* bound: sinks ever made
          MaxCrashes       \* bound: processes that die while they serve

VARIABLES collections,  \* rows of collections, with what refers to them
          sources,      \* rows of collectors, deleted ones included
          sinks,        \* rows of sinks: the commands that made them
          receipts,     \* rows of idempotency
          handler,      \* what a process is doing
          answers,      \* history: what clients were told of a command
          crashes       \* processes that died so far

CommandsAssumption ==
    Idle \notin Command /\ MaxCollections \in Nat /\ MaxCrashes \in Nat

commandVars == <<collections, sources, sinks, receipts, handler, answers, crashes>>

-----------------------------------------------------------------------------
\* The end of a command on a collection is "done"; of one that creates, what it made of
\* each url: the number of a source, or Refused.
Refused == 0

InTransaction(cmd) == cmd.kind \in {"create", "edit", "archive", "delete", "publish"}

Live(url) == \E s \in DOMAIN sources : sources[s].url = url /\ sources[s].live

Collection == 1..MaxCollections
Present(c) == c \in Collection /\ collections[c].status \in {"active", "archived"}

\* Ids no command has used yet, and the one that is used next.
Unused   == {c \in Collection : /\ collections[c].status = "absent"
                               /\ \A p \in Process : handler[p] # Idle => handler[p].collection # c}
Fresh(c) == Unused # {} /\ c = Min(Unused)

NoCollection  == [status |-> "absent", revision |-> 0, draft |-> FALSE, versions |-> 0,
                  history |-> FALSE, by |-> Idle]
NewCollection == [NoCollection EXCEPT !.status = "active", !.revision = 1]

TypeOK ==
    /\ \A c \in Collection :
          /\ collections[c].status \in {"absent", "active", "archived", "deleted"}
          /\ collections[c].revision \in Nat /\ collections[c].versions \in Nat
          /\ collections[c].draft \in BOOLEAN /\ collections[c].history \in BOOLEAN
          /\ collections[c].by \in Command \cup {Idle}
    /\ \A s \in DOMAIN sources : /\ sources[s].collection \in Collection
                                 /\ sources[s].by \in Command
                                 /\ sources[s].live \in BOOLEAN
    /\ Range(sinks) \subseteq Command
    /\ \A r \in receipts : r.cmd \in Command
    /\ \A p \in Process : handler[p] # Idle =>
          /\ handler[p].cmd \in Command
          /\ handler[p].pc \in {"check", "create", "sink", "remember"}
    /\ crashes \in 0..MaxCrashes

-----------------------------------------------------------------------------
(* Faults: definitions below as a plausible mistake would have written them. *)

\* Fault in Fits: whatever has the key.
FitsAnyBody(r, cmd) == TRUE

\* Fault in MayAdd: the url is not looked up again in the transaction.
MayAddUnchecked(cmd, url, c) == IF Present(c) THEN collections[c].status = "active"
                                ELSE cmd.target = 0

\* Fault in MayAdd: the collection is the one that was read before.
MayAddUnlocked(cmd, url, c) == ~Live(url)

\* Fault in Deletable: sources count, what they left behind does not.
DeletableWithHistory(c) == \A s \in DOMAIN sources : sources[s].collection = c => ~sources[s].live

\* Fault in Receipt: remembered after the transaction, as for the other commands.
ReceiptLater(cmd) == receipts

-----------------------------------------------------------------------------
(* Receipts *)

\* The scope of a receipt: the key, the method and the path.  Both changes of a
\* collection are a PATCH of it; the collection of a batch is in its body.
Scope(cmd) == <<cmd.key, IF cmd.kind \in {"edit", "archive"} THEN "patch" ELSE cmd.kind,
                IF cmd.kind = "batch" THEN 0 ELSE cmd.target>>

Held(cmd) == {r \in receipts : Scope(r.cmd) = Scope(cmd)}

\* The request of a receipt is that of the command.
Fits(r, cmd) == r.cmd = cmd

\* A command that was done is answered from its receipt; another body is refused.
Replay(cmd) == /\ \E r \in Held(cmd) :
                     Fits(r, cmd) /\ answers' = answers \cup {[cmd |-> cmd, result |-> r.result]}
               /\ UNCHANGED <<collections, sources, sinks, receipts, handler, crashes>>

-----------------------------------------------------------------------------
(* Commands on collections: one transaction *)

\* finish_command, and the end of collection_command: the receipt.
Receipt(cmd) == receipts \cup {[cmd |-> cmd, result |-> <<>>]}

\* The collection is there, as the client has seen it.
Unchanged(cmd) == Present(cmd.target) /\ collections[cmd.target].revision = cmd.revision

Active(cmd) == Unchanged(cmd) /\ collections[cmd.target].status = "active"

\* Nothing refers to it: no source that is not deleted, no version and no history.
Deletable(c) == /\ \A s \in DOMAIN sources : sources[s].collection = c => ~sources[s].live
                /\ collections[c].versions = 0 /\ ~collections[c].history

\* publish_collection_version: the draft of the fields becomes the next version.
PublishVersion(cmd) ==
    /\ Active(cmd) /\ collections[cmd.target].draft
    /\ collections' = [collections EXCEPT ![cmd.target].versions = @ + 1,
                                          ![cmd.target].revision = @ + 1]

Execute(cmd) ==
    /\ InTransaction(cmd) /\ Held(cmd) = {}
    /\ LET c == cmd.target
       IN  \/ /\ cmd.kind = "create"
              /\ \E new \in Collection :
                    /\ Fresh(new)
                    /\ collections' = [collections EXCEPT ![new] =
                                          [NewCollection EXCEPT !.by = cmd]]
           \/ /\ cmd.kind = "edit" /\ Active(cmd)
              /\ collections' = [collections EXCEPT ![c].draft = TRUE, ![c].revision = @ + 1]
           \/ /\ cmd.kind = "archive" /\ Unchanged(cmd)
              /\ collections' = [collections EXCEPT ![c].status = "archived",
                                                    ![c].revision = @ + 1]
           \/ cmd.kind = "publish" /\ PublishVersion(cmd)
           \/ /\ cmd.kind = "delete" /\ Unchanged(cmd) /\ Deletable(c)
              /\ collections' = [collections EXCEPT ![c].status = "deleted"]
    /\ receipts' = Receipt(cmd)
    /\ answers' = answers \cup {[cmd |-> cmd, result |-> <<>>]}
    /\ UNCHANGED <<sources, sinks, handler, crashes>>

-----------------------------------------------------------------------------
(* Commands that create: a receipt before, one transaction a row, a receipt after *)

Serves(p, pc) == handler[p] # Idle /\ handler[p].pc = pc

\* There is no receipt, and the collection of a batch for one can be used.
Begin(p, cmd) ==
    /\ ~InTransaction(cmd) /\ handler[p] = Idle
    /\ Held(cmd) = {}
    /\ cmd.target # 0 => Present(cmd.target) /\ collections[cmd.target].status = "active"
    /\ \E c \in Collection :
          /\ IF cmd.kind = "sink" THEN c = 1
             ELSE IF cmd.target # 0 THEN c = cmd.target ELSE Fresh(c)
          /\ handler' = [handler EXCEPT ![p] =
                [cmd |-> cmd, collection |-> c, results |-> <<>>,
                 pc  |-> IF cmd.kind = "sink" THEN "sink" ELSE "check"]]
    /\ UNCHANGED <<collections, sources, sinks, receipts, answers, crashes>>

\* The url the process is at.
At(p) == handler[p].cmd.urls[Len(handler[p].results) + 1]

\* A single source that is refused is an error, of which no receipt is made; an
\* agent's command has none at all.
Remembers(cmd, result) == cmd.kind = "batch" \/ (cmd.kind = "source" /\ result # Refused)

\* After a url: the next one of a batch, or the end.
After(p, result) ==
    LET results == Append(handler[p].results, result)
        cmd     == handler[p].cmd
    IN  IF Len(results) < Len(cmd.urls)
        THEN [handler EXCEPT ![p].results = results, ![p].pc = "check"]
        ELSE IF Remembers(cmd, result)
        THEN [handler EXCEPT ![p].results = results, ![p].pc = "remember"]
        ELSE [handler EXCEPT ![p] = Idle]

\* The url is looked up, outside the transaction that will use it.
Check(p) ==
    /\ Serves(p, "check")
    /\ handler' = IF Live(At(p)) THEN After(p, Refused)
                  ELSE [handler EXCEPT ![p].pc = "create"]
    /\ UNCHANGED <<collections, sources, sinks, receipts, answers, crashes>>

\* In the transaction: the url is still free, and the collection takes sources.
MayAdd(cmd, url, c) == /\ ~Live(url)
                       /\ IF Present(c) THEN collections[c].status = "active"
                          ELSE cmd.target = 0

\* _insert_collection: that of a new requirement is made, unless it is there.
CollectionAfter(cmd, c) ==
    IF Present(c) \/ cmd.target # 0 THEN collections[c]
    ELSE [collections[c] EXCEPT !.status = "active", !.revision = 1, !.by = cmd]

\* Store.create_collector: one source, or a refusal.
Create(p) ==
    LET cmd == handler[p].cmd
        c   == handler[p].collection
        url == At(p)
    IN  /\ Serves(p, "create")
        /\ IF MayAdd(cmd, url, c)
           THEN /\ Len(sources) < MaxSources
                /\ sources' = Append(sources, [url |-> url, collection |-> c, by |-> cmd,
                                               live |-> TRUE])
                /\ collections' = [collections EXCEPT ![c] = CollectionAfter(cmd, c)]
                /\ handler' = After(p, Len(sources'))
           ELSE /\ handler' = After(p, Refused)
                /\ UNCHANGED <<sources, collections>>
        /\ UNCHANGED <<sinks, receipts, answers, crashes>>

\* Store.create_sink.
CreateSink(p) ==
    /\ Serves(p, "sink") /\ Len(sinks) < MaxSinks
    /\ sinks' = Append(sinks, handler[p].cmd)
    /\ handler' = [handler EXCEPT ![p].results = <<Len(sinks')>>, ![p].pc = "remember"]
    /\ UNCHANGED <<collections, sources, receipts, answers, crashes>>

\* remember: inserted, unless another process was first; the answer is given as it is.
Remember(p) ==
    LET cmd == handler[p].cmd
        own == [cmd |-> cmd, result |-> handler[p].results]
    IN  /\ Serves(p, "remember")
        /\ receipts' = IF Held(cmd) = {} THEN receipts \cup {own} ELSE receipts
        /\ answers'  = answers \cup {own}
        /\ handler'  = [handler EXCEPT ![p] = Idle]
        /\ UNCHANGED <<collections, sources, sinks, crashes>>

Crash(p) == /\ handler[p] # Idle /\ crashes < MaxCrashes
            /\ handler' = [handler EXCEPT ![p] = Idle] /\ crashes' = crashes + 1
            /\ UNCHANGED <<collections, sources, sinks, receipts, answers>>

-----------------------------------------------------------------------------
\* lifecycle_command: a source is deleted, its row stays and its url is free again.
DeleteSource(s) == /\ sources[s].live
                   /\ sources' = [sources EXCEPT ![s].live = FALSE]
                   /\ UNCHANGED <<collections, sinks, receipts, handler, answers, crashes>>

\* An exploration or a run of a source is booked on its collection for good.
LeaveHistory(s) == /\ sources[s].live
                   /\ collections' = [collections EXCEPT ![sources[s].collection].history = TRUE]
                   /\ UNCHANGED <<sources, sinks, receipts, handler, answers, crashes>>

Init == /\ collections = [c \in Collection |-> NoCollection]
        /\ sources = <<>> /\ sinks = <<>> /\ receipts = {}
        /\ handler = [p \in Process |-> Idle]
        /\ answers = {} /\ crashes = 0

Next == \/ \E cmd \in Command : Replay(cmd) \/ Execute(cmd) \/ \E p \in Process : Begin(p, cmd)
        \/ \E p \in Process : Check(p) \/ Create(p) \/ CreateSink(p) \/ Remember(p) \/ Crash(p)
        \/ \E s \in DOMAIN sources : DeleteSource(s) \/ LeaveHistory(s)

Spec == Init /\ [][Next]_commandVars

-----------------------------------------------------------------------------
(* Properties *)

\* No source is left without its collection, and a deleted collection left neither
\* versions nor history behind, whoever creates, archives and deletes meanwhile.
NothingDangling ==
    /\ \A s \in DOMAIN sources : sources[s].live => Present(sources[s].collection)
    /\ \A c \in Collection : collections[c].status = "deleted" =>
          collections[c].versions = 0 /\ ~collections[c].history

\* The changes of a collection that clients were told of.
Told(c) == {a.cmd : a \in {b \in answers : /\ b.cmd.target = c
                                            /\ b.cmd.kind \in {"edit", "archive", "publish"}}}

\* Over crashes, retries and commands at the same time: a command on a collection is
\* done once and counted in its revision, a url has one source, and whoever is told
\* of a source was the one to ask for it, under that key and for that url.
CommandsOnce ==
    /\ \A cmd \in Command : cmd.kind = "create" =>
          Cardinality({c \in Collection : collections[c].by = cmd}) =
          Cardinality({a \in answers : a.cmd = cmd})
    /\ \A c \in Collection : Present(c) /\ InTransaction(collections[c].by) =>
          collections[c].revision = 1 + Cardinality(Told(c))
    /\ \A s, t \in DOMAIN sources :
          sources[s].url = sources[t].url /\ sources[s].live /\ sources[t].live => s = t
    /\ \A a \in answers : a.cmd.kind # "sink" => \A n \in DOMAIN a.result :
          \/ a.result[n] = Refused
          \/ /\ sources[a.result[n]].by = a.cmd
             /\ sources[a.result[n]].url = a.cmd.urls[n]

\* docs/contracts/api-contract.md:93: a retry under the same key returns the same
\* logical result; here, that it makes no second sink.
RetryMakesNothingNew ==
    \A cmd \in Command : Cardinality({n \in DOMAIN sinks : sinks[n] = cmd}) <= 1
=============================================================================
