----------------------------- MODULE CatalogRun -----------------------------
(***************************************************************************)
(* The catalog check of the tender sources (scripts/tender_sources): the    *)
(* rows of a catalog are read over several invocations that share a ledger  *)
(* file.  Rows of one host take turns under a lock, the slots bound those   *)
(* of different hosts; every request is booked in the ledger before it is   *)
(* sent; a host that refuses, fails or is left in the middle is closed.     *)
(* The bytes and seconds of the batch are spent at any moment.              *)
(***************************************************************************)
EXTENDS Integers, FiniteSets

CONSTANTS Entry,           \* rows of the catalog
          Host,            \* hosts they are on
          BatchRequests,   \* requests of the whole batch
          MainRequests,    \* requests of a row that reads details
          ReviewRequests,  \* requests of a row that reads its list only
          Slots,           \* rows that may be read at once
          MaxInvocations   \* bound: times the command is given

VARIABLES manifest,     \* the input: the host of a row and how it is read
          ledger,       \* ledger.json
          memory,       \* the state of the runner, while there is one
          row,          \* the task of each row
          todo,         \* what it fetches next
          requested,    \* history: requests that left, of each row
          refused,      \* history: hosts that refused access
          invocations   \* invocations so far

CatalogAssumption ==
    /\ IsFiniteSet(Entry)
    /\ BatchRequests \in Nat /\ MainRequests \in Nat /\ ReviewRequests \in 0..MainRequests
    /\ MaxInvocations \in Nat

catalogVars == <<manifest, ledger, memory, row, todo, requested, refused, invocations>>

-----------------------------------------------------------------------------
Results == {"none", "tested", "exhausted", "interrupted", "inherited", "skipped"}

Ledger == [requests : 0..BatchRequests, of : [Entry -> 0..MainRequests],
           result : [Entry -> Results], running : SUBSET Entry,
           blocked : SUBSET Host, robots : SUBSET Host, stopped : BOOLEAN]

\* What a runner without a process remembers.
NoRunner == [dead |-> TRUE]

TypeOK ==
    /\ manifest \in [Entry -> [host : Host, kind : {"main", "review", "invalid"}]]
    /\ ledger \in Ledger
    /\ memory \in Ledger \cup {NoRunner}
    /\ row \in [Entry -> {"none", "waiting", "fetching", "spacing", "in_flight"}]
    /\ todo \in [Entry -> {"robots", "list", "first", "second"}]
    /\ requested \in [Entry -> Nat] /\ refused \in SUBSET Host
    /\ invocations \in 0..MaxInvocations

Up == memory # NoRunner
HostOf(e) == manifest[e].host
Holds(e) == row[e] \in {"fetching", "spacing", "in_flight"}
Limit(e) == IF manifest[e].kind = "review" THEN ReviewRequests ELSE MainRequests

-----------------------------------------------------------------------------
(* Faults: definitions below as a plausible mistake would have written them. *)

\* Fault in Resumed: the hosts of interrupted rows stay open.
ResumedOpen(l) ==
    [l EXCEPT !.result = [e \in Entry |-> IF e \in l.running THEN "interrupted" ELSE @[e]],
              !.running = {}]

\* Fault in Booked: the request is booked when it has been answered.
BookedLater(e) == ledger

-----------------------------------------------------------------------------
Init ==
    /\ manifest \in [Entry -> [host : Host, kind : {"main", "review", "invalid"}]]
    /\ ledger = [requests |-> 0, of |-> [e \in Entry |-> 0],
                 result |-> [e \in Entry |-> "none"], running |-> {},
                 blocked |-> {}, robots |-> {}, stopped |-> FALSE]
    /\ memory = NoRunner
    /\ row = [e \in Entry |-> "none"] /\ todo = [e \in Entry |-> "list"]
    /\ requested = [e \in Entry |-> 0] /\ refused = {} /\ invocations = 0

\* The rows a dead process was reading count as interrupted, their hosts as closed.
Resumed(l) ==
    [l EXCEPT !.result = [e \in Entry |-> IF e \in l.running THEN "interrupted" ELSE @[e]],
              !.blocked = @ \cup {HostOf(e) : e \in l.running},
              !.running = {}]

\* The command is given for some rows, all of them or none (dry run).
Start(chosen) ==
    /\ ~Up /\ invocations < MaxInvocations
    /\ memory' = Resumed(ledger) /\ ledger' = memory'
    /\ row' = [e \in Entry |-> IF e \in chosen /\ memory'.result[e] = "none"
                               THEN "waiting" ELSE "none"]
    /\ invocations' = invocations + 1
    /\ UNCHANGED <<manifest, todo, requested, refused>>

Persist(m) == memory' = m /\ ledger' = m

Finished(m, e, result) == [m EXCEPT !.result[e] = result, !.running = @ \ {e}]
Closed(m, e) == [m EXCEPT !.blocked = @ \cup {HostOf(e)}]

\* The row ends with a result, and its task with it.
Finish(m, e, result) ==
    /\ Persist(Finished(m, e, result))
    /\ row' = [row EXCEPT ![e] = "none"]
    /\ UNCHANGED <<manifest, todo, invocations>>

Fail(e)    == Finish(Closed(memory, e), e, "tested")
Exhaust(e) == Finish([memory EXCEPT !.stopped = TRUE], e, "exhausted")

\* check_budget: the batch has been stopped, or its requests are used up.
Spent == memory.stopped \/ memory.requests >= BatchRequests

-----------------------------------------------------------------------------
(* CatalogRunner.row, up to the first request *)

CanEnter(e) == /\ Up /\ row[e] = "waiting"
               /\ \A f \in Entry : Holds(f) => HostOf(f) # HostOf(e)
               /\ Cardinality({f \in Entry : Holds(f)}) < Slots

\* Out of requests, bytes or time: the row is left for a report of what was not done.
EnterSpent(e) ==
    /\ CanEnter(e)
    /\ Persist([memory EXCEPT !.stopped = TRUE])
    /\ row' = [row EXCEPT ![e] = "none"]
    /\ UNCHANGED <<manifest, todo, requested, refused, invocations>>

EnterClosed(e) ==
    /\ CanEnter(e) /\ ~Spent
    /\ \/ manifest[e].kind = "invalid" /\ Finish(memory, e, "skipped")
       \/ /\ manifest[e].kind # "invalid" /\ HostOf(e) \in memory.blocked
          /\ Finish(memory, e, "inherited")
    /\ UNCHANGED <<requested, refused>>

Enter(e) ==
    /\ CanEnter(e) /\ ~Spent
    /\ manifest[e].kind # "invalid" /\ HostOf(e) \notin memory.blocked
    /\ Persist([memory EXCEPT !.running = @ \cup {e}])
    /\ row' = [row EXCEPT ![e] = "fetching"]
    /\ todo' = [todo EXCEPT ![e] = IF HostOf(e) \in memory.robots THEN "list" ELSE "robots"]
    /\ UNCHANGED <<manifest, requested, refused, invocations>>

-----------------------------------------------------------------------------
(* One request: CatalogNetwork._request_once *)

\* The checks in front of the pause between two requests to a host.
Ask(e) ==
    /\ Up /\ row[e] = "fetching"
    /\ \/ /\ ~Spent /\ memory.of[e] < Limit(e)
          /\ row' = [row EXCEPT ![e] = "spacing"]
          /\ UNCHANGED <<manifest, ledger, memory, todo, invocations>>
       \/ Spent /\ Exhaust(e)
       \/ ~Spent /\ Fail(e)   \* robots.txt, the address or the row's requests forbid it
    /\ UNCHANGED <<requested, refused>>

\* The ledger that is on disk when the request leaves.
Booked(e) == [memory EXCEPT !.requests = @ + 1, !.of[e] = @ + 1]

\* The batch is checked again after the pause; then the request is booked and sent.
Send(e) ==
    /\ Up /\ row[e] = "spacing"
    /\ \/ Spent /\ Exhaust(e) /\ UNCHANGED requested
       \/ /\ ~Spent
          /\ memory' = [memory EXCEPT !.requests = @ + 1, !.of[e] = @ + 1]
          /\ ledger' = Booked(e)
          /\ row' = [row EXCEPT ![e] = "in_flight"]
          /\ requested' = [requested EXCEPT ![e] = @ + 1]
          /\ UNCHANGED <<manifest, todo, invocations>>
    /\ UNCHANGED refused

\* What is fetched after an answer: the list, then at most two of the details on it.
After(e) == CASE todo[e] = "robots" -> {"list"}
              [] todo[e] = "list" /\ manifest[e].kind = "main" -> {"first"}
              [] todo[e] = "first" -> {"second"}
              [] OTHER -> {}

Heard(e) == IF todo[e] = "robots" THEN [memory EXCEPT !.robots = @ \cup {HostOf(e)}]
            ELSE memory

Respond(e) ==
    /\ Up /\ row[e] = "in_flight"
    /\ \/ \E next \in After(e) \cup {todo[e]} :   \* a redirect or a second handshake: again
            /\ Persist(IF next = todo[e] THEN memory ELSE Heard(e))
            /\ row' = [row EXCEPT ![e] = "fetching"] /\ todo' = [todo EXCEPT ![e] = next]
            /\ UNCHANGED <<manifest, invocations>>
       \/ todo[e] # "robots" /\ Finish(memory, e, "tested")
    /\ UNCHANGED <<requested, refused>>

\* Refused by status, challenge, robots.txt in HTML, or by what the page says.
Refuse(e) ==
    /\ Up /\ row[e] = "in_flight"
    /\ refused' = refused \cup {HostOf(e)}
    /\ Fail(e) /\ UNCHANGED requested

\* No answer: the connection fails, a limit of the page or of the row is reached,
\* or the bytes or seconds of the batch are used up.
Break(e) ==
    /\ Up /\ Holds(e)
    /\ Fail(e) \/ Exhaust(e)
    /\ UNCHANGED <<requested, refused>>

-----------------------------------------------------------------------------
(* How an invocation ends *)

AllGone == row' = [e \in Entry |-> "none"]

End == /\ Up /\ \A e \in Entry : row[e] = "none"
       /\ memory' = NoRunner /\ ledger' = memory
       /\ UNCHANGED <<manifest, row, todo, requested, refused, invocations>>

Interrupted == {e \in Entry : Holds(e)}

\* The operator interrupts it: every row under way notes it before the task ends.
Cancel ==
    /\ Up /\ Interrupted # {}
    /\ ledger' = [memory EXCEPT
           !.result  = [e \in Entry |-> IF e \in Interrupted THEN "interrupted" ELSE @[e]],
           !.blocked = @ \cup {HostOf(e) : e \in Interrupted},
           !.running = @ \ Interrupted]
    /\ memory' = NoRunner /\ AllGone
    /\ UNCHANGED <<manifest, todo, requested, refused, invocations>>

\* The process dies, perhaps with answers it had no time to write down.
Crash ==
    /\ Up /\ memory' = NoRunner /\ AllGone
    /\ \E unread \in SUBSET {e \in Entry : row[e] = "in_flight"} :
           refused' = refused \cup {HostOf(e) : e \in unread}
    /\ UNCHANGED <<manifest, ledger, todo, requested, invocations>>

Next == \/ \E chosen \in SUBSET Entry : Start(chosen)
        \/ \E e \in Entry : \/ EnterSpent(e) \/ EnterClosed(e) \/ Enter(e) \/ Ask(e)
                            \/ Send(e) \/ Respond(e) \/ Refuse(e) \/ Break(e)
        \/ End \/ Cancel \/ Crash

Spec == Init /\ [][Next]_catalogVars

-----------------------------------------------------------------------------
(* Properties *)

\* The report's "complete".
Complete == /\ \A e \in Entry : ledger.result[e] # "none"
            /\ ~ledger.stopped
            /\ \A e \in Entry : ledger.result[e] # "interrupted"

\* The requests that left: of each row the first, the second and so on.
Requests == UNION {{e} \X (1..requested[e]) : e \in Entry}

\* Resuming and crashing give no request back: what has left stays within the
\* limits of the batch and of its row; a host serves one row at a time; and a
\* report says complete only if no row was cut short by the batch's limits.
BudgetsHold ==
    /\ Cardinality(Requests) <= BatchRequests
    /\ \A e \in Entry : requested[e] <= Limit(e)
    /\ \A e, f \in Entry : Holds(e) /\ Holds(f) /\ e # f => HostOf(e) # HostOf(f)
    /\ Complete => \A e \in Entry : ledger.result[e] # "exhausted"

\* A row that has its result keeps it and is never read again, and no request
\* goes to a host that has refused one or that the ledger has closed, whatever
\* invocation, crash or interruption came in between.
SettledForGood ==
    [][\A e \in Entry :
         /\ ledger.result[e] # "none" => ledger'.result[e] = ledger.result[e]
         /\ requested'[e] > requested[e] =>
                /\ ledger.result[e] = "none"
                /\ HostOf(e) \notin refused \cup ledger.blocked]_catalogVars
=============================================================================
