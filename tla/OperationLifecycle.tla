------------------------- MODULE OperationLifecycle -------------------------
(***************************************************************************)
(* What Extrio promises of an asynchronous command, without the job queue,  *)
(* the leases and the worker processes that keep the promise.  A client     *)
(* that polls GET /operations/{id} sees exactly this.                       *)
(*                                                                          *)
(*   - a collector has at most one operation under way;                     *)
(*   - an operation ends once, and its result is the result of that end;    *)
(*   - an operation whose cancellation was accepted ends as cancelled;      *)
(*   - every operation ends.                                                *)
(***************************************************************************)
CONSTANTS Collector,    \* the collectors operations are submitted for
          Op,           \* operation identities
          NoCollector   \* the owner of an operation that does not exist

VARIABLES state,        \* state[o]: "absent", "active" or a final status
          owner,        \* owner[o]: the collector o was submitted for
          cancel        \* cancel[o]: a cancellation of o was accepted

vars == <<state, owner, cancel>>

FinalStatus == {"succeeded", "failed", "cancelled", "timed_out"}

Init == /\ state  = [o \in Op |-> "absent"]
        /\ owner  = [o \in Op |-> NoCollector]
        /\ cancel = [o \in Op |-> FALSE]

Submit(o, c) ==
    /\ state[o] = "absent"
    /\ \A p \in Op : owner[p] = c => state[p] # "active"
    /\ state' = [state EXCEPT ![o] = "active"]
    /\ owner' = [owner EXCEPT ![o] = c]
    /\ UNCHANGED cancel

\* A cancellation is accepted once; the operation may end with it or later.
RequestCancel(o) ==
    /\ state[o] = "active" /\ ~cancel[o]
    /\ cancel' = [cancel EXCEPT ![o] = TRUE]
    /\ \/ UNCHANGED state
       \/ state' = [state EXCEPT ![o] = "cancelled"]
    /\ UNCHANGED owner

End(o, s) ==
    /\ state[o] = "active"
    /\ (s = "cancelled") <=> cancel[o]
    /\ state' = [state EXCEPT ![o] = s]
    /\ UNCHANGED <<owner, cancel>>

Finish(o) == \E s \in FinalStatus : End(o, s)

Next == \E o \in Op : \/ \E c \in Collector : Submit(o, c)
                      \/ RequestCancel(o)
                      \/ Finish(o)

Safety == Init /\ [][Next]_vars

Spec == Safety /\ \A o \in Op : WF_vars(Finish(o))
=============================================================================
