--------------------------- MODULE WebhookDelivery ---------------------------
(***************************************************************************)
(* Webhook deliveries of Extrio: the outbox rows a run or a sink test       *)
(* enqueues, the sinks an engineer edits meanwhile, and the dispatchers     *)
(* (one in each worker process) that claim a due delivery under a lease,    *)
(* POST it outside any transaction, and record the outcome if they still    *)
(* own it.                                                                  *)
(*                                                                          *)
(* Time is what the code compares: a lease is live or has run out, and a    *)
(* failed delivery is due or waits for its next_attempt_at.                 *)
(***************************************************************************)
EXTENDS Integers, FiniteSets

CONSTANTS Sink,                 \* sinks of a collector
          Delivery,             \* delivery ids: an item event and a sink version
          Dispatcher,           \* dispatchers: one per worker process
          MaxDeliveryAttempts,  \* MAX_DELIVERY_ATTEMPTS
          MaxVersion,           \* bound: updates of one sink
          MaxRedelivery,        \* bound: manual redeliveries of one delivery
          MaxFaults,            \* bound: crashes and late dispatchers
          Nobody,               \* lease_token NULL
          NoDelivery,           \* what an idle dispatcher holds
          NoSink                \* the sink of a delivery not yet enqueued

ASSUME LimitAssumption ==
    /\ MaxDeliveryAttempts \in Nat \ {0} /\ MaxVersion \in Nat \ {0}
    /\ MaxRedelivery \in Nat /\ MaxFaults \in Nat
ASSUME NullAssumption ==
    Nobody \notin Dispatcher /\ NoDelivery \notin Delivery /\ NoSink \notin Sink

VARIABLES sink,        \* rows of sinks
          delivery,    \* rows of deliveries
          dispatcher,  \* the claim a dispatcher holds in memory
          posts,       \* history: requests sent, by delivery and redelivery
          accepted,    \* history: requests the receiver took in
          target,      \* history: sink versions a delivery was sent to
          disturbed,   \* history: deliveries whose exchange was interfered with
          faults       \* crashes and late dispatchers so far

vars == <<sink, delivery, dispatcher, posts, accepted, target, disturbed, faults>>
history == <<posts, accepted, target, disturbed>>

-----------------------------------------------------------------------------
\* Claims of a cycle beyond the limit all count the same to _deliver.
Cycle == 0..(MaxDeliveryAttempts + 1)
Round == 0..MaxRedelivery

SinkType == [exists : BOOLEAN, enabled : BOOLEAN, version : 1..MaxVersion]

DeliveryType == [status  : {"absent", "pending", "delivering", "failed",
                            "delivered", "dead_lettered"},
                 sink    : Sink \cup {NoSink},
                 version : 1..MaxVersion,
                 due     : BOOLEAN,
                 lease   : {"none", "live", "expired"},
                 token   : Dispatcher \cup {Nobody},
                 cycle   : Cycle,
                 round   : Round]

DispatcherType == [pc       : {"idle", "claimed", "checked", "sending", "answered"},
                   delivery : Delivery \cup {NoDelivery},
                   cycle    : Cycle,
                   round    : Round,
                   verdict  : {"none", "delivered", "failed", "dead_lettered"}]

TypeOK ==
    /\ sink       \in [Sink -> SinkType]
    /\ delivery   \in [Delivery -> DeliveryType]
    /\ dispatcher \in [Dispatcher -> DispatcherType]
    /\ posts      \in [Delivery -> [Round -> Nat]]
    /\ accepted   \in [Delivery -> [Round -> Nat]]
    /\ target     \in [Delivery -> SUBSET (1..MaxVersion)]
    /\ disturbed  \subseteq Delivery
    /\ faults     \in 0..MaxFaults

NewDelivery == [status |-> "absent", sink |-> NoSink, version |-> 1, due |-> FALSE,
                lease |-> "none", token |-> Nobody, cycle |-> 0, round |-> 0]
Free == [pc |-> "idle", delivery |-> NoDelivery, cycle |-> 0, round |-> 0,
         verdict |-> "none"]

Settled(d) == delivery[d].status \in {"delivered", "dead_lettered"}

-----------------------------------------------------------------------------
(* Faults: definitions below as a plausible mistake would have written them. *)

\* Claimable: a delivery whose dispatcher died stays in "delivering".
ClaimableOnce(d) == delivery[d].status \in {"pending", "failed"} /\ delivery[d].due

\* Claimable: the lease of a claim is not looked at.
ClaimableUnderLease(d) ==
    \/ delivery[d].status \in {"pending", "failed"} /\ delivery[d].due
    \/ delivery[d].status = "delivering"

\* HoldsLease: the token is not compared.
HoldsLeaseOfAnyone(w) ==
    LET row == delivery[dispatcher[w].delivery] IN
    row.status = "delivering" /\ row.lease = "live"

\* Deliverable: the sink is used as it is now.
DeliverableAnyVersion(w) ==
    LET row == delivery[dispatcher[w].delivery] IN
    /\ sink[row.sink].exists
    /\ sink[row.sink].enabled
    /\ dispatcher[w].cycle <= MaxDeliveryAttempts

\* Deliverable: claims that ended in a crash are not limited.
DeliverableForever(w) ==
    LET row == delivery[dispatcher[w].delivery] IN
    /\ sink[row.sink].exists
    /\ sink[row.sink].enabled
    /\ sink[row.sink].version = row.version

\* Redeliver: the cycle's claims are not reset, its history is.
RedeliverWithoutReset(d) ==
    /\ delivery[d].status \notin {"absent", "delivering"}
    /\ delivery[d].round < MaxRedelivery
    /\ delivery' = [delivery EXCEPT ![d].status = "pending", ![d].due = TRUE,
                                    ![d].round = @ + 1]
    /\ UNCHANGED <<sink, dispatcher, history, faults>>

-----------------------------------------------------------------------------
Init ==
    /\ sink       = [s \in Sink |-> [exists |-> TRUE, enabled |-> TRUE, version |-> 1]]
    /\ delivery   = [d \in Delivery |-> NewDelivery]
    /\ dispatcher = [w \in Dispatcher |-> Free]
    /\ posts      = [d \in Delivery |-> [r \in Round |-> 0]]
    /\ accepted   = [d \in Delivery |-> [r \in Round |-> 0]]
    /\ target     = [d \in Delivery |-> {}]
    /\ disturbed  = {}
    /\ faults     = 0

(* The control plane *)

\* store.enqueue_delivery of a delivery that is not there yet.
Insert(d, s, v) ==
    /\ delivery[d] = NewDelivery
    /\ sink[s].exists
    /\ delivery' = [delivery EXCEPT ![d] =
          [NewDelivery EXCEPT !.status = "pending", !.due = TRUE,
                              !.sink = s, !.version = v]]
    /\ UNCHANGED <<sink, dispatcher, history, faults>>

\* Worker.enqueue_run_deliveries, in the transaction that commits the run: the
\* enabled sinks in their current version.
EnqueueItem(d, s) == sink[s].enabled /\ Insert(d, s, sink[s].version)

\* POST /sinks/{id}/test: enabled or not, in the version enqueue_delivery read
\* before its transaction.
EnqueueTest(d, s) == \E v \in 1..sink[s].version : Insert(d, s, v)

\* store.update_sink: every update, of whatever field, is a new version.
UpdateSink(s) ==
    /\ sink[s].exists
    /\ sink[s].version < MaxVersion
    /\ \E enabled \in BOOLEAN :
         sink' = [sink EXCEPT ![s].enabled = enabled, ![s].version = @ + 1]
    /\ UNCHANGED <<delivery, dispatcher, history, faults>>

\* store.delete_sink: its deliveries go with it (ON DELETE CASCADE).
DeleteSink(s) ==
    /\ sink[s].exists
    /\ sink' = [sink EXCEPT ![s].exists = FALSE]
    /\ delivery' = [d \in Delivery |->
          IF delivery[d].sink = s THEN [NewDelivery EXCEPT !.sink = s]
                                  ELSE delivery[d]]
    /\ UNCHANGED <<dispatcher, history, faults>>

\* store.redeliver_delivery: of any delivery not being delivered just now.
Redeliver(d) ==
    /\ delivery[d].status \notin {"absent", "delivering"}
    /\ delivery[d].round < MaxRedelivery
    /\ delivery' = [delivery EXCEPT ![d].status = "pending", ![d].due = TRUE,
                                    ![d].cycle = 0, ![d].round = @ + 1]
    /\ UNCHANGED <<sink, dispatcher, history, faults>>

-----------------------------------------------------------------------------
(* The dispatcher *)

\* What store.claim_due_deliveries selects from; it takes the one due longest.
Claimable(d) ==
    \/ delivery[d].status \in {"pending", "failed"} /\ delivery[d].due
    \/ delivery[d].status = "delivering" /\ delivery[d].lease = "expired"

\* A claim takes one of the cycle's attempts, a fresh token and a fresh lease.
Claim(w) ==
    /\ dispatcher[w].pc = "idle"
    /\ \E d \in Delivery :
         LET n == IF delivery[d].cycle > MaxDeliveryAttempts
                  THEN delivery[d].cycle ELSE delivery[d].cycle + 1
         IN  /\ Claimable(d)
             /\ delivery' = [delivery EXCEPT
                   ![d].status = "delivering", ![d].lease = "live",
                   ![d].token = w, ![d].cycle = n]
             /\ dispatcher' = [dispatcher EXCEPT ![w] =
                   [pc |-> "claimed", delivery |-> d, cycle |-> n,
                    round |-> delivery[d].round, verdict |-> "none"]]
    /\ UNCHANGED <<sink, history, faults>>

\* store.check_delivery_lease.
HoldsLease(w) ==
    LET row == delivery[dispatcher[w].delivery] IN
    row.status = "delivering" /\ row.token = w /\ row.lease = "live"

\* The first thing _deliver does, in a transaction of its own.
CheckLease(w) ==
    /\ dispatcher[w].pc = "claimed"
    /\ HoldsLease(w)
    /\ dispatcher' = [dispatcher EXCEPT ![w].pc = "checked"]
    /\ UNCHANGED <<sink, delivery, history, faults>>

\* The guards of _deliver on the sink it read and the claim it holds.
Deliverable(w) ==
    LET row == delivery[dispatcher[w].delivery] IN
    /\ sink[row.sink].exists
    /\ sink[row.sink].enabled
    /\ sink[row.sink].version = row.version
    /\ dispatcher[w].cycle <= MaxDeliveryAttempts

\* _deliver reads the sink, after the check and before the request; a sink
\* that no longer fits is a dead letter without a request.
ReadSink(w) ==
    /\ dispatcher[w].pc = "checked"
    /\ dispatcher' = [dispatcher EXCEPT
          ![w].pc      = IF Deliverable(w) THEN "sending" ELSE "answered",
          ![w].verdict = IF Deliverable(w) THEN "none" ELSE "dead_lettered"]
    /\ target' = [target EXCEPT ![dispatcher[w].delivery] =
          IF Deliverable(w) THEN @ \cup {sink[delivery[dispatcher[w].delivery].sink].version}
                            ELSE @]
    /\ UNCHANGED <<sink, delivery, posts, accepted, disturbed, faults>>

\* The verdict on a failed request: after the last attempt no other is planned.
Retry(w) == IF dispatcher[w].cycle >= MaxDeliveryAttempts THEN "dead_lettered"
                                                          ELSE "failed"

\* _post: 2xx, a permanent 4xx, or a failure worth a retry.  A request that
\* failed may have been taken in all the same: the answer was lost.
Post(w) ==
    LET d == dispatcher[w].delivery
        r == dispatcher[w].round
    IN  /\ dispatcher[w].pc = "sending"
        /\ posts' = [posts EXCEPT ![d][r] = @ + 1]
        /\ \E verdict \in {"delivered", "dead_lettered", Retry(w)}, taken \in BOOLEAN :
             /\ verdict = "delivered" => taken
             /\ dispatcher' = [dispatcher EXCEPT ![w].pc = "answered",
                                                 ![w].verdict = verdict]
             /\ accepted' = [accepted EXCEPT ![d][r] = IF taken THEN @ + 1 ELSE @]
             /\ disturbed' = IF taken /\ verdict # "delivered"
                             THEN disturbed \cup {d} ELSE disturbed
        /\ UNCHANGED <<sink, delivery, target, faults>>

\* Fault, for DispatchError: the exception is noted without a verdict.
DispatchErrorUnrecorded(w) ==
    /\ dispatcher[w].pc \in {"claimed", "checked", "sending", "answered"}
    /\ faults < MaxFaults
    /\ faults' = faults + 1
    /\ dispatcher' = [dispatcher EXCEPT ![w].pc = "answered"]
    /\ disturbed' = disturbed \cup {dispatcher[w].delivery}
    /\ UNCHANGED <<sink, delivery, posts, accepted, target>>

\* process: any other exception is recorded as a failed attempt, even when it
\* was raised after the receiver had answered.
DispatchError(w) ==
    /\ dispatcher[w].pc \in {"claimed", "checked", "sending", "answered"}
    /\ faults < MaxFaults
    /\ faults' = faults + 1
    /\ dispatcher' = [dispatcher EXCEPT ![w].pc = "answered", ![w].verdict = Retry(w)]
    /\ disturbed' = disturbed \cup {dispatcher[w].delivery}
    /\ UNCHANGED <<sink, delivery, posts, accepted, target>>

\* store.finalize_delivery: the outcome, if the claim is still the owner's.
Finalize(w) ==
    LET d == dispatcher[w].delivery
        verdict == dispatcher[w].verdict
    IN  /\ dispatcher[w].pc = "answered"
        /\ HoldsLease(w)
        /\ delivery' = [delivery EXCEPT ![d].status = verdict, ![d].due = FALSE,
                                        ![d].lease = "none", ![d].token = Nobody]
        /\ dispatcher' = [dispatcher EXCEPT ![w] = Free]
        /\ UNCHANGED <<sink, history, faults>>

\* check_delivery_lease raises JobLeaseLost: the answer is dropped.
LeaseLost(w) ==
    /\ dispatcher[w].pc \in {"claimed", "answered"}
    /\ ~HoldsLease(w)
    /\ dispatcher' = [dispatcher EXCEPT ![w] = Free]
    /\ UNCHANGED <<sink, delivery, history, faults>>

-----------------------------------------------------------------------------
(* Time and faults *)

Held(d) == \E w \in Dispatcher : dispatcher[w].delivery = d /\ delivery[d].token = w

\* next_attempt_at is reached.
BecomeDue(d) ==
    /\ delivery[d].status = "failed"
    /\ ~delivery[d].due
    /\ delivery' = [delivery EXCEPT ![d].due = TRUE]
    /\ UNCHANGED <<sink, dispatcher, history, faults>>

\* The lease of a claim nobody works on any more runs out.
LeaseRunsOut(d) ==
    /\ delivery[d].lease = "live"
    /\ ~Held(d)
    /\ delivery' = [delivery EXCEPT ![d].lease = "expired"]
    /\ UNCHANGED <<sink, dispatcher, history, faults>>

\* A dispatcher that is too slow outlives its lease.
Overrun(d) ==
    /\ delivery[d].lease = "live"
    /\ Held(d)
    /\ faults < MaxFaults
    /\ faults' = faults + 1
    /\ delivery' = [delivery EXCEPT ![d].lease = "expired"]
    /\ disturbed' = disturbed \cup {d}
    /\ UNCHANGED <<sink, dispatcher, posts, accepted, target>>

\* The process dies, or the outcome cannot be recorded: the row keeps its lease.
Crash(w) ==
    /\ dispatcher[w].pc # "idle"
    /\ faults < MaxFaults
    /\ faults' = faults + 1
    /\ dispatcher' = [dispatcher EXCEPT ![w] = Free]
    /\ disturbed' = disturbed \cup {dispatcher[w].delivery}
    /\ UNCHANGED <<sink, delivery, posts, accepted, target>>

-----------------------------------------------------------------------------
Proceed(w) == \/ CheckLease(w) \/ ReadSink(w) \/ Post(w)
              \/ Finalize(w)   \/ LeaseLost(w)

Next == \/ \E s \in Sink : \/ \E d \in Delivery : EnqueueItem(d, s) \/ EnqueueTest(d, s)
                           \/ UpdateSink(s)
                           \/ DeleteSink(s)
        \/ \E d \in Delivery : \/ Redeliver(d) \/ BecomeDue(d)
                               \/ LeaseRunsOut(d) \/ Overrun(d)
        \/ \E w \in Dispatcher : \/ Claim(w) \/ Proceed(w)
                                 \/ DispatchError(w) \/ Crash(w)

Spec == Init /\ [][Next]_vars

\* The worker loop polls for due deliveries and ends each claim it took; time
\* passes.  Crashes, errors and commands need not happen.
Fairness == /\ \A w \in Dispatcher : WF_vars(Proceed(w))
            /\ WF_vars(\E w \in Dispatcher : Claim(w))
            /\ \A d \in Delivery : WF_vars(BecomeDue(d)) /\ WF_vars(LeaseRunsOut(d))

FairSpec == Spec /\ Fairness

-----------------------------------------------------------------------------
(* Properties *)

\* Claims, not recorded outcomes, are counted: over crashes and reclaims a round
\* sends at most MAX_DELIVERY_ATTEMPTS requests (delivery.py:194), and the
\* receiver gets a delivery once for each time it was asked for, unless a crash,
\* an error after the answer, a lost answer or a late dispatcher interfered: the
\* duplicates the stable Idempotency-Key is there for.  A changed sink does not
\* receive what was meant for its earlier version.
RequestsJustified ==
    \A d \in Delivery :
        /\ \A r \in Round :
              /\ posts[d][r] <= MaxDeliveryAttempts
              /\ accepted[d][r] > 1 => d \in disturbed
        /\ delivery[d].status # "absent" => target[d] \subseteq {delivery[d].version}

\* What a row says of its round is so: "delivered" only if the receiver took it
\* in, not even by a dispatcher left over from before a redelivery, and, when
\* nothing interfered, "dead_lettered" without any request only for a sink that
\* does not take it; a manual redelivery has its attempts again.
OutcomeTruthful ==
    \A d \in Delivery :
        LET row == delivery[d] IN
        /\ row.status = "delivered" => accepted[d][row.round] > 0
        /\ row.status = "dead_lettered" /\ d \notin disturbed
           => \/ posts[d][row.round] > 0
              \/ ~sink[row.sink].enabled
              \/ sink[row.sink].version # row.version

\* An outcome is recorded by the dispatcher whose claim is the latest, while
\* its lease lasts; what an overtaken dispatcher learned is dropped.
OutcomeFenced ==
    [][\A d \in Delivery :
          /\ delivery[d].status = "delivering"
          /\ delivery'[d].status \notin {"delivering", "absent"}
          => /\ delivery[d].lease = "live"
             /\ \E w \in Dispatcher : /\ dispatcher[w].delivery = d
                                      /\ delivery[d].token = w
                                      /\ dispatcher[w].verdict = delivery'[d].status
                                      /\ dispatcher'[w] = Free]_vars

\* Every delivery is settled in the end, or deleted with its sink: no crash
\* leaves it in "delivering" for good.
AllSettled == \A d \in Delivery : Settled(d) \/ delivery[d].status = "absent"

EventuallySettled == <>[]AllSettled

\* A delivery that was made stays delivered when it is asked for again
\* (docs/releases/v0.2-acceptance.md:272).
DeliveredStays ==
    [][\A d \in Delivery : delivery[d].status = "delivered" =>
          delivery'[d].status \in {"delivered", "absent"}]_vars
=============================================================================
