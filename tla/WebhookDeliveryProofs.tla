----------------------- MODULE WebhookDeliveryProofs -----------------------
(***************************************************************************)
(* Theorems about WebhookDelivery, for any number of sinks, deliveries,     *)
(* dispatchers, attempts, updates, redeliveries and faults.                 *)
(***************************************************************************)
EXTENDS WebhookDelivery, TLAPS, FiniteSetTheorems

Enqueued(d) == delivery[d].status # "absent"
On(w, d)    == dispatcher[w].delivery = d

-----------------------------------------------------------------------------
(* The inductive invariant *)

\* What a dispatcher holds belongs to its point in _deliver.
Dispatchers == \A w \in Dispatcher :
    /\ dispatcher[w].pc = "idle" => dispatcher[w].delivery = NoDelivery
    /\ dispatcher[w].pc # "idle" => dispatcher[w].delivery \in Delivery
    /\ dispatcher[w].pc = "sending" => dispatcher[w].cycle <= MaxDeliveryAttempts
    /\ dispatcher[w].pc = "answered" <=> dispatcher[w].verdict # "none"

\* A delivery that was never enqueued has left no trace; one that is there has
\* its sink, in this version or an earlier one, and went to no other version.
Rows == \A d \in Delivery :
    /\ delivery[d].sink = NoSink =>
          /\ delivery[d].status = "absent"
          /\ target[d] = {}
          /\ \A r \in Round : posts[d][r] = 0 /\ accepted[d][r] = 0
          /\ \A w \in Dispatcher : ~On(w, d)
    /\ delivery[d].status = "delivering" <=> delivery[d].lease # "none"
    /\ delivery[d].status = "pending" => delivery[d].cycle = 0
    /\ Enqueued(d) =>
          /\ sink[delivery[d].sink].exists
          /\ delivery[d].version <= sink[delivery[d].sink].version
          /\ target[d] \subseteq {delivery[d].version}

\* The claims dispatchers hold were given out: in this round of the delivery,
\* up to its cycle, or in an earlier one.
Rounds == \A d \in Delivery : Enqueued(d) =>
    /\ \A r \in Round : r > delivery[d].round => posts[d][r] = 0 /\ accepted[d][r] = 0
    /\ \A w \in Dispatcher : On(w, d) =>
          /\ dispatcher[w].round <= delivery[d].round
          /\ dispatcher[w].round = delivery[d].round =>
                dispatcher[w].cycle <= delivery[d].cycle

\* Whoever holds the token has the latest claim.
Latest == \A d \in Delivery, w \in Dispatcher :
    delivery[d].status = "delivering" /\ delivery[d].token = w /\ On(w, d) =>
       /\ dispatcher[w].round = delivery[d].round
       /\ dispatcher[w].cycle = delivery[d].cycle

\* No two dispatchers hold the same claim of a delivery.
ClaimsDiffer == \A d \in Delivery : \A v, w \in Dispatcher :
    /\ On(v, d) /\ On(w, d)
    /\ dispatcher[v].round = dispatcher[w].round
    /\ dispatcher[v].cycle = dispatcher[w].cycle
    /\ dispatcher[w].cycle <= MaxDeliveryAttempts
    => v = w

\* The claims of a round that may still send their request.
BeforePost(d, r) == {w \in Dispatcher :
    /\ dispatcher[w].pc \in {"claimed", "checked", "sending"}
    /\ On(w, d) /\ dispatcher[w].round = r
    /\ dispatcher[w].cycle <= MaxDeliveryAttempts}
Pending(d, r) == {dispatcher[w].cycle : w \in BeforePost(d, r)}

\* Every request that was sent or may still be sent has a claim of its own.
Counted(d, r) ==
    /\ posts[d][r] + Cardinality(Pending(d, r)) <= MaxDeliveryAttempts
    /\ Enqueued(d) /\ r = delivery[d].round =>
          posts[d][r] + Cardinality(Pending(d, r)) <= delivery[d].cycle

RequestsCounted == \A d \in Delivery, r \in Round : Counted(d, r)

\* As long as nothing interferes, one dispatcher at most works on a delivery,
\* it holds the lease, and it works on every delivery that is being delivered.
Alone == \A d \in Delivery : d \notin disturbed =>
    /\ \A v, w \in Dispatcher : On(v, d) /\ On(w, d) => v = w
    /\ Enqueued(d) => \A w \in Dispatcher : On(w, d) =>
          /\ delivery[d].status = "delivering" /\ delivery[d].lease = "live"
          /\ delivery[d].token = w
    /\ delivery[d].status = "delivering" => \E w \in Dispatcher : On(w, d)

\* "delivered" is said only of what the receiver took in.
Received == \A d \in Delivery :
    /\ \A w \in Dispatcher : On(w, d) /\ dispatcher[w].verdict = "delivered" =>
          accepted[d][dispatcher[w].round] > 0
    /\ delivery[d].status = "delivered" => accepted[d][delivery[d].round] > 0

\* As long as nothing interferes, only "delivered" is said of it.
TakenOnce == \A d \in Delivery : d \notin disturbed =>
    /\ \A r \in Round : accepted[d][r] <= 1
    /\ \A w \in Dispatcher : On(w, d) /\ dispatcher[w].verdict # "delivered" =>
          accepted[d][dispatcher[w].round] = 0
    /\ delivery[d].status \in {"pending", "failed"} =>
          accepted[d][delivery[d].round] = 0

\* The sink does not take what was enqueued for it.
Unfit(d) == \/ ~sink[delivery[d].sink].enabled
            \/ sink[delivery[d].sink].version # delivery[d].version

\* As long as nothing interferes, an attempt that failed was made, and so was
\* every claim before the latest; a dead letter was tried or could not be.
Tried == \A d \in Delivery : d \notin disturbed /\ Enqueued(d) =>
    /\ delivery[d].status = "failed" => posts[d][delivery[d].round] > 0
    /\ delivery[d].cycle >= 2 => posts[d][delivery[d].round] > 0
    /\ delivery[d].status = "dead_lettered" =>
          posts[d][delivery[d].round] > 0 \/ Unfit(d)
    /\ \A w \in Dispatcher : On(w, d) =>
          /\ dispatcher[w].verdict = "failed" => posts[d][dispatcher[w].round] > 0
          /\ dispatcher[w].verdict = "dead_lettered" =>
                posts[d][dispatcher[w].round] > 0 \/ Unfit(d)

WInv == /\ TypeOK /\ Dispatchers /\ Rows /\ Rounds /\ Latest /\ ClaimsDiffer
        /\ RequestsCounted /\ Alone /\ Received /\ TakenOnce /\ Tried

-----------------------------------------------------------------------------
(* Counting requests *)

LEMMA PendingFinite ==
    ASSUME TypeOK, NEW d, NEW r
    PROVE  /\ Pending(d, r) \subseteq 0..MaxDeliveryAttempts
           /\ IsFiniteSet(Pending(d, r)) /\ Cardinality(Pending(d, r)) \in Nat
<1>1. Pending(d, r) \subseteq 0..MaxDeliveryAttempts
  BY LimitAssumption DEF Pending, BeforePost, TypeOK, DispatcherType, Cycle
<1>2. IsFiniteSet(0..MaxDeliveryAttempts)
  BY LimitAssumption, FS_Interval
<1>3. IsFiniteSet(Pending(d, r))
  BY <1>1, <1>2, FS_Subset
<1> QED
  BY <1>1, <1>3, FS_CardinalityType

\* How adding and removing a member changes the size of a finite set.
LEMMA OneMore ==
    ASSUME NEW S, IsFiniteSet(S), NEW x
    PROVE  /\ Cardinality(S) \in Nat /\ Cardinality(S \cup {x}) \in Nat
           /\ Cardinality(S \cup {x}) <= Cardinality(S) + 1
<1>1. IsFiniteSet(S \cup {x}) /\ Cardinality(S \cup {x}) =
         IF x \in S THEN Cardinality(S) ELSE Cardinality(S) + 1
  BY FS_AddElement
<1>2. Cardinality(S) \in Nat
  BY FS_CardinalityType
<1> QED
  BY <1>1, <1>2

LEMMA OneLess ==
    ASSUME NEW S, IsFiniteSet(S), NEW x \in S, NEW T, T \subseteq S \ {x}
    PROVE  /\ Cardinality(S) \in Nat /\ Cardinality(T) \in Nat
           /\ Cardinality(T) <= Cardinality(S) - 1
<1>1. IsFiniteSet(S \ {x}) /\ Cardinality(S \ {x}) = Cardinality(S) - 1
  BY FS_RemoveElement
<1>2. IsFiniteSet(T) /\ Cardinality(T) <= Cardinality(S \ {x})
  BY <1>1, FS_Subset
<1>3. Cardinality(S) \in Nat /\ Cardinality(T) \in Nat
  BY <1>2, FS_CardinalityType
<1> QED
  BY <1>1, <1>2, <1>3

\* The types that arithmetic on a delivery's round needs.
LEMMA CountTypes ==
    ASSUME TypeOK, NEW d \in Delivery, NEW r \in Round
    PROVE  /\ posts[d][r] \in Nat /\ accepted[d][r] \in Nat
           /\ delivery[d] \in DeliveryType /\ delivery[d].cycle \in Nat
           /\ delivery[d].round \in Round /\ Round \subseteq Nat
           /\ MaxDeliveryAttempts \in Nat \ {0}
BY LimitAssumption DEF TypeOK, DeliveryType, Cycle, Round

\* A step that sends nothing and hands out no claim.
LEMMA CountedKept ==
    ASSUME TypeOK, TypeOK', NEW d \in Delivery, NEW r \in Round, Counted(d, r),
           Pending(d, r)' \subseteq Pending(d, r), posts'[d][r] = posts[d][r],
           Enqueued(d)' /\ r = delivery'[d].round =>
              /\ Enqueued(d) /\ r = delivery[d].round
              /\ delivery[d].cycle <= delivery'[d].cycle
    PROVE  Counted(d, r)'
<1>1. /\ Cardinality(Pending(d, r)) \in Nat /\ Cardinality(Pending(d, r)') \in Nat
      /\ Cardinality(Pending(d, r)') <= Cardinality(Pending(d, r))
  BY PendingFinite, FS_Subset, FS_CardinalityType
<1>2. posts[d][r] \in Nat /\ delivery[d].cycle \in Nat /\ MaxDeliveryAttempts \in Nat
  BY CountTypes
<1>3. delivery'[d].cycle \in Nat
  BY DEF TypeOK, DeliveryType, Cycle
<1> QED
  BY <1>1, <1>2, <1>3 DEF Counted

LEMMA PendingKept ==
    ASSUME NEW d, NEW r,
           \A w \in Dispatcher :
              dispatcher'[w].pc \in {"claimed", "checked", "sending"} /\ On(w, d)' =>
                 /\ dispatcher[w].pc \in {"claimed", "checked", "sending"}
                 /\ On(w, d)
                 /\ dispatcher'[w].round = dispatcher[w].round
                 /\ dispatcher'[w].cycle = dispatcher[w].cycle
    PROVE  Pending(d, r)' \subseteq Pending(d, r)
<1>1. BeforePost(d, r)' \subseteq BeforePost(d, r)
  BY DEF BeforePost
<1>2. \A w \in BeforePost(d, r)' : dispatcher'[w].cycle = dispatcher[w].cycle
  BY DEF BeforePost
<1> QED
  BY <1>1, <1>2 DEF Pending

-----------------------------------------------------------------------------
(* Steps that change what a dispatcher holds, and nothing of the rows *)

\* A dispatcher that is done with its delivery, or goes on with it.
LEMMA DispatcherStep ==
    ASSUME WInv, UNCHANGED <<sink, delivery, posts, accepted, target>>,
           NEW w \in Dispatcher, NEW x \in DispatcherType, dispatcher[w].pc # "idle",
           dispatcher' = [dispatcher EXCEPT ![w] = x],
           disturbed \subseteq disturbed', disturbed' \subseteq Delivery,
           faults' \in 0..MaxFaults,
           \/ /\ x = Free
              /\ \/ dispatcher[w].delivery \in disturbed'
                 \/ delivery[dispatcher[w].delivery].status # "delivering"
           \/ /\ x.delivery = dispatcher[w].delivery /\ x.round = dispatcher[w].round
              /\ x.cycle = dispatcher[w].cycle
              /\ x.pc \in {"checked", "answered"}
              /\ x.pc = "answered" <=> x.verdict # "none"
              /\ x.pc = "checked" => dispatcher[w].pc = "claimed"
              /\ x.verdict # "delivered"
              /\ \/ dispatcher[w].delivery \in disturbed'
                 \/ x.verdict = dispatcher[w].verdict
    PROVE  WInv'
<1>0. /\ TypeOK /\ Dispatchers /\ Rows /\ Rounds /\ Latest /\ ClaimsDiffer
      /\ RequestsCounted /\ Alone /\ Received /\ TakenOnce /\ Tried
  BY DEF WInv
<1>1. /\ dispatcher' \in [Dispatcher -> DispatcherType] /\ dispatcher'[w] = x
      /\ \A v \in Dispatcher : v # w => dispatcher'[v] = dispatcher[v]
  BY <1>0 DEF TypeOK
<1>2. Free.pc = "idle" /\ Free.delivery = NoDelivery /\ Free.verdict = "none"
  BY DEF Free
<1>3. dispatcher[w].delivery \in Delivery
  BY <1>0 DEF Dispatchers
<1>4. \A v \in Dispatcher, d \in Delivery : On(v, d)' =>
         /\ On(v, d) /\ dispatcher'[v].round = dispatcher[v].round
         /\ dispatcher'[v].cycle = dispatcher[v].cycle
         /\ \/ dispatcher'[v] = dispatcher[v]
            \/ v = w /\ dispatcher'[v] = x /\ x # Free
  BY <1>1, <1>2, NullAssumption DEF On
<1>5. TypeOK'
  BY <1>0, <1>1 DEF TypeOK
<1>6. Dispatchers'
  BY <1>0, <1>1, <1>2, <1>3 DEF Dispatchers
<1>7. Rows' /\ Rounds'
  BY <1>0, <1>4 DEF Rows, Rounds, Enqueued
<1>8. Latest' /\ ClaimsDiffer'
  BY <1>0, <1>4 DEF Latest, ClaimsDiffer
<1>9. RequestsCounted'
  <2> SUFFICES ASSUME NEW d \in Delivery, NEW r \in Round PROVE Counted(d, r)'
    BY DEF RequestsCounted
  <2>1. Counted(d, r) /\ (Enqueued(d)' <=> Enqueued(d))
    BY <1>0 DEF RequestsCounted, Enqueued
  <2>2. Pending(d, r)' \subseteq Pending(d, r)
    BY <1>1, <1>2, <1>4, PendingKept
  <2>3. delivery[d].cycle <= delivery[d].cycle
    BY <1>0, CountTypes
  <2> QED
    BY <1>0, <1>5, <2>1, <2>2, <2>3, CountedKept
<1>10. Alone'
  <2> SUFFICES ASSUME NEW d \in Delivery, d \notin disturbed'
               PROVE  /\ \A v, u \in Dispatcher : On(v, d)' /\ On(u, d)' => v = u
                      /\ Enqueued(d) => \A v \in Dispatcher : On(v, d)' =>
                            /\ delivery[d].status = "delivering"
                            /\ delivery[d].lease = "live" /\ delivery[d].token = v
                      /\ delivery[d].status = "delivering" =>
                            \E v \in Dispatcher : On(v, d)'
    BY DEF Alone, Enqueued
  <2>1. d \notin disturbed
    OBVIOUS
  <2>2. ASSUME delivery[d].status = "delivering" PROVE \E v \in Dispatcher : On(v, d)'
    <3>1. PICK v \in Dispatcher : On(v, d)
      BY <1>0, <2>1, <2>2 DEF Alone
    <3>2. On(v, d)'
      BY <1>1, <2>2, <3>1 DEF On
    <3> QED
      BY <3>2
  <2> QED
    BY <1>0, <1>4, <2>1, <2>2 DEF Alone
<1>11. Received'
  BY <1>0, <1>4 DEF Received
<1>12. TakenOnce' /\ Tried'
  <2>1. \A v \in Dispatcher, d \in Delivery : On(v, d)' /\ d \notin disturbed' =>
           dispatcher'[v].verdict = dispatcher[v].verdict
    BY <1>1, <1>4 DEF On
  <2>2. \A d \in Delivery : d \notin disturbed' => d \notin disturbed
    OBVIOUS
  <2>3. TakenOnce'
    BY <1>0, <1>4, <2>1, <2>2 DEF TakenOnce
  <2>4. Tried'
    BY <1>0, <1>4, <2>1, <2>2 DEF Tried, Enqueued, Unfit
  <2> QED
    BY <2>3, <2>4
<1> QED
  BY <1>5, <1>6, <1>7, <1>8, <1>9, <1>10, <1>11, <1>12 DEF WInv

LEMMA FreeType == Free \in DispatcherType
BY LimitAssumption DEF Free, DispatcherType, Cycle, Round

\* The steps of a dispatcher that write no row.
LEMMA HandlerSteps ==
    ASSUME WInv, NEW w \in Dispatcher,
           CheckLease(w) \/ LeaseLost(w) \/ Crash(w) \/ DispatchError(w)
    PROVE  WInv'
<1>0. /\ dispatcher \in [Dispatcher -> DispatcherType] /\ dispatcher[w] \in DispatcherType
      /\ disturbed \subseteq Delivery /\ faults \in 0..MaxFaults
  BY DEF WInv, TypeOK
<1> DEFINE d == dispatcher[w].delivery
<1>a. dispatcher[w].pc # "idle" => d \in Delivery
  BY DEF WInv, Dispatchers
<1>b. faults < MaxFaults => faults + 1 \in 0..MaxFaults
  BY <1>0, LimitAssumption
<1>1. CASE CheckLease(w)
  <2> DEFINE x == [dispatcher[w] EXCEPT !.pc = "checked"]
  <2>1. /\ x \in DispatcherType /\ x.delivery = d /\ x.round = dispatcher[w].round
        /\ x.cycle = dispatcher[w].cycle /\ x.pc = "checked"
        /\ x.verdict = dispatcher[w].verdict
    BY <1>0 DEF DispatcherType
  <2>2. /\ dispatcher[w].pc = "claimed"
        /\ dispatcher' = [dispatcher EXCEPT ![w] = x]
        /\ UNCHANGED <<sink, delivery, posts, accepted, target, disturbed, faults>>
    BY <1>1 DEF CheckLease, history
  <2>3. x.verdict = "none"
    BY <2>1, <2>2 DEF WInv, Dispatchers
  <2> HIDE DEF x
  <2> QED
    BY <1>0, <2>1, <2>2, <2>3, DispatcherStep
<1>2. CASE LeaseLost(w)
  <2>1. /\ dispatcher[w].pc # "idle" /\ ~HoldsLease(w)
        /\ dispatcher' = [dispatcher EXCEPT ![w] = Free]
        /\ UNCHANGED <<sink, delivery, posts, accepted, target, disturbed, faults>>
    BY <1>2 DEF LeaseLost, history
  <2>2. d \in disturbed \/ delivery[d].status # "delivering"
    BY <1>a, <2>1 DEF WInv, Alone, On, Enqueued, HoldsLease
  <2> QED
    BY <1>0, <2>1, <2>2, FreeType, DispatcherStep
<1>3. CASE Crash(w)
  <2>1. /\ dispatcher[w].pc # "idle" /\ faults' = faults + 1 /\ faults < MaxFaults
        /\ dispatcher' = [dispatcher EXCEPT ![w] = Free]
        /\ disturbed' = disturbed \cup {d}
        /\ UNCHANGED <<sink, delivery, posts, accepted, target>>
    BY <1>3 DEF Crash
  <2> QED
    BY <1>0, <1>a, <1>b, <2>1, FreeType, DispatcherStep
<1>4. CASE DispatchError(w)
  <2> DEFINE x == [dispatcher[w] EXCEPT !.pc = "answered", !.verdict = Retry(w)]
  <2>1. Retry(w) \in {"dead_lettered", "failed"}
    BY DEF Retry
  <2>2. /\ x \in DispatcherType /\ x.delivery = d /\ x.round = dispatcher[w].round
        /\ x.cycle = dispatcher[w].cycle /\ x.pc = "answered" /\ x.verdict = Retry(w)
    BY <1>0, <2>1 DEF DispatcherType
  <2>3. /\ dispatcher[w].pc # "idle" /\ faults' = faults + 1 /\ faults < MaxFaults
        /\ dispatcher' = [dispatcher EXCEPT ![w] = x]
        /\ disturbed' = disturbed \cup {d}
        /\ UNCHANGED <<sink, delivery, posts, accepted, target>>
    BY <1>4 DEF DispatchError
  <2> HIDE DEF x
  <2> QED
    BY <1>0, <1>a, <1>b, <2>1, <2>2, <2>3, DispatcherStep
<1> QED
  BY <1>1, <1>2, <1>3, <1>4

-----------------------------------------------------------------------------
(* Steps that change rows, and nothing a dispatcher holds *)

\* Time: a retry becomes due, a lease runs out.
LEMMA TimeSteps ==
    ASSUME WInv, NEW d \in Delivery, BecomeDue(d) \/ LeaseRunsOut(d) \/ Overrun(d)
    PROVE  WInv'
<1>0. /\ TypeOK /\ Dispatchers /\ Rows /\ Rounds /\ Latest /\ ClaimsDiffer
      /\ RequestsCounted /\ Alone /\ Received /\ TakenOnce /\ Tried
  BY DEF WInv
<1>1. delivery \in [Delivery -> DeliveryType] /\ UNCHANGED <<sink, dispatcher, posts, accepted, target>>
  BY <1>0 DEF TypeOK, BecomeDue, LeaseRunsOut, Overrun, history
<1>2. /\ delivery' \in [Delivery -> DeliveryType]
      /\ \A e \in Delivery : e # d => delivery'[e] = delivery[e]
      /\ delivery'[d].status = delivery[d].status /\ delivery'[d].sink = delivery[d].sink
      /\ delivery'[d].version = delivery[d].version
      /\ delivery'[d].token = delivery[d].token
      /\ delivery'[d].cycle = delivery[d].cycle /\ delivery'[d].round = delivery[d].round
      /\ delivery'[d].lease = "none" <=> delivery[d].lease = "none"
      /\ delivery'[d].lease = delivery[d].lease \/ delivery'[d].lease = "expired"
  <2>1. CASE BecomeDue(d)
    BY <1>1, <2>1 DEF BecomeDue, DeliveryType
  <2>2. CASE LeaseRunsOut(d) \/ Overrun(d)
    BY <1>1, <2>2 DEF LeaseRunsOut, Overrun, DeliveryType
  <2> QED
    BY <2>1, <2>2
<1>3. /\ disturbed \subseteq disturbed' /\ disturbed' \subseteq Delivery
      /\ faults' \in 0..MaxFaults
  BY <1>0, LimitAssumption DEF TypeOK, BecomeDue, LeaseRunsOut, Overrun, history
<1>4. delivery'[d].lease # delivery[d].lease => d \in disturbed'
  <2>1. CASE BecomeDue(d)
    BY <1>1, <2>1 DEF BecomeDue, DeliveryType
  <2>2. CASE LeaseRunsOut(d)
    BY <1>0, <1>3, <2>2 DEF LeaseRunsOut, Held, Alone, Rows, On, Enqueued
  <2>3. CASE Overrun(d)
    BY <2>3 DEF Overrun
  <2> QED
    BY <2>1, <2>2, <2>3
<1>5. \A e \in Delivery :
         /\ Enqueued(e)' <=> Enqueued(e)
         /\ delivery'[e].status = delivery[e].status /\ delivery'[e].sink = delivery[e].sink
         /\ delivery'[e].version = delivery[e].version
         /\ delivery'[e].token = delivery[e].token
         /\ delivery'[e].cycle = delivery[e].cycle /\ delivery'[e].round = delivery[e].round
         /\ delivery'[e].lease = "none" <=> delivery[e].lease = "none"
         /\ e \notin disturbed' => /\ e \notin disturbed
                                   /\ delivery'[e].lease = delivery[e].lease
  BY <1>2, <1>3, <1>4 DEF Enqueued
<1>6. TypeOK'
  BY <1>0, <1>1, <1>2, <1>3 DEF TypeOK
<1>7. Dispatchers' /\ Rows'
  BY <1>0, <1>1, <1>5 DEF Dispatchers, Rows, On
<1>8. Rounds' /\ Latest' /\ ClaimsDiffer'
  BY <1>0, <1>1, <1>5 DEF Rounds, Latest, ClaimsDiffer, On
<1>9. RequestsCounted'
  BY <1>0, <1>1, <1>5 DEF RequestsCounted, Counted, Pending, BeforePost, On
<1>10. Alone'
  BY <1>0, <1>1, <1>5 DEF Alone, On
<1>11. Received' /\ TakenOnce'
  BY <1>0, <1>1, <1>5 DEF Received, TakenOnce, On
<1>12. Tried'
  BY <1>0, <1>1, <1>5 DEF Tried, Unfit, On
<1> QED
  BY <1>6, <1>7, <1>8, <1>9, <1>10, <1>11, <1>12 DEF WInv

\* A manual redelivery opens a round in which nothing was claimed or sent yet.
LEMMA RedeliverStep ==
    ASSUME WInv, NEW d \in Delivery, Redeliver(d) PROVE WInv'
<1>0. /\ TypeOK /\ Dispatchers /\ Rows /\ Rounds /\ Latest /\ ClaimsDiffer
      /\ RequestsCounted /\ Alone /\ Received /\ TakenOnce /\ Tried
  BY DEF WInv
<1>1. /\ delivery \in [Delivery -> DeliveryType] /\ Enqueued(d)
      /\ delivery[d].status # "delivering" /\ delivery[d].round < MaxRedelivery
      /\ UNCHANGED <<sink, dispatcher, posts, accepted, target, disturbed, faults>>
  BY <1>0 DEF TypeOK, Redeliver, history, Enqueued
<1>2. /\ delivery[d].round + 1 \in Round /\ Round \subseteq Nat
      /\ delivery[d].round \in Nat
  BY <1>1, LimitAssumption DEF DeliveryType, Round
<1>n. PICK n \in Round : n = delivery[d].round + 1
  BY <1>2
<1>3. /\ delivery' \in [Delivery -> DeliveryType]
      /\ \A e \in Delivery : e # d => delivery'[e] = delivery[e]
      /\ delivery'[d].status = "pending" /\ delivery'[d].sink = delivery[d].sink
      /\ delivery'[d].version = delivery[d].version
      /\ delivery'[d].lease = delivery[d].lease
      /\ delivery'[d].cycle = 0 /\ delivery'[d].round = n
  <2>1. delivery' = [delivery EXCEPT ![d].status = "pending", ![d].due = TRUE,
                                     ![d].cycle = 0, ![d].round = n]
    BY <1>1, <1>n DEF Redeliver
  <2>2. delivery[d] \in DeliveryType /\ 0 \in Cycle
    BY <1>1, LimitAssumption DEF Cycle
  <2>3. delivery'[d] = [delivery[d] EXCEPT !.status = "pending", !.due = TRUE,
                                           !.cycle = 0, !.round = n]
    BY <1>1, <2>1
  <2>4. delivery'[d] \in DeliveryType
    BY <2>2, <2>3 DEF DeliveryType
  <2>5. /\ delivery' \in [Delivery -> DeliveryType]
        /\ \A e \in Delivery : e # d => delivery'[e] = delivery[e]
    BY <1>1, <2>1, <2>4
  <2> QED
    BY <2>2, <2>3, <2>5 DEF DeliveryType
<1>4. posts[d][n] = 0 /\ accepted[d][n] = 0
  BY <1>0, <1>1, <1>2, <1>n DEF Rounds
<1>5. \A w \in Dispatcher : On(w, d) => dispatcher[w].round < n
  <2>1. \A w \in Dispatcher : dispatcher[w].round \in Nat
    BY <1>0, <1>2 DEF TypeOK, DispatcherType
  <2>2. delivery[d].round \in Nat
    BY <1>0, CountTypes
  <2> QED
    BY <1>0, <1>1, <1>n, <2>1, <2>2 DEF Rounds
<1>6. Enqueued(d)' /\ \A e \in Delivery : Enqueued(e)' <=> Enqueued(e)
  BY <1>1, <1>3 DEF Enqueued
<1>7. TypeOK'
  BY <1>0, <1>1, <1>3 DEF TypeOK
<1>8. Dispatchers' /\ Rows'
  <2>1. Dispatchers'
    BY <1>0, <1>1 DEF Dispatchers
  <2>2. delivery[d].lease = "none" /\ delivery[d].sink # NoSink
    BY <1>0, <1>1 DEF Rows, Enqueued
  <2>3. Rows'
    BY <1>0, <1>1, <1>3, <1>6, <2>2 DEF Rows, On
  <2> QED
    BY <2>1, <2>3
<1>9. Rounds'
  <2>1. \A r \in Round : r > n => r > delivery[d].round
    BY <1>2, <1>n
  <2>2. \A w \in Dispatcher : On(w, d) =>
           dispatcher[w].round <= n /\ dispatcher[w].round # n
    <3>1. n \in Nat /\ \A w \in Dispatcher : dispatcher[w].round \in Nat
      BY <1>0, <1>2 DEF TypeOK, DispatcherType
    <3> QED
      BY <1>5, <3>1
  <2> QED
    BY <1>0, <1>1, <1>3, <1>6, <2>1, <2>2 DEF Rounds, On
<1>10. Latest' /\ ClaimsDiffer'
  BY <1>0, <1>1, <1>3 DEF Latest, ClaimsDiffer, On
<1>11. RequestsCounted'
  <2> SUFFICES ASSUME NEW e \in Delivery, NEW r \in Round PROVE Counted(e, r)'
    BY DEF RequestsCounted
  <2>1. Counted(e, r)
    BY <1>0 DEF RequestsCounted
  <2>2. Pending(e, r)' = Pending(e, r)
    BY <1>1 DEF Pending, BeforePost, On
  <2>3. CASE e # d \/ r # n
    <3>1. e # d => delivery[e].cycle <= delivery'[e].cycle
      BY <1>0, <1>3, CountTypes
    <3> QED
      BY <1>0, <1>1, <1>3, <1>6, <1>7, <2>1, <2>2, <2>3, <3>1, CountedKept
  <2>4. CASE e = d /\ r = n
    <3>1. \A w \in Dispatcher : On(w, d) => dispatcher[w].round # n
      BY <1>0, <1>2, <1>5 DEF TypeOK, DispatcherType
    <3>2. Pending(d, n)' = {}
      BY <1>1, <3>1 DEF Pending, BeforePost, On
    <3>3. posts'[d][n] + Cardinality(Pending(d, n)') = 0
      BY <1>1, <1>4, <3>2, FS_EmptySet
    <3>4. 0 <= MaxDeliveryAttempts /\ delivery'[d].cycle = 0
      BY <1>3, LimitAssumption
    <3>5. posts'[e][r] + Cardinality(Pending(e, r)') = 0
      BY <2>4, <3>3, <1>1, <2>2
    <3> QED
      BY <2>4, <3>4, <3>5 DEF Counted
  <2> QED
    BY <2>3, <2>4
<1>12. Alone'
  BY <1>0, <1>1, <1>3, <1>6 DEF Alone, On
<1>13. Received' /\ TakenOnce'
  BY <1>0, <1>1, <1>3, <1>4 DEF Received, TakenOnce, On
<1>14. Tried'
  <2>1. ~(delivery'[d].cycle >= 2)
    BY <1>3
  <2> QED
    BY <1>0, <1>1, <1>3, <1>6, <2>1 DEF Tried, Unfit, On
<1> QED
  BY <1>7, <1>8, <1>9, <1>10, <1>11, <1>12, <1>13, <1>14 DEF WInv

\* A delivery is enqueued for the first time.
LEMMA InsertStep ==
    ASSUME WInv, NEW d \in Delivery, NEW s \in Sink, NEW v \in 1..sink[s].version,
           Insert(d, s, v)
    PROVE  WInv'
<1>0. /\ TypeOK /\ Dispatchers /\ Rows /\ Rounds /\ Latest /\ ClaimsDiffer
      /\ RequestsCounted /\ Alone /\ Received /\ TakenOnce /\ Tried
  BY DEF WInv
<1>1. /\ delivery[d] = NewDelivery /\ sink[s].exists
      /\ delivery' = [delivery EXCEPT ![d] =
            [NewDelivery EXCEPT !.status = "pending", !.due = TRUE,
                                !.sink = s, !.version = v]]
      /\ UNCHANGED <<sink, dispatcher, posts, accepted, target, disturbed, faults>>
  BY DEF Insert, history
<1>2. v \in 1..MaxVersion /\ v <= sink[s].version
  <2>1. sink[s].version \in 1..MaxVersion
    BY <1>0 DEF TypeOK, SinkType
  <2> QED
    BY <2>1, LimitAssumption
<1>3. /\ delivery' \in [Delivery -> DeliveryType]
      /\ \A e \in Delivery : e # d => delivery'[e] = delivery[e]
      /\ delivery'[d].status = "pending" /\ delivery'[d].sink = s
      /\ delivery'[d].version = v /\ delivery'[d].lease = "none"
      /\ delivery'[d].cycle = 0 /\ delivery'[d].round = 0
  BY <1>0, <1>1, <1>2, LimitAssumption
  DEF TypeOK, DeliveryType, NewDelivery, Cycle, Round
<1>4. /\ s # NoSink /\ target[d] = {}
      /\ \A r \in Round : posts[d][r] = 0 /\ accepted[d][r] = 0
      /\ \A w \in Dispatcher : ~On(w, d)
      /\ 0 \in Round /\ ~Enqueued(d)
  BY <1>0, <1>1, NullAssumption, LimitAssumption DEF Rows, NewDelivery, Round, Enqueued
<1>5. Enqueued(d)' /\ \A e \in Delivery : e # d => (Enqueued(e)' <=> Enqueued(e))
  BY <1>3 DEF Enqueued
<1>6. TypeOK'
  BY <1>0, <1>1, <1>3 DEF TypeOK
<1>7. Dispatchers'
  BY <1>0, <1>1 DEF Dispatchers
<1>8. Rows'
  BY <1>0, <1>1, <1>2, <1>3, <1>4, <1>5 DEF Rows, On
<1>9. Rounds' /\ Latest' /\ ClaimsDiffer'
  BY <1>0, <1>1, <1>3, <1>4, <1>5 DEF Rounds, Latest, ClaimsDiffer, On
<1>10. RequestsCounted'
  <2> SUFFICES ASSUME NEW e \in Delivery, NEW r \in Round PROVE Counted(e, r)'
    BY DEF RequestsCounted
  <2>1. Counted(e, r)
    BY <1>0 DEF RequestsCounted
  <2>2. Pending(e, r)' = Pending(e, r)
    BY <1>1 DEF Pending, BeforePost, On
  <2>3. CASE e # d
    <3>1. delivery[e].cycle <= delivery'[e].cycle
      BY <1>0, <1>3, <2>3, CountTypes
    <3> QED
      BY <1>0, <1>1, <1>3, <1>5, <1>6, <2>1, <2>2, <2>3, <3>1, CountedKept
  <2>4. CASE e = d
    <3>1. Pending(e, r)' = {}
      BY <1>1, <1>4, <2>4 DEF Pending, BeforePost, On
    <3>2. posts'[e][r] + Cardinality(Pending(e, r)') = 0
      BY <1>1, <1>4, <2>4, <3>1, FS_EmptySet
    <3>3. 0 <= MaxDeliveryAttempts /\ delivery'[e].cycle = 0
      BY <1>3, <2>4, LimitAssumption
    <3> QED
      BY <3>2, <3>3 DEF Counted
  <2> QED
    BY <2>3, <2>4
<1>11. Alone'
  BY <1>0, <1>1, <1>3, <1>4, <1>5 DEF Alone, On
<1>12. Received' /\ TakenOnce'
  BY <1>0, <1>1, <1>3, <1>4 DEF Received, TakenOnce, On
<1>13. Tried'
  <2>1. ~(delivery'[d].cycle >= 2)
    BY <1>3
  <2> QED
    BY <1>0, <1>1, <1>3, <1>4, <1>5, <2>1 DEF Tried, Unfit, On
<1> QED
  BY <1>6, <1>7, <1>8, <1>9, <1>10, <1>11, <1>12, <1>13 DEF WInv

\* An update makes a new version, which no delivery was enqueued for.
LEMMA UpdateSinkStep ==
    ASSUME WInv, NEW s \in Sink, UpdateSink(s) PROVE WInv'
<1>0. /\ TypeOK /\ Dispatchers /\ Rows /\ Rounds /\ Latest /\ ClaimsDiffer
      /\ RequestsCounted /\ Alone /\ Received /\ TakenOnce /\ Tried
  BY DEF WInv
<1>1. sink \in [Sink -> SinkType] /\ sink[s].version \in 1..MaxVersion
  BY <1>0 DEF TypeOK, SinkType
<1>2. PICK enabled \in BOOLEAN :
         sink' = [sink EXCEPT ![s].enabled = enabled, ![s].version = @ + 1]
  BY DEF UpdateSink
<1>3. /\ sink[s].version < MaxVersion
      /\ UNCHANGED <<delivery, dispatcher, posts, accepted, target, disturbed, faults>>
  BY DEF UpdateSink, history
<1> DEFINE n == sink[s].version + 1
<1>4. n \in 1..MaxVersion /\ n > sink[s].version
  BY <1>1, <1>3, LimitAssumption
<1>5. /\ sink' \in [Sink -> SinkType] /\ sink'[s].version = n
      /\ sink'[s].exists = sink[s].exists
      /\ \A t \in Sink : t # s => sink'[t] = sink[t]
  <2>1. sink' = [sink EXCEPT ![s].enabled = enabled, ![s].version = n]
    BY <1>1, <1>2
  <2> HIDE DEF n
  <2> QED
    BY <1>1, <1>4, <2>1 DEF SinkType
<1>6. \A d \in Delivery : Enqueued(d) =>
         /\ delivery[d].sink \in Sink /\ delivery[d].version \in 1..MaxVersion
         /\ sink'[delivery[d].sink].exists
         /\ delivery[d].version <= sink'[delivery[d].sink].version
         /\ Unfit(d) => Unfit(d)'
  <2> SUFFICES ASSUME NEW d \in Delivery, Enqueued(d)
               PROVE  /\ delivery[d].sink \in Sink /\ delivery[d].version \in 1..MaxVersion
                      /\ sink'[delivery[d].sink].exists
                      /\ delivery[d].version <= sink'[delivery[d].sink].version
                      /\ Unfit(d) => Unfit(d)'
    OBVIOUS
  <2>1. delivery[d].sink \in Sink /\ delivery[d].version \in 1..MaxVersion
    BY <1>0 DEF TypeOK, DeliveryType, Rows, Enqueued
  <2>2. /\ sink[delivery[d].sink].exists
        /\ delivery[d].version <= sink[delivery[d].sink].version
    BY <1>0 DEF Rows
  <2> HIDE DEF n
  <2>3. CASE delivery[d].sink # s
    BY <1>3, <1>5, <2>1, <2>2, <2>3 DEF Unfit
  <2>4. CASE delivery[d].sink = s
    <3>1. delivery[d].version <= n /\ delivery[d].version # n
      BY <1>1, <1>4, <2>1, <2>2, <2>4
    <3> QED
      BY <1>3, <1>5, <2>1, <2>2, <2>4, <3>1 DEF Unfit
  <2> QED
    BY <2>3, <2>4
<1>7. TypeOK'
  BY <1>0, <1>3, <1>5 DEF TypeOK
<1>8. Dispatchers' /\ Rows'
  BY <1>0, <1>3, <1>6 DEF Dispatchers, Rows, On, Enqueued
<1>9. Rounds' /\ Latest' /\ ClaimsDiffer' /\ RequestsCounted'
  BY <1>0, <1>3
  DEF Rounds, Latest, ClaimsDiffer, RequestsCounted, Counted, Pending, BeforePost,
      On, Enqueued
<1>10. Alone' /\ Received' /\ TakenOnce'
  BY <1>0, <1>3 DEF Alone, Received, TakenOnce, On, Enqueued
<1>11. Tried'
  BY <1>0, <1>3, <1>6 DEF Tried, On, Enqueued
<1> QED
  BY <1>7, <1>8, <1>9, <1>10, <1>11 DEF WInv

\* The deliveries of a deleted sink are gone; whoever works on one goes on.
LEMMA DeleteSinkStep ==
    ASSUME WInv, NEW s \in Sink, DeleteSink(s) PROVE WInv'
<1>0. /\ TypeOK /\ Dispatchers /\ Rows /\ Rounds /\ Latest /\ ClaimsDiffer
      /\ RequestsCounted /\ Alone /\ Received /\ TakenOnce /\ Tried
  BY DEF WInv
<1>1. /\ sink' = [sink EXCEPT ![s].exists = FALSE]
      /\ delivery' = [d \in Delivery |->
            IF delivery[d].sink = s THEN [NewDelivery EXCEPT !.sink = s]
                                    ELSE delivery[d]]
      /\ UNCHANGED <<dispatcher, posts, accepted, target, disturbed, faults>>
  BY DEF DeleteSink, history
<1>2. /\ sink' \in [Sink -> SinkType]
      /\ \A t \in Sink : t # s => sink'[t] = sink[t]
  BY <1>0, <1>1 DEF TypeOK, SinkType
<1>3. \A d \in Delivery : delivery[d].sink = s =>
         /\ delivery'[d] \in DeliveryType
         /\ delivery'[d].status = "absent" /\ delivery'[d].sink = s
         /\ delivery'[d].lease = "none" /\ ~Enqueued(d)'
  <2>1. 0 \in Cycle /\ 0 \in Round /\ 1 \in 1..MaxVersion
    BY LimitAssumption DEF Cycle, Round
  <2>2. NewDelivery \in DeliveryType /\ NewDelivery.status = "absent"
        /\ NewDelivery.lease = "none"
    BY <2>1 DEF NewDelivery, DeliveryType
  <2>3. \A d \in Delivery : delivery[d].sink = s =>
           delivery'[d] = [NewDelivery EXCEPT !.sink = s]
    BY <1>1
  <2> QED
    BY <2>2, <2>3 DEF DeliveryType, Enqueued
<1>4. \A d \in Delivery : delivery[d].sink # s =>
         delivery'[d] = delivery[d] /\ (Enqueued(d)' <=> Enqueued(d))
  BY <1>1 DEF Enqueued
<1>5. s # NoSink /\ delivery' \in [Delivery -> DeliveryType]
  BY <1>0, <1>1, <1>3, <1>4, NullAssumption DEF TypeOK
<1>6. \A d \in Delivery : Enqueued(d)' =>
         /\ Enqueued(d) /\ delivery'[d] = delivery[d] /\ delivery[d].sink \in Sink
         /\ sink'[delivery[d].sink] = sink[delivery[d].sink]
  <2>1. \A d \in Delivery : Enqueued(d) => delivery[d].sink \in Sink
    BY <1>0 DEF TypeOK, DeliveryType, Rows, Enqueued
  <2> QED
    BY <1>2, <1>3, <1>4, <2>1
<1>7. TypeOK'
  BY <1>0, <1>1, <1>2, <1>5 DEF TypeOK
<1>8. Dispatchers'
  BY <1>0, <1>1 DEF Dispatchers
<1>9. Rows'
  BY <1>0, <1>1, <1>3, <1>4, <1>5, <1>6 DEF Rows, On
<1>10. Rounds' /\ Latest' /\ ClaimsDiffer'
  BY <1>0, <1>1, <1>3, <1>4, <1>6 DEF Rounds, Latest, ClaimsDiffer, On
<1>11. RequestsCounted'
  <2> SUFFICES ASSUME NEW e \in Delivery, NEW r \in Round PROVE Counted(e, r)'
    BY DEF RequestsCounted
  <2>1. Counted(e, r)
    BY <1>0 DEF RequestsCounted
  <2>2. Pending(e, r)' = Pending(e, r)
    BY <1>1 DEF Pending, BeforePost, On
  <2>3. Enqueued(e)' => delivery[e].cycle <= delivery'[e].cycle
    BY <1>0, <1>6, CountTypes
  <2> QED
    BY <1>0, <1>1, <1>6, <1>7, <2>1, <2>2, <2>3, CountedKept
<1>12. Alone'
  BY <1>0, <1>1, <1>3, <1>4, <1>6 DEF Alone, On
<1>13. Received' /\ TakenOnce'
  BY <1>0, <1>1, <1>3, <1>4 DEF Received, TakenOnce, On
<1>14. Tried'
  <2>1. \A d \in Delivery : Enqueued(d)' => (Unfit(d)' <=> Unfit(d))
    BY <1>6 DEF Unfit
  <2> QED
    BY <1>0, <1>1, <1>6, <2>1 DEF Tried, On
<1> QED
  BY <1>7, <1>8, <1>9, <1>10, <1>11, <1>12, <1>13, <1>14 DEF WInv

-----------------------------------------------------------------------------
(* Steps of a dispatcher that write a row or the history *)

\* claim_due_deliveries: the next claim of the cycle, for one dispatcher.
LEMMA ClaimStep == ASSUME WInv, NEW w \in Dispatcher, Claim(w) PROVE WInv'
<1>0. /\ TypeOK /\ Dispatchers /\ Rows /\ Rounds /\ Latest /\ ClaimsDiffer
      /\ RequestsCounted /\ Alone /\ Received /\ TakenOnce /\ Tried
  BY DEF WInv
<1>1. /\ dispatcher[w].pc = "idle" /\ dispatcher[w].delivery = NoDelivery
      /\ UNCHANGED <<sink, posts, accepted, target, disturbed, faults>>
  BY <1>0 DEF Claim, history, Dispatchers
<1>2. PICK d \in Delivery :
         LET k == IF delivery[d].cycle > MaxDeliveryAttempts
                  THEN delivery[d].cycle ELSE delivery[d].cycle + 1
         IN  /\ Claimable(d)
             /\ delivery' = [delivery EXCEPT
                   ![d].status = "delivering", ![d].lease = "live",
                   ![d].token = w, ![d].cycle = k]
             /\ dispatcher' = [dispatcher EXCEPT ![w] =
                   [pc |-> "claimed", delivery |-> d, cycle |-> k,
                    round |-> delivery[d].round, verdict |-> "none"]]
  BY DEF Claim
<1>3. /\ delivery[d] \in DeliveryType /\ delivery[d].cycle \in Cycle
      /\ delivery[d].round \in Round /\ MaxDeliveryAttempts \in Nat \ {0}
  BY <1>0, LimitAssumption DEF TypeOK, DeliveryType
<1>4. PICK n \in Cycle :
         /\ n = IF delivery[d].cycle > MaxDeliveryAttempts
                THEN delivery[d].cycle ELSE delivery[d].cycle + 1
         /\ n >= delivery[d].cycle
         /\ n <= MaxDeliveryAttempts => n = delivery[d].cycle + 1
         /\ n >= 1 /\ (n >= 2 => delivery[d].cycle >= 1)
  <2>1. delivery[d].cycle \in 0..(MaxDeliveryAttempts + 1)
    BY <1>3 DEF Cycle
  <2>2. (IF delivery[d].cycle > MaxDeliveryAttempts
         THEN delivery[d].cycle ELSE delivery[d].cycle + 1) \in Cycle
    BY <1>3, <2>1 DEF Cycle
  <2> QED
    BY <1>3, <2>1, <2>2
<1> DEFINE x == [pc |-> "claimed", delivery |-> d, cycle |-> n,
                 round |-> delivery[d].round, verdict |-> "none"]
<1>5. /\ Claimable(d)
      /\ delivery' = [delivery EXCEPT ![d].status = "delivering", ![d].lease = "live",
                                      ![d].token = w, ![d].cycle = n]
      /\ dispatcher' = [dispatcher EXCEPT ![w] = x]
  BY <1>2, <1>4
<1>6. /\ delivery' \in [Delivery -> DeliveryType]
      /\ \A e \in Delivery : e # d => delivery'[e] = delivery[e]
      /\ delivery'[d].status = "delivering" /\ delivery'[d].lease = "live"
      /\ delivery'[d].token = w /\ delivery'[d].cycle = n
      /\ delivery'[d].sink = delivery[d].sink
      /\ delivery'[d].version = delivery[d].version
      /\ delivery'[d].round = delivery[d].round
  <2>1. delivery \in [Delivery -> DeliveryType]
    BY <1>0 DEF TypeOK
  <2>2. delivery'[d] = [delivery[d] EXCEPT !.status = "delivering", !.lease = "live",
                                           !.token = w, !.cycle = n]
    BY <1>5, <2>1
  <2>3. delivery'[d] \in DeliveryType
    BY <1>3, <1>4, <2>2 DEF DeliveryType
  <2>4. /\ delivery' \in [Delivery -> DeliveryType]
        /\ \A e \in Delivery : e # d => delivery'[e] = delivery[e]
    BY <1>5, <2>1, <2>3
  <2> QED
    BY <1>3, <2>2, <2>4 DEF DeliveryType
<1>7. /\ dispatcher' \in [Dispatcher -> DispatcherType]
      /\ dispatcher'[w].pc = "claimed" /\ dispatcher'[w].delivery = d
      /\ dispatcher'[w].cycle = n /\ dispatcher'[w].round = delivery[d].round
      /\ dispatcher'[w].verdict = "none"
      /\ \A v \in Dispatcher : v # w => dispatcher'[v] = dispatcher[v]
  <2>1. x \in DispatcherType
    BY <1>3, <1>4 DEF DispatcherType
  <2> QED
    BY <1>0, <1>5, <2>1 DEF TypeOK
<1> HIDE DEF x
<1>8. /\ Enqueued(d) /\ Enqueued(d)'
      /\ \A e \in Delivery : e # d => (Enqueued(e)' <=> Enqueued(e))
  BY <1>5, <1>6 DEF Enqueued, Claimable
<1>9. /\ On(w, d)' /\ ~On(w, d)
      /\ \A e \in Delivery : e # d => ~On(w, e)' /\ ~On(w, e)
      /\ \A e \in Delivery, v \in Dispatcher : v # w => (On(v, e)' <=> On(v, e))
  BY <1>1, <1>7, NullAssumption DEF On
<1>10. delivery[d].sink # NoSink
  BY <1>0, <1>8 DEF Rows, Enqueued
\* Nobody works on an undisturbed delivery that can be claimed.
<1>11. d \notin disturbed =>
          /\ \A v \in Dispatcher : ~On(v, d)
          /\ delivery[d].status \in {"pending", "failed"}
  BY <1>0, <1>5, <1>8 DEF Alone, Claimable
<1>12. TypeOK'
  BY <1>0, <1>1, <1>6, <1>7 DEF TypeOK
<1>13. Dispatchers'
  BY <1>0, <1>7 DEF Dispatchers
<1>14. Rows'
  BY <1>0, <1>1, <1>6, <1>8, <1>9, <1>10 DEF Rows
<1>15. Rounds'
  <2>1. ASSUME NEW e \in Delivery, Enqueued(e)', NEW v \in Dispatcher, On(v, e)'
        PROVE  /\ dispatcher'[v].round <= delivery'[e].round
               /\ dispatcher'[v].round = delivery'[e].round =>
                     dispatcher'[v].cycle <= delivery'[e].cycle
    <3>1. CASE v = w
      <4>1. e = d
        BY <1>9, <2>1, <3>1
      <4>2. delivery[d].round <= delivery[d].round /\ n <= n
        BY <1>3, <1>4 DEF Cycle, Round
      <4> QED
        BY <1>6, <1>7, <3>1, <4>1, <4>2
    <3>2. CASE v # w /\ e # d
      BY <1>0, <1>6, <1>7, <1>8, <1>9, <2>1, <3>2 DEF Rounds
    <3>3. CASE v # w /\ e = d
      <4>1. /\ dispatcher[v].round <= delivery[d].round
            /\ dispatcher[v].round = delivery[d].round =>
                  dispatcher[v].cycle <= delivery[d].cycle
        BY <1>0, <1>8, <1>9, <2>1, <3>3 DEF Rounds
      <4>2. dispatcher[v].cycle \in Nat /\ delivery[d].cycle \in Nat /\ n \in Nat
        BY <1>0, <1>3, <1>4, LimitAssumption DEF TypeOK, DispatcherType, Cycle
      <4> QED
        BY <1>4, <1>6, <1>7, <3>3, <4>1, <4>2
    <3> QED
      BY <3>1, <3>2, <3>3
  <2>2. \A e \in Delivery : Enqueued(e)' => \A r \in Round :
           r > delivery'[e].round => posts'[e][r] = 0 /\ accepted'[e][r] = 0
    BY <1>0, <1>1, <1>6, <1>8 DEF Rounds
  <2> QED
    BY <2>1, <2>2 DEF Rounds
<1>16. Latest'
  BY <1>0, <1>6, <1>7, <1>9 DEF Latest
<1>17. ClaimsDiffer'
  <2>1. ASSUME NEW v \in Dispatcher, v # w, On(v, d), n <= MaxDeliveryAttempts,
               dispatcher[v].round = delivery[d].round, dispatcher[v].cycle = n
        PROVE  FALSE
    <3>1. n <= delivery[d].cycle
      BY <1>0, <1>8, <2>1 DEF Rounds
    <3> QED
      BY <1>3, <1>4, <2>1, <3>1 DEF Cycle
  <2> SUFFICES ASSUME NEW e \in Delivery, NEW u \in Dispatcher, NEW v \in Dispatcher,
                      On(u, e)', On(v, e)',
                      dispatcher'[u].round = dispatcher'[v].round,
                      dispatcher'[u].cycle = dispatcher'[v].cycle,
                      dispatcher'[v].cycle <= MaxDeliveryAttempts
               PROVE  u = v
    BY DEF ClaimsDiffer
  <2>2. CASE u # w /\ v # w
    BY <1>0, <1>7, <1>9, <2>2 DEF ClaimsDiffer
  <2>3. CASE u = w /\ v # w
    BY <1>7, <1>9, <2>1, <2>3
  <2>4. CASE v = w /\ u # w
    BY <1>7, <1>9, <2>1, <2>4
  <2> QED
    BY <2>2, <2>3, <2>4
<1>18. RequestsCounted'
  <2> SUFFICES ASSUME NEW e \in Delivery, NEW r \in Round PROVE Counted(e, r)'
    BY DEF RequestsCounted
  <2>1. Counted(e, r)
    BY <1>0 DEF RequestsCounted
  <2>2. delivery[e].cycle <= delivery'[e].cycle
    <3>1. delivery[e].cycle \in Nat /\ n \in Nat
      BY <1>0, <1>4, LimitAssumption, CountTypes DEF Cycle
    <3> QED
      BY <1>4, <1>6, <3>1
  <2>3. CASE e # d \/ r # delivery[d].round \/ n > MaxDeliveryAttempts
    <3>1. w \notin BeforePost(e, r)'
      BY <1>3, <1>4, <1>7, <2>3, LimitAssumption DEF BeforePost, On, Cycle
    <3>2. BeforePost(e, r)' \subseteq BeforePost(e, r)
      BY <1>7, <3>1 DEF BeforePost, On
    <3>3. \A v \in BeforePost(e, r)' : dispatcher'[v].cycle = dispatcher[v].cycle
      BY <1>7, <3>1 DEF BeforePost
    <3>4. Pending(e, r)' \subseteq Pending(e, r)
      BY <3>2, <3>3 DEF Pending
    <3>5. Enqueued(e)' => Enqueued(e) /\ delivery'[e].round = delivery[e].round
      BY <1>6, <1>8
    <3> QED
      BY <1>0, <1>1, <1>12, <2>1, <2>2, <3>4, <3>5, CountedKept
  <2>4. CASE e = d /\ r = delivery[d].round /\ n <= MaxDeliveryAttempts
    <3>1. BeforePost(e, r)' = BeforePost(e, r) \cup {w} /\ w \notin BeforePost(e, r)
      BY <1>7, <1>9, <2>4 DEF BeforePost, On
    <3>2. \A v \in BeforePost(e, r) : dispatcher'[v].cycle = dispatcher[v].cycle
      BY <1>7, <3>1 DEF BeforePost
    <3>3. Pending(e, r)' = Pending(e, r) \cup {n}
      BY <1>7, <3>1, <3>2 DEF Pending
    <3>4. /\ Cardinality(Pending(e, r)) \in Nat /\ Cardinality(Pending(e, r)') \in Nat
          /\ Cardinality(Pending(e, r)') <= Cardinality(Pending(e, r)) + 1
      BY <1>0, <3>3, PendingFinite, OneMore
    <3>5. posts[d][r] + Cardinality(Pending(d, r)) <= delivery[d].cycle
      BY <1>8, <2>1, <2>4 DEF Counted
    <3>6. /\ posts[d][r] \in Nat /\ delivery[d].cycle \in Nat
          /\ n = delivery[d].cycle + 1
      BY <1>0, <1>4, <2>4, CountTypes
    <3>7. posts[d][r] + Cardinality(Pending(e, r)') <= n
      BY <2>4, <3>4, <3>5, <3>6
    <3>8. posts'[e][r] + Cardinality(Pending(e, r)') <= n
      BY <1>1, <2>4, <3>7
    <3>9. posts'[e][r] + Cardinality(Pending(e, r)') <= MaxDeliveryAttempts
      BY <1>1, <1>3, <2>4, <3>4, <3>6, <3>8
    <3> QED
      BY <1>6, <2>4, <3>8, <3>9 DEF Counted
  <2> QED
    BY <1>3, <1>4, <2>3, <2>4, LimitAssumption DEF Cycle
<1>19. Alone'
  BY <1>0, <1>1, <1>6, <1>7, <1>8, <1>9, <1>11 DEF Alone
<1>20. Received'
  BY <1>0, <1>1, <1>6, <1>7, <1>9 DEF Received
<1>21. TakenOnce'
  BY <1>0, <1>1, <1>6, <1>7, <1>8, <1>9, <1>11 DEF TakenOnce
<1>22. Tried'
  <2>1. d \notin disturbed /\ n >= 2 => posts[d][delivery[d].round] > 0
    <3>1. d \notin disturbed /\ n >= 2 => delivery[d].status # "pending"
      BY <1>0, <1>3, <1>4 DEF Rows
    <3> QED
      BY <1>0, <1>8, <1>11, <3>1 DEF Tried
  <2>2. \A e \in Delivery : e # d => (Unfit(e)' <=> Unfit(e))
    BY <1>1, <1>6 DEF Unfit
  <2>3. ASSUME NEW e \in Delivery, e # d, e \notin disturbed', Enqueued(e)'
        PROVE  /\ delivery'[e].status = "failed" => posts'[e][delivery'[e].round] > 0
               /\ delivery'[e].cycle >= 2 => posts'[e][delivery'[e].round] > 0
               /\ delivery'[e].status = "dead_lettered" =>
                     posts'[e][delivery'[e].round] > 0 \/ Unfit(e)'
               /\ \A v \in Dispatcher : On(v, e)' =>
                     /\ dispatcher'[v].verdict = "failed" =>
                           posts'[e][dispatcher'[v].round] > 0
                     /\ dispatcher'[v].verdict = "dead_lettered" =>
                           posts'[e][dispatcher'[v].round] > 0 \/ Unfit(e)'
    <3>1. delivery'[e] = delivery[e] /\ Enqueued(e) /\ e \notin disturbed /\ posts' = posts
      BY <1>1, <1>6, <1>8, <2>3
    <3>2. \A v \in Dispatcher : On(v, e)' => On(v, e) /\ dispatcher'[v] = dispatcher[v]
      BY <1>7, <1>9, <2>3
    <3> QED
      BY <1>0, <2>2, <2>3, <3>1, <3>2 DEF Tried
  <2>4. ASSUME d \notin disturbed'
        PROVE  /\ delivery'[d].status = "delivering"
               /\ delivery'[d].cycle >= 2 => posts'[d][delivery'[d].round] > 0
               /\ \A v \in Dispatcher : On(v, d)' => dispatcher'[v].verdict = "none"
    BY <1>1, <1>6, <1>7, <1>9, <1>11, <2>1, <2>4
  <2> QED
    BY <2>3, <2>4 DEF Tried
<1> QED
  BY <1>12, <1>13, <1>14, <1>15, <1>16, <1>17, <1>18, <1>19, <1>20, <1>21, <1>22
  DEF WInv

\* _deliver reads the sink and sends, or settles on a dead letter.
LEMMA ReadSinkStep == ASSUME WInv, NEW w \in Dispatcher, ReadSink(w) PROVE WInv'
<1>0. /\ TypeOK /\ Dispatchers /\ Rows /\ Rounds /\ Latest /\ ClaimsDiffer
      /\ RequestsCounted /\ Alone /\ Received /\ TakenOnce /\ Tried
  BY DEF WInv
<1>1. /\ dispatcher[w].pc = "checked" /\ dispatcher[w].verdict = "none"
      /\ UNCHANGED <<sink, delivery, posts, accepted, disturbed, faults>>
  BY <1>0 DEF ReadSink, Dispatchers
<1>2. PICK d \in Delivery : d = dispatcher[w].delivery
  BY <1>0, <1>1 DEF Dispatchers
<1>3. PICK ok \in BOOLEAN : ok = Deliverable(w)
  BY DEF Deliverable
<1>4. /\ dispatcher' = [dispatcher EXCEPT
            ![w].pc      = IF ok THEN "sending" ELSE "answered",
            ![w].verdict = IF ok THEN "none" ELSE "dead_lettered"]
      /\ target' = [target EXCEPT ![d] =
            IF ok THEN @ \cup {sink[delivery[d].sink].version} ELSE @]
  BY <1>2, <1>3 DEF ReadSink
<1>5. ok => /\ sink[delivery[d].sink].version = delivery[d].version
            /\ dispatcher[w].cycle <= MaxDeliveryAttempts
  BY <1>2, <1>3 DEF Deliverable
<1>6. /\ dispatcher' \in [Dispatcher -> DispatcherType]
      /\ \A v \in Dispatcher : v # w => dispatcher'[v] = dispatcher[v]
      /\ dispatcher'[w].pc = IF ok THEN "sending" ELSE "answered"
      /\ dispatcher'[w].verdict = IF ok THEN "none" ELSE "dead_lettered"
      /\ dispatcher'[w].delivery = d /\ dispatcher'[w].round = dispatcher[w].round
      /\ dispatcher'[w].cycle = dispatcher[w].cycle
  <2>1. dispatcher \in [Dispatcher -> DispatcherType]
    BY <1>0 DEF TypeOK
  <2> QED
    BY <1>2, <1>4, <2>1 DEF DispatcherType
<1>7. /\ target' \in [Delivery -> SUBSET (1..MaxVersion)]
      /\ \A e \in Delivery : e # d => target'[e] = target[e]
      /\ target'[d] \subseteq target[d] \cup {delivery[d].version}
  <2>1. target \in [Delivery -> SUBSET (1..MaxVersion)]
    BY <1>0 DEF TypeOK
  <2>2. delivery[d].version \in 1..MaxVersion
    BY <1>0 DEF TypeOK, DeliveryType
  <2> QED
    BY <1>4, <1>5, <2>1, <2>2
<1>8. \A v \in Dispatcher, e \in Delivery : On(v, e)' <=> On(v, e)
  BY <1>2, <1>6 DEF On
<1>9. delivery[d].sink # NoSink /\ On(w, d)
  BY <1>0, <1>2 DEF Rows, On
<1>10. TypeOK'
  BY <1>0, <1>1, <1>6, <1>7 DEF TypeOK
<1>11. Dispatchers'
  BY <1>0, <1>2, <1>5, <1>6 DEF Dispatchers
<1>12. Rows'
  <2>1. Enqueued(d) => target'[d] \subseteq {delivery[d].version}
    BY <1>0, <1>7 DEF Rows
  <2> QED
    BY <1>0, <1>1, <1>7, <1>8, <1>9, <2>1 DEF Rows, Enqueued
<1>13. Rounds' /\ Latest' /\ ClaimsDiffer'
  BY <1>0, <1>1, <1>6, <1>8 DEF Rounds, Latest, ClaimsDiffer, Enqueued
<1>14. RequestsCounted'
  <2> SUFFICES ASSUME NEW e \in Delivery, NEW r \in Round PROVE Counted(e, r)'
    BY DEF RequestsCounted
  <2>1. Counted(e, r) /\ (Enqueued(e)' <=> Enqueued(e)) /\ delivery' = delivery
    BY <1>0, <1>1 DEF RequestsCounted, Enqueued
  <2>2. Pending(e, r)' \subseteq Pending(e, r)
    BY <1>1, <1>6, <1>8, PendingKept
  <2>3. delivery[e].cycle <= delivery[e].cycle
    BY <1>0, CountTypes
  <2> QED
    BY <1>0, <1>1, <1>10, <2>1, <2>2, <2>3, CountedKept
<1>15. Alone'
  BY <1>0, <1>1, <1>8 DEF Alone, Enqueued
<1>16. Received' /\ TakenOnce'
  BY <1>0, <1>1, <1>6, <1>8 DEF Received, TakenOnce
<1>17. Tried'
  <2>1. ASSUME d \notin disturbed, Enqueued(d), ~ok
        PROVE  posts[d][dispatcher[w].round] > 0 \/ Unfit(d)
    <3>1. /\ delivery[d].status = "delivering" /\ delivery[d].token = w
          /\ dispatcher[w].round = delivery[d].round
          /\ dispatcher[w].cycle = delivery[d].cycle
      BY <1>0, <1>9, <2>1 DEF Alone, Latest
    <3>2. sink[delivery[d].sink].exists
      BY <1>0, <2>1 DEF Rows
    <3>3. CASE Unfit(d)
      BY <3>3
    <3>4. CASE ~(dispatcher[w].cycle <= MaxDeliveryAttempts)
      <4>1. delivery[d].cycle \in Nat /\ MaxDeliveryAttempts \in Nat \ {0}
        BY <1>0, LimitAssumption DEF TypeOK, DeliveryType, Cycle
      <4>2. delivery[d].cycle >= 2
        BY <3>1, <3>4, <4>1
      <4> QED
        BY <1>0, <2>1, <3>1, <4>2 DEF Tried
    <3> QED
      BY <1>2, <1>3, <2>1, <3>2, <3>3, <3>4 DEF Deliverable, Unfit
  <2>2. \A e \in Delivery : Unfit(e)' <=> Unfit(e)
    BY <1>1 DEF Unfit
  <2>3. \A e \in Delivery : On(w, e) => e = d
    BY <1>2 DEF On
  <2> QED
    BY <1>0, <1>1, <1>6, <1>8, <2>1, <2>2, <2>3 DEF Tried, Enqueued
<1> QED
  BY <1>10, <1>11, <1>12, <1>13, <1>14, <1>15, <1>16, <1>17 DEF WInv

\* _post sends one request and learns what became of it.
LEMMA PostStep == ASSUME WInv, NEW w \in Dispatcher, Post(w) PROVE WInv'
<1>0. /\ TypeOK /\ Dispatchers /\ Rows /\ Rounds /\ Latest /\ ClaimsDiffer
      /\ RequestsCounted /\ Alone /\ Received /\ TakenOnce /\ Tried
  BY DEF WInv
<1>1. /\ dispatcher[w].pc = "sending" /\ dispatcher[w].verdict = "none"
      /\ dispatcher[w].cycle <= MaxDeliveryAttempts
      /\ UNCHANGED <<sink, delivery, target, faults>>
  BY <1>0 DEF Post, Dispatchers
<1>2. PICK d \in Delivery : d = dispatcher[w].delivery
  BY <1>0, <1>1 DEF Dispatchers
<1>3. PICK r \in Round : r = dispatcher[w].round
  BY <1>0 DEF TypeOK, DispatcherType
<1>4. PICK verdict \in {"delivered", "dead_lettered", "failed"}, taken \in BOOLEAN :
         /\ verdict = "delivered" => taken
         /\ dispatcher' = [dispatcher EXCEPT ![w].pc = "answered",
                                             ![w].verdict = verdict]
         /\ accepted' = [accepted EXCEPT ![d][r] = IF taken THEN @ + 1 ELSE @]
         /\ disturbed' = IF taken /\ verdict # "delivered"
                         THEN disturbed \cup {d} ELSE disturbed
  BY <1>2, <1>3 DEF Post, Retry
<1>5. posts' = [posts EXCEPT ![d][r] = @ + 1]
  BY <1>2, <1>3 DEF Post
<1>6. /\ posts' \in [Delivery -> [Round -> Nat]]
      /\ posts'[d][r] = posts[d][r] + 1
      /\ \A e \in Delivery, q \in Round : e # d \/ q # r => posts'[e][q] = posts[e][q]
  <2>1. posts \in [Delivery -> [Round -> Nat]]
    BY <1>0 DEF TypeOK
  <2> QED
    BY <1>5, <2>1
<1>7. /\ accepted' \in [Delivery -> [Round -> Nat]]
      /\ accepted'[d][r] = IF taken THEN accepted[d][r] + 1 ELSE accepted[d][r]
      /\ \A e \in Delivery, q \in Round : e # d \/ q # r => accepted'[e][q] = accepted[e][q]
  <2>1. accepted \in [Delivery -> [Round -> Nat]]
    BY <1>0 DEF TypeOK
  <2> QED
    BY <1>4, <2>1
<1>8. /\ dispatcher' \in [Dispatcher -> DispatcherType]
      /\ \A v \in Dispatcher : v # w => dispatcher'[v] = dispatcher[v]
      /\ dispatcher'[w].pc = "answered" /\ dispatcher'[w].verdict = verdict
      /\ dispatcher'[w].delivery = d /\ dispatcher'[w].round = r
      /\ dispatcher'[w].cycle = dispatcher[w].cycle
  <2>1. dispatcher \in [Dispatcher -> DispatcherType]
    BY <1>0 DEF TypeOK
  <2> QED
    BY <1>2, <1>3, <1>4, <2>1 DEF DispatcherType
<1>9. \A v \in Dispatcher, e \in Delivery : On(v, e)' <=> On(v, e)
  BY <1>2, <1>8 DEF On
<1>10. delivery[d].sink # NoSink /\ On(w, d) /\ \A e \in Delivery : On(w, e) => e = d
  BY <1>0, <1>2 DEF Rows, On
<1>11. \A e \in Delivery, q \in Round :
          /\ posts[e][q] \in Nat /\ posts'[e][q] \in Nat
          /\ accepted[e][q] \in Nat /\ accepted'[e][q] \in Nat
          /\ posts'[e][q] >= posts[e][q] /\ accepted'[e][q] >= accepted[e][q]
  <2>1. \A e \in Delivery, q \in Round :
           posts[e][q] \in Nat /\ accepted[e][q] \in Nat
    BY <1>0 DEF TypeOK
  <2> QED
    BY <1>6, <1>7, <2>1
<1>12. /\ disturbed \subseteq disturbed' /\ disturbed' \subseteq Delivery
       /\ d \notin disturbed' => (taken <=> verdict = "delivered")
  BY <1>0, <1>4 DEF TypeOK
<1>13. TypeOK'
  BY <1>0, <1>1, <1>6, <1>7, <1>8, <1>12 DEF TypeOK
<1>14. Dispatchers'
  BY <1>0, <1>2, <1>8 DEF Dispatchers
<1>15. Rows'
  BY <1>0, <1>1, <1>6, <1>7, <1>9, <1>10 DEF Rows, Enqueued
<1>16. Rounds'
  <2>1. Enqueued(d) => ~(r > delivery[d].round)
    <3>1. Enqueued(d) => r <= delivery[d].round
      BY <1>0, <1>3, <1>10 DEF Rounds
    <3>2. r \in Nat /\ delivery[d].round \in Nat
      BY <1>0, CountTypes
    <3> QED
      BY <3>1, <3>2
  <2> SUFFICES ASSUME NEW e \in Delivery, Enqueued(e)'
               PROVE  /\ \A q \in Round : q > delivery'[e].round =>
                            posts'[e][q] = 0 /\ accepted'[e][q] = 0
                      /\ \A v \in Dispatcher : On(v, e)' =>
                            /\ dispatcher'[v].round <= delivery'[e].round
                            /\ dispatcher'[v].round = delivery'[e].round =>
                                  dispatcher'[v].cycle <= delivery'[e].cycle
    BY DEF Rounds
  <2>2. Enqueued(e) /\ delivery'[e] = delivery[e]
    BY <1>1 DEF Enqueued
  <2>3. ASSUME NEW q \in Round, q > delivery[e].round
        PROVE  posts'[e][q] = 0 /\ accepted'[e][q] = 0
    <3>1. posts[e][q] = 0 /\ accepted[e][q] = 0
      BY <1>0, <2>2, <2>3 DEF Rounds
    <3>2. e # d \/ q # r
      BY <2>1, <2>2, <2>3
    <3> QED
      BY <1>6, <1>7, <3>1, <3>2
  <2>4. \A v \in Dispatcher : /\ dispatcher'[v].round = dispatcher[v].round
                              /\ dispatcher'[v].cycle = dispatcher[v].cycle
    BY <1>3, <1>8
  <2>5. \A v \in Dispatcher : On(v, e)' =>
           /\ dispatcher[v].round <= delivery[e].round
           /\ dispatcher[v].round = delivery[e].round =>
                 dispatcher[v].cycle <= delivery[e].cycle
    BY <1>0, <1>9, <2>2 DEF Rounds
  <2> QED
    BY <2>2, <2>3, <2>4, <2>5
<1>17. Latest' /\ ClaimsDiffer'
  BY <1>0, <1>1, <1>3, <1>8, <1>9 DEF Latest, ClaimsDiffer
<1>18. RequestsCounted'
  <2> SUFFICES ASSUME NEW e \in Delivery, NEW q \in Round PROVE Counted(e, q)'
    BY DEF RequestsCounted
  <2>1. Counted(e, q) /\ (Enqueued(e)' <=> Enqueued(e)) /\ delivery' = delivery
    BY <1>0, <1>1 DEF RequestsCounted, Enqueued
  <2>2. Pending(e, q)' \subseteq Pending(e, q)
    BY <1>8, <1>9, PendingKept
  <2>3. CASE e # d \/ q # r
    <3>1. delivery[e].cycle <= delivery[e].cycle
      BY <1>0, CountTypes
    <3> QED
      BY <1>0, <1>6, <1>13, <2>1, <2>2, <2>3, <3>1, CountedKept
  <2>4. CASE e = d /\ q = r
    <3> DEFINE c == dispatcher[w].cycle
    <3>1. c \in Pending(d, r)
      BY <1>1, <1>3, <1>10 DEF Pending, BeforePost
    <3>2. c \notin Pending(d, r)'
      <4> SUFFICES ASSUME NEW v \in BeforePost(d, r)', dispatcher'[v].cycle = c PROVE FALSE
        BY DEF Pending
      <4>1. /\ v \in Dispatcher /\ v # w /\ On(v, d) /\ dispatcher[v].round = r
            /\ dispatcher[v].cycle = c
        BY <1>8, <1>9 DEF BeforePost
      <4> QED
        BY <1>0, <1>1, <1>3, <1>10, <4>1 DEF ClaimsDiffer
    <3>3. Pending(d, r)' \subseteq Pending(d, r) \ {c}
      BY <2>2, <2>4, <3>2
    <3> HIDE DEF c
    <3>4. /\ Cardinality(Pending(d, r)) \in Nat /\ Cardinality(Pending(d, r)') \in Nat
          /\ Cardinality(Pending(d, r)') <= Cardinality(Pending(d, r)) - 1
      BY <1>0, <3>1, <3>3, PendingFinite, OneLess
    <3>5. posts[d][r] \in Nat /\ delivery[d].cycle \in Nat /\ MaxDeliveryAttempts \in Nat
      BY <1>0, CountTypes
    <3>6. posts'[d][r] + Cardinality(Pending(d, r)')
             <= posts[d][r] + Cardinality(Pending(d, r))
      BY <1>6, <3>4, <3>5
    <3>7. posts[d][r] + Cardinality(Pending(d, r)) \in Nat
          /\ posts'[d][r] + Cardinality(Pending(d, r)') \in Nat
      BY <1>6, <3>4, <3>5
    <3> DEFINE before == posts[d][r] + Cardinality(Pending(d, r))
               after  == posts'[d][r] + Cardinality(Pending(d, r)')
    <3>8. before <= MaxDeliveryAttempts
          /\ (Enqueued(d) /\ r = delivery[d].round => before <= delivery[d].cycle)
      BY <2>1, <2>4 DEF Counted
    <3>9. after <= before /\ before \in Nat /\ after \in Nat
      BY <3>6, <3>7
    <3> HIDE DEF before, after
    <3>10. after <= MaxDeliveryAttempts
           /\ (Enqueued(d) /\ r = delivery[d].round => after <= delivery[d].cycle)
      BY <3>5, <3>8, <3>9
    <3> QED
      BY <2>1, <2>4, <3>10 DEF Counted, after
  <2> QED
    BY <2>3, <2>4
<1>19. Alone'
  BY <1>0, <1>1, <1>9, <1>12 DEF Alone, Enqueued
<1>20. Received'
  <2>1. ASSUME NEW e \in Delivery, NEW v \in Dispatcher, On(v, e)',
               dispatcher'[v].verdict = "delivered"
        PROVE  accepted'[e][dispatcher'[v].round] > 0
    <3>1. CASE v = w
      <4>1. e = d /\ taken
        BY <1>4, <1>8, <1>9, <1>10, <2>1, <3>1
      <4> QED
        BY <1>7, <1>8, <1>11, <3>1, <4>1
    <3>2. CASE v # w
      <4>1. accepted[e][dispatcher[v].round] > 0 /\ dispatcher[v].round \in Round
        BY <1>0, <1>8, <1>9, <2>1, <3>2 DEF Received, TypeOK, DispatcherType
      <4> QED
        BY <1>8, <1>11, <3>2, <4>1
    <3> QED
      BY <3>1, <3>2
  <2>2. ASSUME NEW e \in Delivery, delivery'[e].status = "delivered"
        PROVE  accepted'[e][delivery'[e].round] > 0
    <3>1. accepted[e][delivery[e].round] > 0 /\ delivery[e].round \in Round
      BY <1>0, <1>1, <2>2, CountTypes DEF Received
    <3> QED
      BY <1>1, <1>11, <3>1
  <2> QED
    BY <2>1, <2>2 DEF Received
<1>21. TakenOnce'
  <2>1. ASSUME NEW e \in Delivery, e \notin disturbed', e # d
        PROVE  /\ \A q \in Round : accepted'[e][q] <= 1
               /\ \A v \in Dispatcher :
                     On(v, e)' /\ dispatcher'[v].verdict # "delivered" =>
                        accepted'[e][dispatcher'[v].round] = 0
               /\ delivery'[e].status \in {"pending", "failed"} =>
                     accepted'[e][delivery'[e].round] = 0
    <3>1. \A v \in Dispatcher : dispatcher[v].round \in Round
      BY <1>0 DEF TypeOK, DispatcherType
    <3>2. delivery[e].round \in Round /\ delivery' = delivery /\ e \notin disturbed
      BY <1>0, <1>1, <1>12, <2>1, CountTypes
    <3> QED
      BY <1>0, <1>7, <1>8, <1>9, <1>10, <2>1, <3>1, <3>2 DEF TakenOnce
  <2>2. ASSUME d \notin disturbed'
        PROVE  /\ \A q \in Round : accepted'[d][q] <= 1
               /\ \A v \in Dispatcher :
                     On(v, d)' /\ dispatcher'[v].verdict # "delivered" =>
                        accepted'[d][dispatcher'[v].round] = 0
               /\ delivery'[d].status \notin {"pending", "failed"}
    <3>1. /\ d \notin disturbed /\ accepted[d][r] = 0
          /\ \A v \in Dispatcher : On(v, d) => v = w
      BY <1>0, <1>1, <1>3, <1>10, <1>12, <2>2 DEF TakenOnce, Alone
    <3>2. delivery'[d].status \notin {"pending", "failed"}
      BY <1>0, <1>1, <1>10, <3>1 DEF Alone, Enqueued
    <3>3. \A q \in Round : accepted'[d][q] <= 1
      BY <1>0, <1>7, <3>1 DEF TakenOnce
    <3>4. verdict # "delivered" => accepted'[d][r] = 0
      BY <1>7, <1>12, <2>2, <3>1
    <3> QED
      BY <1>8, <1>9, <3>1, <3>2, <3>3, <3>4
  <2> QED
    BY <2>1, <2>2 DEF TakenOnce
<1>22. Tried'
  <2>1. \A e \in Delivery : Unfit(e)' <=> Unfit(e)
    BY <1>1 DEF Unfit
  <2>2. posts'[d][r] > 0
    BY <1>6, <1>11
  <2>3. \A e \in Delivery, q \in Round : posts[e][q] > 0 => posts'[e][q] > 0
    BY <1>11
  <2>4. /\ \A v \in Dispatcher : dispatcher[v].round \in Round
        /\ \A e \in Delivery : delivery[e].round \in Round
    BY <1>0 DEF TypeOK, DispatcherType, DeliveryType
  <2> QED
    BY <1>0, <1>1, <1>8, <1>9, <1>10, <1>12, <2>1, <2>2, <2>3, <2>4
    DEF Tried, Enqueued
<1> QED
  BY <1>13, <1>14, <1>15, <1>16, <1>17, <1>18, <1>19, <1>20, <1>21, <1>22 DEF WInv

\* finalize_delivery writes down what the dispatcher that owns the claim learned.
LEMMA FinalizeStep == ASSUME WInv, NEW w \in Dispatcher, Finalize(w) PROVE WInv'
<1>0. /\ TypeOK /\ Dispatchers /\ Rows /\ Rounds /\ Latest /\ ClaimsDiffer
      /\ RequestsCounted /\ Alone /\ Received /\ TakenOnce /\ Tried
  BY DEF WInv
<1>1. /\ dispatcher[w].pc = "answered" /\ HoldsLease(w)
      /\ UNCHANGED <<sink, posts, accepted, target, disturbed, faults>>
  BY DEF Finalize, history
<1>2. PICK d \in Delivery : d = dispatcher[w].delivery
  BY <1>0, <1>1 DEF Dispatchers
<1>3. PICK verdict \in {"delivered", "failed", "dead_lettered"} :
         verdict = dispatcher[w].verdict
  BY <1>0, <1>1 DEF Dispatchers, TypeOK, DispatcherType
<1>4. /\ delivery' = [delivery EXCEPT ![d].status = verdict, ![d].due = FALSE,
                                      ![d].lease = "none", ![d].token = Nobody]
      /\ dispatcher' = [dispatcher EXCEPT ![w] = Free]
  BY <1>2, <1>3 DEF Finalize
<1>5. delivery[d].status = "delivering" /\ delivery[d].token = w /\ On(w, d)
  BY <1>1, <1>2 DEF HoldsLease, On
<1>6. /\ delivery' \in [Delivery -> DeliveryType]
      /\ \A e \in Delivery : e # d => delivery'[e] = delivery[e]
      /\ delivery'[d].status = verdict /\ delivery'[d].sink = delivery[d].sink
      /\ delivery'[d].version = delivery[d].version /\ delivery'[d].lease = "none"
      /\ delivery'[d].cycle = delivery[d].cycle /\ delivery'[d].round = delivery[d].round
  <2>1. delivery \in [Delivery -> DeliveryType] /\ delivery[d] \in DeliveryType
    BY <1>0 DEF TypeOK
  <2>2. /\ delivery'[d] = [delivery[d] EXCEPT !.status = verdict, !.due = FALSE,
                                             !.lease = "none", !.token = Nobody]
        /\ \A e \in Delivery : e # d => delivery'[e] = delivery[e]
        /\ DOMAIN delivery' = Delivery
        /\ delivery' = [e \in Delivery |-> delivery'[e]]
    BY <1>4, <2>1
  <2>3. delivery'[d] \in DeliveryType
    BY <2>1, <2>2 DEF DeliveryType
  <2>4. delivery' \in [Delivery -> DeliveryType]
    <3>1. \A e \in Delivery : delivery'[e] \in DeliveryType
      BY <2>1, <2>2, <2>3
    <3> QED
      BY <2>2, <3>1
  <2> QED
    BY <2>1, <2>2, <2>4 DEF DeliveryType
<1>7. /\ dispatcher' \in [Dispatcher -> DispatcherType] /\ dispatcher'[w] = Free
      /\ \A v \in Dispatcher : v # w => dispatcher'[v] = dispatcher[v]
  BY <1>0, <1>4, FreeType DEF TypeOK
<1>8. Free.pc = "idle" /\ Free.delivery = NoDelivery /\ Free.verdict = "none"
  BY DEF Free
<1>9. \A v \in Dispatcher, e \in Delivery :
         On(v, e)' => On(v, e) /\ v # w /\ dispatcher'[v] = dispatcher[v]
  BY <1>7, <1>8, NullAssumption DEF On
<1>10. /\ Enqueued(d) /\ Enqueued(d)'
       /\ \A e \in Delivery : e # d => (Enqueued(e)' <=> Enqueued(e))
  BY <1>5, <1>6 DEF Enqueued
<1>11. dispatcher[w].round = delivery[d].round
  BY <1>0, <1>5 DEF Latest
<1>12. TypeOK'
  BY <1>0, <1>1, <1>6, <1>7 DEF TypeOK
<1>13. Dispatchers'
  BY <1>0, <1>7, <1>8 DEF Dispatchers
<1>14. Rows'
  BY <1>0, <1>1, <1>6, <1>9, <1>10 DEF Rows, Enqueued
<1>15. Rounds' /\ Latest' /\ ClaimsDiffer'
  <2>1. Rounds'
    BY <1>0, <1>1, <1>6, <1>9, <1>10 DEF Rounds
  <2>2. Latest'
    BY <1>0, <1>6, <1>9 DEF Latest
  <2>3. ClaimsDiffer'
    BY <1>0, <1>9 DEF ClaimsDiffer
  <2> QED
    BY <2>1, <2>2, <2>3
<1>16. RequestsCounted'
  <2> SUFFICES ASSUME NEW e \in Delivery, NEW r \in Round PROVE Counted(e, r)'
    BY DEF RequestsCounted
  <2>1. Counted(e, r) /\ (Enqueued(e)' <=> Enqueued(e))
    BY <1>0, <1>10 DEF RequestsCounted
  <2>2. Pending(e, r)' \subseteq Pending(e, r)
    BY <1>9, PendingKept
  <2>3. delivery[e].cycle <= delivery'[e].cycle /\ delivery'[e].round = delivery[e].round
    BY <1>0, <1>6, CountTypes
  <2> QED
    BY <1>0, <1>1, <1>12, <2>1, <2>2, <2>3, CountedKept
<1>17. Alone'
  <2>1. d \notin disturbed => \A v \in Dispatcher : ~On(v, d)'
    BY <1>0, <1>5, <1>9 DEF Alone
  <2>2. \A v \in Dispatcher, e \in Delivery : e # d => (On(v, e)' <=> On(v, e))
    BY <1>2, <1>7, <1>8, <1>9 DEF On
  <2> QED
    BY <1>0, <1>1, <1>6, <1>10, <2>1, <2>2 DEF Alone
<1>18. Received'
  BY <1>0, <1>1, <1>3, <1>5, <1>6, <1>9, <1>11 DEF Received
<1>19. TakenOnce'
  BY <1>0, <1>1, <1>3, <1>5, <1>6, <1>9, <1>11 DEF TakenOnce
<1>20. Tried'
  <2>1. \A e \in Delivery : Unfit(e)' <=> Unfit(e)
    <3>1. \A e \in Delivery : /\ delivery'[e].sink = delivery[e].sink
                              /\ delivery'[e].version = delivery[e].version
      BY <1>6
    <3> QED
      BY <1>1, <3>1 DEF Unfit
  <2> QED
    BY <1>0, <1>1, <1>3, <1>5, <1>6, <1>9, <1>10, <1>11, <2>1 DEF Tried
<1> QED
  BY <1>12, <1>13, <1>14, <1>15, <1>16, <1>17, <1>18, <1>19, <1>20 DEF WInv

-----------------------------------------------------------------------------
(* The invariant holds initially and is preserved *)

LEMMA InitWInv == Init => WInv
<1> SUFFICES ASSUME Init PROVE WInv
  OBVIOUS
<1>1. NewDelivery \in DeliveryType
  BY LimitAssumption DEF NewDelivery, DeliveryType, Cycle, Round
<1>2. TypeOK
  <2>1. delivery \in [Delivery -> DeliveryType] /\ dispatcher \in [Dispatcher -> DispatcherType]
    BY <1>1, FreeType DEF Init
  <2>2. sink \in [Sink -> SinkType]
    BY LimitAssumption DEF Init, SinkType
  <2>3. faults \in 0..MaxFaults
    BY LimitAssumption DEF Init
  <2> QED
    BY <2>1, <2>2, <2>3 DEF Init, TypeOK
<1>3. /\ \A d \in Delivery : /\ delivery[d].status = "absent" /\ delivery[d].sink = NoSink
                             /\ delivery[d].lease = "none" /\ target[d] = {}
                             /\ \A r \in Round : posts[d][r] = 0 /\ accepted[d][r] = 0
      /\ \A w \in Dispatcher : dispatcher[w] = Free
  BY DEF Init, NewDelivery
<1>4. Free.pc = "idle" /\ Free.delivery = NoDelivery /\ Free.verdict = "none"
  BY DEF Free
<1>5. \A d \in Delivery, w \in Dispatcher : ~On(w, d)
  BY <1>3, <1>4, NullAssumption DEF On
<1>6. Dispatchers /\ Rows /\ Rounds /\ Latest /\ ClaimsDiffer
  BY <1>3, <1>4, <1>5 DEF Dispatchers, Rows, Rounds, Latest, ClaimsDiffer, Enqueued
<1>7. RequestsCounted
  <2> SUFFICES ASSUME NEW d \in Delivery, NEW r \in Round PROVE Counted(d, r)
    BY DEF RequestsCounted
  <2>1. Pending(d, r) = {}
    BY <1>5 DEF Pending, BeforePost
  <2>2. Cardinality(Pending(d, r)) = 0
    BY <2>1, FS_EmptySet
  <2> QED
    BY <1>3, <2>2, LimitAssumption DEF Counted, Enqueued
<1>8. Alone /\ Received /\ TakenOnce /\ Tried
  BY <1>3, <1>5 DEF Alone, Received, TakenOnce, Tried, Enqueued
<1> QED
  BY <1>2, <1>6, <1>7, <1>8 DEF WInv

LEMMA StutterWInv == ASSUME WInv, UNCHANGED vars PROVE WInv'
<1>1. UNCHANGED <<sink, delivery, dispatcher, posts, accepted, target, disturbed, faults>>
  BY DEF vars
<1>2. /\ TypeOK' = TypeOK /\ Dispatchers' = Dispatchers /\ Rows' = Rows
      /\ Rounds' = Rounds /\ Latest' = Latest /\ ClaimsDiffer' = ClaimsDiffer
  BY <1>1 DEF TypeOK, Dispatchers, Rows, Rounds, Latest, ClaimsDiffer, Enqueued, On
<1>3. RequestsCounted' = RequestsCounted
  BY <1>1 DEF RequestsCounted, Counted, Pending, BeforePost, Enqueued, On
<1>4. /\ Alone' = Alone /\ Received' = Received
      /\ TakenOnce' = TakenOnce /\ Tried' = Tried
  BY <1>1 DEF Alone, Received, TakenOnce, Tried, Unfit, Enqueued, On
<1> QED
  BY <1>2, <1>3, <1>4 DEF WInv

LEMMA NextWInv == WInv /\ [Next]_vars => WInv'
<1> SUFFICES ASSUME WInv, [Next]_vars PROVE WInv'
  OBVIOUS
<1>1. ASSUME NEW s \in Sink, NEW d \in Delivery, EnqueueItem(d, s) \/ EnqueueTest(d, s)
      PROVE  WInv'
  <2>1. sink[s].version \in 1..MaxVersion
    BY DEF WInv, TypeOK, SinkType
  <2>2. PICK v \in 1..sink[s].version : Insert(d, s, v)
    BY <1>1, <2>1 DEF EnqueueItem, EnqueueTest
  <2> QED
    BY <2>2, InsertStep
<1>2. ASSUME NEW s \in Sink, UpdateSink(s) \/ DeleteSink(s) PROVE WInv'
  BY <1>2, UpdateSinkStep, DeleteSinkStep
<1>3. ASSUME NEW d \in Delivery, Redeliver(d) PROVE WInv'
  BY <1>3, RedeliverStep
<1>4. ASSUME NEW d \in Delivery, BecomeDue(d) \/ LeaseRunsOut(d) \/ Overrun(d) PROVE WInv'
  BY <1>4, TimeSteps
<1>5. ASSUME NEW w \in Dispatcher, Claim(w) PROVE WInv'
  BY <1>5, ClaimStep
<1>6. ASSUME NEW w \in Dispatcher,
             CheckLease(w) \/ LeaseLost(w) \/ Crash(w) \/ DispatchError(w)
      PROVE  WInv'
  BY <1>6, HandlerSteps
<1>7. ASSUME NEW w \in Dispatcher, ReadSink(w) \/ Post(w) \/ Finalize(w) PROVE WInv'
  BY <1>7, ReadSinkStep, PostStep, FinalizeStep
<1>8. ASSUME UNCHANGED vars PROVE WInv'
  BY <1>8, StutterWInv
<1> QED
  BY <1>1, <1>2, <1>3, <1>4, <1>5, <1>6, <1>7, <1>8 DEF Next, Proceed

\* In every reachable state claims, rows and requests agree, whatever commands,
\* crashes, late dispatchers and lost answers came between a claim of
\* claim_due_deliveries and its finalize_delivery.
THEOREM ClaimsAgree == Spec => []WInv
<1>1. Init => WInv
  BY InitWInv
<1>2. WInv /\ [Next]_vars => WInv'
  BY NextWInv
<1> QED
  BY <1>1, <1>2, PTL DEF Spec

-----------------------------------------------------------------------------
(* What follows *)

\* Every row and every claim in memory has the shape the code reads it with.
THEOREM DeliveryTypes == Spec => []TypeOK
<1>1. WInv => TypeOK
  BY DEF WInv
<1> QED
  BY <1>1, ClaimsAgree, PTL

\* No round of a delivery sends more than MAX_DELIVERY_ATTEMPTS requests however
\* often its dispatcher dies; only interference makes the receiver take it in
\* twice; no version of a sink receives what was meant for another.
THEOREM RequestsAreJustified == Spec => []RequestsJustified
<1>1. ASSUME WInv PROVE RequestsJustified
  <2>0. TypeOK /\ Rows /\ RequestsCounted /\ TakenOnce
    BY <1>1 DEF WInv
  <2> SUFFICES ASSUME NEW d \in Delivery
               PROVE  /\ \A r \in Round : /\ posts[d][r] <= MaxDeliveryAttempts
                                          /\ accepted[d][r] > 1 => d \in disturbed
                      /\ delivery[d].status # "absent" =>
                            target[d] \subseteq {delivery[d].version}
    BY DEF RequestsJustified
  <2>1. ASSUME NEW r \in Round
        PROVE  posts[d][r] <= MaxDeliveryAttempts
               /\ (accepted[d][r] > 1 => d \in disturbed)
    <3>1. /\ posts[d][r] \in Nat /\ accepted[d][r] \in Nat
          /\ MaxDeliveryAttempts \in Nat /\ Cardinality(Pending(d, r)) \in Nat
      BY <2>0, CountTypes, PendingFinite
    <3>2. posts[d][r] + Cardinality(Pending(d, r)) <= MaxDeliveryAttempts
      BY <2>0 DEF RequestsCounted, Counted
    <3>3. d \notin disturbed => accepted[d][r] <= 1
      BY <2>0 DEF TakenOnce
    <3>4. posts[d][r] <= MaxDeliveryAttempts
      BY <3>1, <3>2
    <3>5. accepted[d][r] > 1 => d \in disturbed
      BY <3>1, <3>3
    <3> QED
      BY <3>4, <3>5
  <2>2. delivery[d].status # "absent" => target[d] \subseteq {delivery[d].version}
    BY <2>0 DEF Rows, Enqueued
  <2> QED
    BY <2>1, <2>2
<1> QED
  BY <1>1, ClaimsAgree, PTL

\* A row says "delivered" only of a round whose request the receiver took in, and,
\* undisturbed, "dead_lettered" only after a request or of a sink that would not
\* take it: finalize_delivery never records what another claim learned.
THEOREM OutcomesAreTruthful == Spec => []OutcomeTruthful
<1>1. WInv => OutcomeTruthful
  BY DEF WInv, OutcomeTruthful, Received, Tried, Unfit, Enqueued
<1> QED
  BY <1>1, ClaimsAgree, PTL

\* A delivery leaves "delivering" with the verdict of the dispatcher that holds its
\* token under a live lease, or disappears with its sink; no command, no timeout
\* and no dispatcher that was overtaken ends it otherwise.
THEOREM OutcomesAreFenced == Spec => OutcomeFenced
<1>1. ASSUME WInv, [Next]_vars, NEW d \in Delivery,
             delivery[d].status = "delivering",
             delivery'[d].status \notin {"delivering", "absent"}
      PROVE  /\ delivery[d].lease = "live"
             /\ \E w \in Dispatcher : /\ dispatcher[w].delivery = d
                                      /\ delivery[d].token = w
                                      /\ dispatcher[w].verdict = delivery'[d].status
                                      /\ dispatcher'[w] = Free
  <2>0. /\ TypeOK /\ Dispatchers
        /\ delivery \in [Delivery -> DeliveryType] /\ delivery[d] \in DeliveryType
        /\ dispatcher \in [Dispatcher -> DispatcherType]
    BY <1>1 DEF WInv, TypeOK
  <2>1. ASSUME NEW s \in Sink, NEW e \in Delivery, EnqueueItem(e, s) \/ EnqueueTest(e, s)
        PROVE  FALSE
    <3>1. PICK v : Insert(e, s, v)
      BY <2>1 DEF EnqueueItem, EnqueueTest
    <3>2. e # d
      BY <1>1, <3>1 DEF Insert, NewDelivery
    <3> QED
      BY <1>1, <2>0, <3>1, <3>2 DEF Insert
  <2>2. ASSUME NEW s \in Sink, UpdateSink(s) \/ DeleteSink(s) PROVE FALSE
    <3>1. UpdateSink(s) => delivery' = delivery
      BY DEF UpdateSink
    <3>2. DeleteSink(s) => delivery'[d] = delivery[d] \/ delivery'[d].status = "absent"
      BY DEF DeleteSink, NewDelivery
    <3> QED
      BY <1>1, <2>2, <3>1, <3>2
  <2>3. ASSUME NEW e \in Delivery, Redeliver(e) PROVE FALSE
    <3>1. e # d
      BY <1>1, <2>3 DEF Redeliver
    <3> QED
      BY <1>1, <2>0, <2>3, <3>1 DEF Redeliver
  <2>4. ASSUME NEW e \in Delivery, BecomeDue(e) \/ LeaseRunsOut(e) \/ Overrun(e) PROVE FALSE
    <3>1. delivery'[d].status = delivery[d].status
      BY <2>0, <2>4 DEF BecomeDue, LeaseRunsOut, Overrun, DeliveryType
    <3> QED
      BY <1>1, <3>1
  <2>5. ASSUME NEW w \in Dispatcher, Claim(w) PROVE FALSE
    <3>1. PICK e \in Delivery, n \in Cycle :
             delivery' = [delivery EXCEPT ![e].status = "delivering", ![e].lease = "live",
                                          ![e].token = w, ![e].cycle = n]
      <4>1. \A e \in Delivery : delivery[e].cycle \in Cycle
        BY <2>0 DEF DeliveryType
      <4>2. \A n \in Cycle : n <= MaxDeliveryAttempts => n + 1 \in Cycle
        BY LimitAssumption DEF Cycle
      <4>3. \A n \in Cycle : n > MaxDeliveryAttempts \/ n <= MaxDeliveryAttempts
        BY LimitAssumption DEF Cycle
      <4> QED
        BY <2>5, <4>1, <4>2, <4>3 DEF Claim
    <3>2. delivery'[d].status = "delivering"
      BY <1>1, <2>0, <3>1 DEF DeliveryType
    <3> QED
      BY <1>1, <3>2
  <2>6. ASSUME NEW w \in Dispatcher,
               \/ CheckLease(w) \/ ReadSink(w) \/ Post(w) \/ LeaseLost(w)
               \/ DispatchError(w) \/ Crash(w)
        PROVE  FALSE
    <3>1. delivery' = delivery
      BY <2>6 DEF CheckLease, ReadSink, Post, LeaseLost, DispatchError, Crash
    <3> QED
      BY <1>1, <3>1
  <2>7. ASSUME NEW w \in Dispatcher, Finalize(w)
        PROVE  /\ delivery[d].lease = "live"
               /\ dispatcher[w].delivery = d /\ delivery[d].token = w
               /\ dispatcher[w].verdict = delivery'[d].status
               /\ dispatcher'[w] = Free
    <3>1. PICK e \in Delivery : e = dispatcher[w].delivery
      BY <2>0, <2>7 DEF Finalize, Dispatchers
    <3>2. delivery' = [delivery EXCEPT ![e].status = dispatcher[w].verdict, ![e].due = FALSE,
                                       ![e].lease = "none", ![e].token = Nobody]
      BY <2>7, <3>1 DEF Finalize
    <3>3. e = d
      BY <1>1, <2>0, <3>2
    <3>4. delivery'[d].status = dispatcher[w].verdict
      BY <2>0, <3>2, <3>3 DEF DeliveryType
    <3>5. dispatcher'[w] = Free
      BY <2>0, <2>7 DEF Finalize
    <3> QED
      BY <2>7, <3>1, <3>3, <3>4, <3>5 DEF Finalize, HoldsLease
  <2>8. ASSUME UNCHANGED vars PROVE FALSE
    BY <1>1, <2>8 DEF vars
  <2> QED
    BY <1>1, <2>1, <2>2, <2>3, <2>4, <2>5, <2>6, <2>7, <2>8 DEF Next, Proceed
<1>2. WInv /\ [Next]_vars =>
         [\A d \in Delivery :
             /\ delivery[d].status = "delivering"
             /\ delivery'[d].status \notin {"delivering", "absent"}
             => /\ delivery[d].lease = "live"
                /\ \E w \in Dispatcher : /\ dispatcher[w].delivery = d
                                         /\ delivery[d].token = w
                                         /\ dispatcher[w].verdict = delivery'[d].status
                                         /\ dispatcher'[w] = Free]_vars
  BY <1>1
<1> QED
  BY <1>2, ClaimsAgree, PTL DEF Spec, OutcomeFenced
=============================================================================
