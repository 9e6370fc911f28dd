--------------------------- MODULE DispatchProofs ---------------------------
(***************************************************************************)
(* Theorems about the parts that decide which work begins.                  *)
(*                                                                          *)
(* Schedules: for any number of collectors and control planes, any clock,   *)
(* any threshold and any number of edits and restarts.  CatalogRun: for any *)
(* finite catalog, any hosts, slots and budgets.  Commands: for any commands *)
(* and processes.  BoundedRecovery: from BoundedRecoveryProofs.  The last   *)
(* section puts them together.                                              *)
(***************************************************************************)
EXTENDS MCDispatch, TLAPS, WellFoundedInduction, FiniteSetTheorems

-----------------------------------------------------------------------------
(* Schedules: the inductive invariant *)

\* A schedule that is on can be switched off: that is one revision more.
Switchable == \A c \in Collector : schedule[c].enabled => schedule[c].revision <= MaxRevision

\* The runs of a collector that an occurrence started.
StartedFor(k) == {i \in DOMAIN runs[k.collector] : runs[k.collector][i].origin = k}

\* The receipt of an occurrence says whether there is a run of it.
Receipts == \A k \in Key :
    /\ IsFiniteSet(StartedFor(k))
    /\ Cardinality(StartedFor(k)) = IF occurrence[k] = "dispatched" THEN 1 ELSE 0

\* Runs of a collector follow one another.
OneAtATime == \A c \in Collector : \A i \in DOMAIN runs[c] :
    runs[c][i].status = "live" => i = Len(runs[c])

SInv == TypeOK /\ Switchable /\ Receipts /\ OneAtATime

LEMMA Bounds == /\ MaxTime \in Nat /\ MaxRevision \in Nat \ {0} /\ MaxRestarts \in Nat
                /\ PauseAfter \in Nat \ {0}
BY BoundAssumption

LEMMA ScheduleTypes ==
    ASSUME TypeOK, NEW c \in Collector
    PROVE  /\ schedule[c] \in [enabled : BOOLEAN, revision : Revision,
                               nextRunAt : Instant \cup {Never}]
           /\ collector[c] \in [lifecycle : {"active", "archived", "deleted"},
                                published : BOOLEAN]
           /\ runs[c] \in Seq(Run) /\ Len(runs[c]) \in Nat
           /\ DOMAIN runs[c] = 1..Len(runs[c])
BY DEF TypeOK

LEMMA NextTimesTyped == \A t : NextTimes(t) \subseteq Instant \cup {Never}
BY DEF NextTimes

-----------------------------------------------------------------------------
(* Steps that leave the runs and their receipts alone *)

LEMMA QuietStep ==
    ASSUME SInv, TypeOK', Switchable', runs' = runs,
           \A k \in Key : occurrence'[k] = "dispatched" <=> occurrence[k] = "dispatched"
    PROVE  SInv'
<1>1. \A k \in Key : StartedFor(k)' = StartedFor(k)
  BY DEF StartedFor
<1>2. Receipts'
  BY <1>1 DEF SInv, Receipts
<1>3. OneAtATime'
  BY DEF SInv, OneAtATime
<1> QED
  BY <1>2, <1>3 DEF SInv

\* save_schedule switches off, and a schedule that is off keeps its revision.
LEMMA SwitchOff ==
    ASSUME TypeOK, Switchable, NEW c \in Collector,
           schedule' = [schedule EXCEPT ![c] = SwitchedOff(@)]
    PROVE  /\ schedule' \in [Collector -> [enabled : BOOLEAN, revision : Revision,
                                           nextRunAt : Instant \cup {Never}]]
           /\ Switchable'
<1>1. schedule[c].revision \in Revision /\ (schedule[c].enabled => schedule[c].revision <= MaxRevision)
  BY ScheduleTypes DEF Switchable
<1>2. schedule[c].enabled => schedule[c].revision + 1 \in Revision
  BY <1>1, Bounds DEF Revision
<1>3. /\ SwitchedOff(schedule[c]) \in [enabled : BOOLEAN, revision : Revision,
                                       nextRunAt : Instant \cup {Never}]
      /\ ~SwitchedOff(schedule[c]).enabled
  BY <1>2, ScheduleTypes DEF SwitchedOff
<1>4. schedule' \in [Collector -> [enabled : BOOLEAN, revision : Revision,
                                   nextRunAt : Instant \cup {Never}]]
  BY <1>3 DEF TypeOK
<1>5. \A e \in Collector : schedule'[e] = IF e = c THEN SwitchedOff(schedule[c]) ELSE schedule[e]
  BY DEF TypeOK
<1> QED
  BY <1>3, <1>4, <1>5 DEF Switchable

LEMMA CollectorTyped ==
    ASSUME TypeOK, NEW c \in Collector, NEW l \in {"active", "archived", "deleted"},
           NEW b \in BOOLEAN,
           \/ collector' = [collector EXCEPT ![c].lifecycle = l]
           \/ collector' = [collector EXCEPT ![c].published = b]
    PROVE  collector' \in [Collector -> [lifecycle : {"active", "archived", "deleted"},
                                         published : BOOLEAN]]
<1>1. \/ collector' = [collector EXCEPT ![c] = [collector[c] EXCEPT !.lifecycle = l]]
      \/ collector' = [collector EXCEPT ![c] = [collector[c] EXCEPT !.published = b]]
  BY DEF TypeOK
<1>2. /\ [collector[c] EXCEPT !.lifecycle = l] \in
            [lifecycle : {"active", "archived", "deleted"}, published : BOOLEAN]
      /\ [collector[c] EXCEPT !.published = b] \in
            [lifecycle : {"active", "archived", "deleted"}, published : BOOLEAN]
  BY ScheduleTypes
<1> QED
  BY <1>1, <1>2 DEF TypeOK

\* What engineers do with a schedule, a collector and its rule.
LEMMA EngineerSteps ==
    ASSUME SInv, NEW c \in Collector, NEW on \in BOOLEAN,
           NEW l \in {"active", "archived", "deleted"},
           \/ EditSchedule(c, on) \/ SetLifecycle(c, l)
           \/ Publish(c) \/ Explore(c) \/ Redefine(c)
    PROVE  SInv'
<1>0. TypeOK /\ Switchable
  BY DEF SInv
<1>1. UNCHANGED <<runs, occurrence>>
  BY DEF EditSchedule, SetLifecycle, Publish, Explore, Redefine
<1>2. CASE EditSchedule(c, on)
  <2>1. PICK t \in NextTimes(now) :
           schedule' = [schedule EXCEPT ![c] =
              [enabled |-> on, revision |-> schedule[c].revision + 1,
               nextRunAt |-> IF on THEN t ELSE Never]]
    BY <1>2 DEF EditSchedule
  <2>2. schedule[c].revision + 1 \in Revision /\ schedule[c].revision + 1 <= MaxRevision
    BY <1>0, <1>2, ScheduleTypes, Bounds DEF EditSchedule, Revision
  <2>3. t \in Instant \cup {Never}
    BY NextTimesTyped
  <2>4. schedule' \in [Collector -> [enabled : BOOLEAN, revision : Revision,
                                     nextRunAt : Instant \cup {Never}]]
    BY <1>0, <2>1, <2>2, <2>3 DEF TypeOK
  <2>5. Switchable'
    BY <1>0, <2>1, <2>2 DEF TypeOK, Switchable
  <2>6. TypeOK'
    BY <1>0, <1>2, <2>4 DEF TypeOK, EditSchedule
  <2> QED
    BY <1>1, <2>5, <2>6, QuietStep
<1>3. CASE SetLifecycle(c, l) \/ Redefine(c)
  <2>1. schedule' = [schedule EXCEPT ![c] = SwitchedOff(@)]
    BY <1>3 DEF SetLifecycle, Redefine
  <2>2. collector' \in [Collector -> [lifecycle : {"active", "archived", "deleted"},
                                      published : BOOLEAN]]
    BY <1>0, <1>3, CollectorTyped DEF SetLifecycle, Redefine
  <2>3. TypeOK' /\ Switchable'
    BY <1>0, <1>3, <2>1, <2>2, SwitchOff DEF TypeOK, SetLifecycle, Redefine
  <2> QED
    BY <1>1, <2>3, QuietStep
<1>4. CASE Publish(c) \/ Explore(c)
  <2>1. collector' \in [Collector -> [lifecycle : {"active", "archived", "deleted"},
                                      published : BOOLEAN]]
    BY <1>0, <1>4, CollectorTyped DEF Publish, Explore
  <2>2. TypeOK' /\ Switchable'
    BY <1>0, <1>4, <2>1 DEF TypeOK, Switchable, Publish, Explore
  <2> QED
    BY <1>1, <2>2, QuietStep
<1> QED
  BY <1>2, <1>3, <1>4

\* maybe_pause_schedule_after_failures, or its loss.
LEMMA PauseSteps ==
    ASSUME SInv, NEW c \in Collector, PauseCheck(c) \/ LoseCheck(c)
    PROVE  SInv'
<1>0. TypeOK /\ Switchable
  BY DEF SInv
<1>1. CASE PauseCheck(c)
  <2>1. checks' \in [Collector -> Nat]
    BY <1>0, <1>1 DEF TypeOK, PauseCheck
  <2>2. /\ schedule' \in [Collector -> [enabled : BOOLEAN, revision : Revision,
                                        nextRunAt : Instant \cup {Never}]]
        /\ Switchable'
    BY <1>0, <1>1, SwitchOff DEF PauseCheck, TypeOK, Switchable
  <2>3. TypeOK'
    BY <1>0, <1>1, <2>1, <2>2 DEF TypeOK, PauseCheck
  <2> QED
    BY <1>1, <2>2, <2>3, QuietStep DEF PauseCheck
<1>2. CASE LoseCheck(c)
  <2>1. checks' \in [Collector -> Nat] /\ restarts' \in 0..MaxRestarts
    BY <1>0, <1>2, Bounds DEF TypeOK, LoseCheck
  <2>2. TypeOK' /\ Switchable'
    BY <1>0, <1>2, <2>1 DEF TypeOK, LoseCheck, Switchable
  <2> QED
    BY <1>2, <2>2, QuietStep DEF LoseCheck
<1> QED
  BY <1>1, <1>2

\* A poll of a control plane: claims, list, restart.
LEMMA PollSteps ==
    ASSUME SInv, NEW p \in Planner, ClaimDue(p) \/ ListPending(p) \/ Restart(p)
    PROVE  SInv'
<1>0. TypeOK /\ Switchable
  BY DEF SInv
<1>3. CASE ClaimDue(p)
  <2>1. PICK due \in SUBSET Collector :
           \E next \in [due -> NextTimes(now)] :
              schedule' = [e \in Collector |->
                 IF e \in due THEN [schedule[e] EXCEPT !.nextRunAt = next[e]]
                              ELSE schedule[e]]
    <3> DEFINE D == {e \in Collector : Due(e)}
    <3>1. D \in SUBSET Collector
      OBVIOUS
    <3>2. \E next \in [D -> NextTimes(now)] :
             schedule' = [e \in Collector |->
                IF e \in D THEN [schedule[e] EXCEPT !.nextRunAt = next[e]]
                           ELSE schedule[e]]
      BY <1>3 DEF ClaimDue
    <3> HIDE DEF D
    <3> QED
      BY <3>1, <3>2
  <2>2. PICK next \in [due -> NextTimes(now)] :
           schedule' = [e \in Collector |->
              IF e \in due THEN [schedule[e] EXCEPT !.nextRunAt = next[e]] ELSE schedule[e]]
    BY <2>1
  <2>3. \A e \in due : next[e] \in Instant \cup {Never}
    BY NextTimesTyped
  <2>4. /\ schedule' \in [Collector -> [enabled : BOOLEAN, revision : Revision,
                                        nextRunAt : Instant \cup {Never}]]
        /\ \A e \in Collector : /\ schedule'[e].enabled = schedule[e].enabled
                                /\ schedule'[e].revision = schedule[e].revision
    BY <1>0, <2>2, <2>3, ScheduleTypes
  <2>5. /\ occurrence' \in [Key -> {"absent", "claimed", "dispatched", "skipped"}]
        /\ \A k \in Key : occurrence'[k] = "dispatched" <=> occurrence[k] = "dispatched"
    BY <1>0, <1>3 DEF TypeOK, ClaimDue
  <2>6. TypeOK' /\ Switchable'
    BY <1>0, <1>3, <2>4, <2>5 DEF TypeOK, Switchable, ClaimDue
  <2> QED
    BY <1>3, <2>5, <2>6, QuietStep DEF ClaimDue
<1>4. CASE ListPending(p)
  <2>1. planner' \in [Planner -> SUBSET Key]
    BY <1>0, <1>4 DEF TypeOK, ListPending, Pending
  <2>2. TypeOK' /\ Switchable'
    BY <1>0, <1>4, <2>1 DEF TypeOK, ListPending, Switchable
  <2> QED
    BY <1>4, <2>2, QuietStep DEF ListPending
<1>5. CASE Restart(p)
  <2>1. planner' \in [Planner -> SUBSET Key] /\ restarts' \in 0..MaxRestarts
    BY <1>0, <1>5, Bounds DEF TypeOK, Restart
  <2>2. TypeOK' /\ Switchable'
    BY <1>0, <1>5, <2>1 DEF TypeOK, Restart, Switchable
  <2> QED
    BY <1>5, <2>2, QuietStep DEF Restart
<1> QED
  BY <1>3, <1>4, <1>5

-----------------------------------------------------------------------------
(* Runs *)

\* The receipt and the run of an occurrence that is dispatched, or a run that
\* belongs to none, of a collector that has no live run.
LEMMA CreateStep ==
    ASSUME SInv, TypeOK', Switchable', NEW c \in Collector, NEW o \in Key \cup {Manual},
           ~Live(c), CreateRun(c, o), o = Manual \/ o.collector = c,
           o # Manual => occurrence[o] # "dispatched" /\ occurrence'[o] = "dispatched",
           \A k \in Key : k # o =>
              (occurrence'[k] = "dispatched" <=> occurrence[k] = "dispatched")
    PROVE  SInv'
<1>0. TypeOK /\ Receipts /\ OneAtATime
  BY DEF SInv
<1>1. PICK n \in Nat : n = Len(runs[c])
  BY <1>0, ScheduleTypes
<1>2. DOMAIN runs[c] = 1..n
  BY <1>0, <1>1, ScheduleTypes
<1>3. /\ runs'[c] = Append(runs[c], [origin |-> o, status |-> "live"])
      /\ \A e \in Collector : e # c => runs'[e] = runs[e]
  BY <1>0 DEF CreateRun, TypeOK
<1>4. /\ DOMAIN runs'[c] = 1..(n + 1) /\ Len(runs'[c]) = n + 1
      /\ \A i \in 1..n : runs'[c][i] = runs[c][i]
      /\ runs'[c][n + 1] = [origin |-> o, status |-> "live"]
  <2>1. runs[c] \in Seq(Run)
    BY <1>0, ScheduleTypes
  <2> QED
    BY <1>1, <1>2, <1>3, <2>1
<1>5. \A i \in DOMAIN runs[c] : runs[c][i].status # "live"
  <2>1. \A i \in DOMAIN runs[c] : runs[c][i].status = "live" => i = n /\ runs[c] # <<>>
    BY <1>0, <1>1, <1>2 DEF OneAtATime
  <2> QED
    BY <1>1, <2>1 DEF Live, Last
<1>6. OneAtATime'
  BY <1>0, <1>2, <1>3, <1>4, <1>5 DEF OneAtATime
<1>7. ASSUME NEW k \in Key, k # o PROVE StartedFor(k)' = StartedFor(k)
  <2>1. CASE k.collector = c
    BY <1>2, <1>4, <1>7, <2>1 DEF StartedFor
  <2>2. CASE k.collector # c
    BY <1>3, <2>2 DEF StartedFor, Key
  <2> QED
    BY <2>1, <2>2
<1>8. ASSUME NEW k \in Key, k = o
      PROVE  /\ occurrence[k] # "dispatched" /\ occurrence'[k] = "dispatched"
             /\ StartedFor(k)' = StartedFor(k) \cup {n + 1} /\ n + 1 \notin StartedFor(k)
  <2>1. o # Manual /\ k.collector = c
    BY <1>8, OriginAssumption
  <2> QED
    BY <1>2, <1>4, <1>8, <2>1 DEF StartedFor
<1>9. ASSUME NEW k \in Key
      PROVE  /\ IsFiniteSet(StartedFor(k)')
             /\ Cardinality(StartedFor(k)') = IF occurrence'[k] = "dispatched" THEN 1 ELSE 0
  <2>1. /\ IsFiniteSet(StartedFor(k))
        /\ Cardinality(StartedFor(k)) = IF occurrence[k] = "dispatched" THEN 1 ELSE 0
    BY <1>0 DEF Receipts
  <2>2. CASE k # o
    BY <1>7, <2>1, <2>2
  <2>3. CASE k = o
    <3>1. IsFiniteSet(StartedFor(k) \cup {n + 1})
          /\ Cardinality(StartedFor(k) \cup {n + 1}) = Cardinality(StartedFor(k)) + 1
      BY <1>8, <2>1, <2>3, FS_AddElement
    <3>2. /\ occurrence[k] # "dispatched" /\ occurrence'[k] = "dispatched"
          /\ StartedFor(k)' = StartedFor(k) \cup {n + 1}
      BY <1>8, <2>3
    <3> QED
      BY <2>1, <3>1, <3>2
  <2> QED
    BY <2>2, <2>3
<1>10. Receipts'
  BY <1>9 DEF Receipts
<1> QED
  BY <1>6, <1>10 DEF SInv

LEMMA CreateTyped ==
    ASSUME TypeOK, NEW c \in Collector, NEW o \in Key \cup {Manual}, CreateRun(c, o)
    PROVE  /\ runs' \in [Collector -> Seq(Run)] /\ renewed' \in [Collector -> BOOLEAN]
<1>1. Append(runs[c], [origin |-> o, status |-> "live"]) \in Seq(Run)
  <2>1. runs[c] \in Seq(Run) /\ [origin |-> o, status |-> "live"] \in Run
    BY ScheduleTypes DEF Run
  <2> QED
    BY <2>1
<1> QED
  BY <1>1 DEF CreateRun, TypeOK

LEMMA StartStep == ASSUME SInv, NEW c \in Collector, StartRun(c) PROVE SInv'
<1>1. CreateRun(c, Manual) /\ ~Live(c) /\ UNCHANGED <<occurrence, schedule>>
  BY DEF StartRun, CanRun
<1>2. TypeOK' /\ Switchable'
  BY <1>1, CreateTyped DEF SInv, StartRun, TypeOK, Switchable
<1> QED
  BY <1>1, <1>2, CreateStep

\* The last run of a collector ends; whose it is does not change.
LEMMA EndStep ==
    ASSUME SInv, NEW c \in Collector, NEW s \in {"failed", "other"},
           Live(c), runs' = Ended(c, s), checks' \in [Collector -> Nat],
           UNCHANGED <<now, collector, schedule, occurrence, planner, renewed, restarts>>
    PROVE  SInv'
<1>0. TypeOK /\ Switchable /\ Receipts /\ OneAtATime
  BY DEF SInv
<1>1. PICK n \in Nat : n = Len(runs[c])
  BY <1>0, ScheduleTypes
<1>2. runs[c] \in Seq(Run) /\ DOMAIN runs[c] = 1..n
  BY <1>0, <1>1, ScheduleTypes
<1>3. /\ runs'[c] = [runs[c] EXCEPT ![n].status = s]
      /\ \A e \in Collector : e # c => runs'[e] = runs[e]
      /\ runs' = [e \in Collector |-> runs'[e]]
  BY <1>0, <1>1 DEF Ended, TypeOK
<1>4. /\ DOMAIN runs'[c] = 1..n
      /\ \A i \in 1..n : i # n => runs'[c][i] = runs[c][i]
      /\ \A i \in 1..n : i = n => runs'[c][i] = [runs[c][i] EXCEPT !.status = s]
  BY <1>2, <1>3
<1>5. \A i \in 1..n : runs[c][i] \in Run
  BY <1>2
<1>6. \A i \in 1..n : /\ runs'[c][i] \in Run /\ runs'[c][i].origin = runs[c][i].origin
                      /\ runs'[c][i].status = "live" => i # n /\ runs[c][i].status = "live"
  <2> SUFFICES ASSUME NEW i \in 1..n
               PROVE  /\ runs'[c][i] \in Run /\ runs'[c][i].origin = runs[c][i].origin
                      /\ runs'[c][i].status = "live" => i # n /\ runs[c][i].status = "live"
    OBVIOUS
  <2>1. runs[c][i] \in Run
    BY <1>5
  <2>2. CASE i = n
    <3>1. runs'[c][i] = [runs[c][i] EXCEPT !.status = s]
      BY <1>4, <2>2
    <3>2. runs'[c][i] \in Run /\ runs'[c][i].origin = runs[c][i].origin /\ runs'[c][i].status = s
      BY <2>1, <3>1 DEF Run
    <3> QED
      BY <3>2
  <2>3. CASE i # n
    BY <1>4, <2>1, <2>3
  <2> QED
    BY <2>2, <2>3
<1>7. runs'[c] \in Seq(Run) /\ Len(runs'[c]) = n
  <2>1. runs'[c] = [i \in 1..n |-> runs'[c][i]]
    BY <1>2, <1>3
  <2> QED
    BY <1>1, <1>6, <2>1
<1>8. runs' \in [Collector -> Seq(Run)]
  <2>1. \A e \in Collector : runs'[e] \in Seq(Run)
    BY <1>0, <1>3, <1>7, ScheduleTypes
  <2> QED
    BY <1>3, <2>1
<1>9. TypeOK' /\ Switchable'
  BY <1>0, <1>8 DEF TypeOK, Switchable
<1>10. \A k \in Key : StartedFor(k)' = StartedFor(k)
  <2> SUFFICES ASSUME NEW k \in Key PROVE StartedFor(k)' = StartedFor(k)
    OBVIOUS
  <2>1. CASE k.collector = c
    BY <1>2, <1>4, <1>6, <2>1 DEF StartedFor
  <2>2. CASE k.collector # c
    BY <1>3, <2>2 DEF StartedFor, Key
  <2> QED
    BY <2>1, <2>2
<1>11. Receipts'
  BY <1>0, <1>10 DEF Receipts
<1>12. OneAtATime'
  BY <1>0, <1>1, <1>2, <1>3, <1>4, <1>6 DEF OneAtATime
<1> QED
  BY <1>9, <1>11, <1>12 DEF SInv

LEMMA EndSteps ==
    ASSUME SInv, NEW c \in Collector, NEW s \in {"failed", "other"},
           EndRun(c, s) \/ ExhaustRun(c)
    PROVE  SInv'
<1>1. CASE EndRun(c, s)
  <2>1. checks' \in [Collector -> Nat]
    BY <1>1 DEF EndRun, SInv, TypeOK
  <2> QED
    BY <1>1, <2>1, EndStep DEF EndRun
<1>2. CASE ExhaustRun(c)
  <2>1. checks' \in [Collector -> Nat]
    BY <1>2 DEF ExhaustRun, SInv, TypeOK
  <2> QED
    BY <1>2, <2>1, EndStep DEF ExhaustRun
<1> QED
  BY <1>1, <1>2

\* dispatch_schedule_occurrence: the run and its receipt, or the receipt alone.
LEMMA DispatchStep == ASSUME SInv, NEW p \in Planner, Dispatch(p) PROVE SInv'
<1>0. TypeOK /\ Switchable /\ UNCHANGED <<now, collector, schedule, checks, restarts>>
  BY DEF SInv, Dispatch
<1>1. PICK k \in planner[p], starts \in BOOLEAN :
         /\ starts => StillPending(k) /\ StillScheduled(k) /\ CanRun(k.collector)
         /\ IF starts THEN CreateRun(k.collector, k) ELSE UNCHANGED <<runs, renewed>>
         /\ occurrence' = IF StillPending(k)
               THEN [occurrence EXCEPT ![k] = IF starts THEN "dispatched" ELSE "skipped"]
               ELSE occurrence
         /\ planner' = [planner EXCEPT ![p] = @ \ {k}]
  BY DEF Dispatch, StillScheduled, CanRun, StillPending
<1>2. k \in Key /\ k.collector \in Collector
  BY <1>0, <1>1 DEF TypeOK, Key
<1>3. /\ occurrence' \in [Key -> {"absent", "claimed", "dispatched", "skipped"}]
      /\ \A j \in Key : j # k => occurrence'[j] = occurrence[j]
      /\ StillPending(k) => /\ occurrence[k] # "dispatched"
                            /\ occurrence'[k] = IF starts THEN "dispatched" ELSE "skipped"
      /\ ~StillPending(k) => occurrence' = occurrence
  BY <1>0, <1>1, <1>2 DEF TypeOK, StillPending
<1>4. planner' \in [Planner -> SUBSET Key]
  BY <1>0, <1>1 DEF TypeOK
<1>5. Switchable'
  BY <1>0 DEF Switchable
<1>6. CASE starts
  <2>1. CreateRun(k.collector, k) /\ ~Live(k.collector) /\ StillPending(k)
    BY <1>1, <1>6 DEF CanRun
  <2>2. TypeOK'
    BY <1>0, <1>2, <1>3, <1>4, <2>1, CreateTyped DEF TypeOK
  <2> QED
    BY <1>2, <1>3, <1>5, <1>6, <2>1, <2>2, CreateStep
<1>7. CASE ~starts
  <2>1. TypeOK'
    BY <1>0, <1>1, <1>3, <1>4, <1>7 DEF TypeOK
  <2>2. \A j \in Key : occurrence'[j] = "dispatched" <=> occurrence[j] = "dispatched"
    BY <1>2, <1>3, <1>7
  <2> QED
    BY <1>1, <1>5, <1>7, <2>1, <2>2, QuietStep
<1> QED
  BY <1>6, <1>7

-----------------------------------------------------------------------------
LEMMA InitSInv == Init => SInv
<1> SUFFICES ASSUME Init PROVE SInv
  OBVIOUS
<1>1. 1 \in Revision /\ 0 \in 0..MaxTime /\ 0 \in 0..MaxRestarts /\ 0 \in Nat
  BY Bounds DEF Revision
<1>2. TypeOK
  BY <1>1 DEF Init, TypeOK
<1>3. Switchable
  BY DEF Init, Switchable
<1>4. \A k \in Key : StartedFor(k) = {}
  <2> SUFFICES ASSUME NEW k \in Key PROVE StartedFor(k) = {}
    OBVIOUS
  <2>1. runs[k.collector] = <<>>
    BY DEF Init, Key
  <2> QED
    BY <2>1 DEF StartedFor
<1>5. Receipts
  BY <1>4, FS_EmptySet DEF Init, Receipts
<1>6. OneAtATime
  BY DEF Init, OneAtATime
<1> QED
  BY <1>2, <1>3, <1>5, <1>6 DEF SInv

LEMMA NextSInv == SInv /\ [Next]_vars => SInv'
<1> SUFFICES ASSUME SInv, [Next]_vars PROVE SInv'
  OBVIOUS
<1>1. CASE Tick
  <2>1. TypeOK' /\ Switchable'
    BY <1>1, Bounds DEF SInv, TypeOK, Tick, Switchable
  <2> QED
    BY <1>1, <2>1, QuietStep DEF Tick
<1>2. ASSUME NEW c \in Collector, NEW on \in BOOLEAN, EditSchedule(c, on) PROVE SInv'
  BY <1>2, EngineerSteps
<1>3. ASSUME NEW c \in Collector, NEW l \in {"active", "archived", "deleted"},
             SetLifecycle(c, l)
      PROVE  SInv'
  BY <1>3, EngineerSteps
<1>4. ASSUME NEW c \in Collector, Publish(c) \/ Explore(c) \/ Redefine(c) PROVE SInv'
  BY <1>4, EngineerSteps
<1>5. ASSUME NEW c \in Collector, StartRun(c) PROVE SInv'
  BY <1>5, StartStep
<1>6. ASSUME NEW c \in Collector, NEW s \in {"failed", "other"}, EndRun(c, s) PROVE SInv'
  BY <1>6, EndSteps
<1>7. ASSUME NEW c \in Collector, ExhaustRun(c) PROVE SInv'
  BY <1>7, EndSteps
<1>8. ASSUME NEW c \in Collector, PauseCheck(c) \/ LoseCheck(c) PROVE SInv'
  BY <1>8, PauseSteps
<1>9. ASSUME NEW p \in Planner, ClaimDue(p) \/ ListPending(p) \/ Restart(p) PROVE SInv'
  BY <1>9, PollSteps
<1>10. ASSUME NEW p \in Planner, Dispatch(p) PROVE SInv'
  BY <1>10, DispatchStep
<1>11. ASSUME UNCHANGED vars PROVE SInv'
  <2>1. TypeOK' /\ Switchable' /\ runs' = runs /\ occurrence' = occurrence
    BY <1>11 DEF SInv, TypeOK, Switchable, vars
  <2> QED
    BY <2>1, QuietStep
<1> QED
  BY <1>1, <1>2, <1>3, <1>4, <1>5, <1>6, <1>7, <1>8, <1>9, <1>10, <1>11 DEF Next

\* Receipts of occurrences and runs of collectors agree in every reachable state,
\* whatever control planes poll, are restarted and dispatch in between.
THEOREM ReceiptsAgree == Spec => []SInv
<1>1. Init => SInv
  BY InitSInv
<1>2. SInv /\ [Next]_vars => SInv'
  BY NextSInv
<1> QED
  BY <1>1, <1>2, PTL DEF Spec

\* The rows have the shape the code reads them with; in particular a schedule that
\* is switched off automatically never leaves the revisions an engineer could reach
\* by more than one.
THEOREM ScheduleRowsTyped == Spec => []TypeOK
<1>1. SInv => TypeOK
  BY DEF SInv
<1> QED
  BY <1>1, ReceiptsAgree, PTL

\* An occurrence has one run if dispatch_schedule_occurrence said so and none
\* otherwise, however many control planes listed it, and a collector's older runs
\* have all ended.
THEOREM NoOccurrenceRunsTwice == Spec => []NoDoubleRun
<1>1. SInv => NoDoubleRun
  BY DEF SInv, Receipts, OneAtATime, StartedFor, NoDoubleRun
<1> QED
  BY <1>1, ReceiptsAgree, PTL

\* A run that a schedule starts is one the schedule asks for as it is when the run
\* is created: an occurrence claimed before a pause, an edit or an archive starts
\* nothing.
THEOREM NothingIsRevived == Spec => NoRevival
<1>1. ASSUME SInv, [Next]_vars, NEW c \in Collector, Len(runs'[c]) > Len(runs[c]),
             Last(runs'[c]).origin # Manual
      PROVE  /\ schedule[c].enabled
             /\ Last(runs'[c]).origin.revision = schedule[c].revision
             /\ collector[c].lifecycle = "active"
  <2>0. TypeOK /\ Len(runs[c]) \in Nat /\ runs[c] \in Seq(Run)
    BY <1>1, ScheduleTypes DEF SInv
  <2>1. runs'[c] # runs[c]
    BY <1>1, <2>0
  <2>2. ASSUME NEW e \in Collector, NEW o, CreateRun(e, o)
        PROVE  e = c /\ Last(runs'[c]).origin = o
    <3>1. e = c
      BY <2>0, <2>1, <2>2 DEF CreateRun, TypeOK
    <3>2. runs'[c] = Append(runs[c], [origin |-> o, status |-> "live"])
      BY <2>0, <2>2, <3>1 DEF CreateRun, TypeOK
    <3>3. /\ Len(runs'[c]) = Len(runs[c]) + 1
          /\ runs'[c][Len(runs[c]) + 1] = [origin |-> o, status |-> "live"]
      BY <2>0, <3>2
    <3>4. Last(runs'[c]) = [origin |-> o, status |-> "live"]
      BY <3>3 DEF Last
    <3> QED
      BY <3>1, <3>4
  <2>3. ASSUME NEW e \in Collector, StartRun(e) PROVE FALSE
    BY <1>1, <2>2, <2>3 DEF StartRun
  <2>4. ASSUME NEW e \in Collector, NEW s, runs' = Ended(e, s) PROVE FALSE
    <3>1. e = c
      BY <2>0, <2>1, <2>4 DEF Ended, TypeOK
    <3>2. runs'[c] = [runs[c] EXCEPT ![Len(runs[c])].status = s]
      BY <2>0, <2>4, <3>1 DEF Ended, TypeOK
    <3>3. Len(runs'[c]) = Len(runs[c])
      BY <2>0, <3>2
    <3> QED
      BY <1>1, <2>0, <3>3
  <2>5. ASSUME NEW p \in Planner, Dispatch(p)
        PROVE  /\ schedule[c].enabled
               /\ Last(runs'[c]).origin.revision = schedule[c].revision
               /\ collector[c].lifecycle = "active"
    <3>1. PICK k \in planner[p] :
             \/ /\ StillScheduled(k) /\ CanRun(k.collector) /\ CreateRun(k.collector, k)
             \/ UNCHANGED runs
      BY <2>5 DEF Dispatch
    <3>2. /\ StillScheduled(k) /\ CanRun(k.collector) /\ CreateRun(k.collector, k)
          /\ k.collector \in Collector
      BY <2>0, <2>1, <3>1 DEF TypeOK, Key
    <3>3. k.collector = c /\ Last(runs'[c]).origin = k
      BY <2>2, <3>2
    <3> QED
      BY <3>2, <3>3 DEF StillScheduled, CanRun
  <2>6. ASSUME UNCHANGED runs PROVE FALSE
    BY <2>1, <2>6
  <2> QED
    BY <1>1, <2>3, <2>4, <2>5, <2>6
    DEF Next, vars, Tick, EditSchedule, SetLifecycle, Publish, Explore, Redefine, EndRun,
        ExhaustRun, PauseCheck, LoseCheck, ClaimDue, ListPending, Restart
<1>2. SInv /\ [Next]_vars =>
         [\A c \in Collector :
             /\ Len(runs'[c]) > Len(runs[c])
             /\ Last(runs'[c]).origin # Manual
             => /\ schedule[c].enabled
                /\ Last(runs'[c]).origin.revision = schedule[c].revision
                /\ collector[c].lifecycle = "active"]_vars
  BY <1>1
<1> QED
  BY <1>2, ReceiptsAgree, PTL DEF Spec, NoRevival

-----------------------------------------------------------------------------
(* CatalogRun *)

\* The ledger is what the runner remembers, as long as there is one, and it tells
\* which rows are being read and which requests were sent.
LedgerFits ==
    /\ C!Up => memory = ledger
    /\ ledger.requests = Cardinality(C!Requests)
    /\ \A e \in Entry :
          /\ requested[e] = ledger.of[e]
          /\ ledger.of[e] <= C!Limit(e)
          /\ ledger.result[e] = "exhausted" => ledger.stopped
          /\ e \in ledger.running => ledger.result[e] = "none"

\* A row that has a task has no result yet and requests left; one that is read stands
\* in the ledger, alone of its host.
RowsTaken ==
    /\ \A e \in Entry :
          /\ row[e] # "none" => C!Up /\ ledger.result[e] = "none"
          /\ row[e] = "spacing" => ledger.of[e] < C!Limit(e)
          /\ C!Up => (C!Holds(e) <=> e \in ledger.running)
    /\ \A e, f \in Entry : C!Holds(e) /\ C!Holds(f) /\ e # f => C!HostOf(e) # C!HostOf(f)

\* A host that refused is closed, or will be when the invocation is taken up again;
\* no row of a closed one is read.
HostsClosed ==
    /\ C!Up => refused \subseteq ledger.blocked
    /\ refused \subseteq ledger.blocked \cup {C!HostOf(e) : e \in ledger.running}
    /\ \A e \in Entry : C!Holds(e) => C!HostOf(e) \notin ledger.blocked

CatalogInv == C!TypeOK /\ LedgerFits /\ RowsTaken /\ HostsClosed

\* What SettledForGood says of a step.
Settles ==
    \A e \in Entry :
        /\ ledger.result[e] # "none" => ledger'.result[e] = ledger.result[e]
        /\ requested'[e] > requested[e] =>
              /\ ledger.result[e] = "none"
              /\ C!HostOf(e) \notin refused \cup ledger.blocked

LEMMA CatalogLimits ==
    /\ IsFiniteSet(Entry) /\ BatchRequests \in Nat /\ MainRequests \in Nat
    /\ ReviewRequests \in Nat /\ ReviewRequests <= MainRequests /\ MaxInvocations \in Nat
    /\ \A S : C!Cardinality(S) = Cardinality(S)
<1>1. \A S : C!Cardinality(S) = Cardinality(S)
  BY DEF C!Cardinality, Cardinality
<1>2. \A S : C!IsFiniteSet(S) <=> IsFiniteSet(S)
  BY DEF C!IsFiniteSet, IsFiniteSet
<1> QED BY <1>1, <1>2, MCDispatchAssumption DEF C!CatalogAssumption

\* A ledger is a runner's memory, not the mark of a runner that is gone.
LEMMA LedgerUp == \A m \in C!Ledger : m # C!NoRunner
<1> TAKE m \in C!Ledger
<1>1. "requests" \in DOMAIN m
  BY DEF C!Ledger
<1>2. "requests" \notin DOMAIN C!NoRunner
  BY DEF C!NoRunner
<1> QED BY <1>1, <1>2

\* Types of what a step reads.
LEMMA CatalogTypes ==
    ASSUME CatalogInv
    PROVE  /\ ledger \in C!Ledger /\ (C!Up => memory = ledger)
           /\ ledger.requests \in Nat /\ ledger.requests <= BatchRequests
           /\ ledger.running \subseteq Entry /\ ledger.blocked \subseteq Host
           /\ refused \subseteq Host
           /\ \A e \in Entry :
                 /\ manifest[e].host \in Host /\ C!HostOf(e) \in Host
                 /\ C!Limit(e) \in Nat /\ C!Limit(e) <= MainRequests
                 /\ ledger.of[e] \in Nat /\ ledger.result[e] \in C!Results
                 /\ requested[e] \in Nat
<1>1. C!TypeOK /\ (C!Up => memory = ledger)
  BY DEF CatalogInv, LedgerFits
<1>2. ledger \in C!Ledger
  BY <1>1 DEF C!TypeOK
<1>3. /\ ledger.requests \in Nat /\ ledger.requests <= BatchRequests
      /\ ledger.running \subseteq Entry /\ ledger.blocked \subseteq Host
      /\ \A e \in Entry : ledger.of[e] \in Nat /\ ledger.result[e] \in C!Results
  BY <1>2, CatalogLimits DEF C!Ledger
<1>4. \A e \in Entry :
          /\ manifest[e].host \in Host /\ C!HostOf(e) \in Host /\ requested[e] \in Nat
          /\ C!Limit(e) \in Nat /\ C!Limit(e) <= MainRequests
  BY <1>1, CatalogLimits DEF C!TypeOK, C!HostOf, C!Limit
<1>5. refused \subseteq Host
  BY <1>1 DEF C!TypeOK
<1> QED BY <1>1, <1>2, <1>3, <1>4, <1>5

\* A row ends with a result: its host may be closed, the batch may be stopped.
LEMMA RowEnds ==
    ASSUME CatalogInv, C!Up, NEW e \in Entry, row[e] # "none",
           NEW r \in C!Results \ {"none"}, NEW m \in C!Ledger,
           m.requests = ledger.requests, m.of = ledger.of,
           m.result = [ledger.result EXCEPT ![e] = r], m.running = ledger.running \ {e},
           ledger.stopped => m.stopped, r = "exhausted" => m.stopped,
           NEW closed \in SUBSET {C!HostOf(e)}, closed # {} => C!Holds(e),
           m.blocked = ledger.blocked \cup closed,
           memory' = m, ledger' = m, row' = [row EXCEPT ![e] = "none"],
           refused \subseteq refused', refused' \subseteq refused \cup closed,
           UNCHANGED <<manifest, todo, requested, invocations>>
    PROVE  CatalogInv' /\ Settles
<1>1. /\ C!TypeOK /\ LedgerFits /\ RowsTaken /\ HostsClosed
  BY DEF CatalogInv
<1>2. C!Up'
  BY LedgerUp DEF C!Up
<1>3. /\ row'[e] = "none" /\ \A f \in Entry \ {e} : row'[f] = row[f]
      /\ \A f \in Entry : C!HostOf(f)' = C!HostOf(f) /\ C!Limit(f)' = C!Limit(f)
      /\ \A f \in Entry : C!Holds(f)' <=> f # e /\ C!Holds(f)
  BY <1>1 DEF C!TypeOK, C!HostOf, C!Limit, C!Holds
<1>4. /\ m.result[e] = r /\ \A f \in Entry \ {e} : m.result[f] = ledger.result[f]
      /\ ledger.result[e] = "none"
  BY <1>1, CatalogTypes DEF C!Ledger, RowsTaken
<1>5. C!TypeOK'
  <2>1. row' \in [Entry -> {"none", "waiting", "fetching", "spacing", "in_flight"}]
    BY <1>1 DEF C!TypeOK
  <2>2. refused' \in SUBSET Host
    BY CatalogTypes
  <2> QED BY <1>1, <2>1, <2>2 DEF C!TypeOK
<1>6. LedgerFits'
  <2>1. C!Requests' = C!Requests
    BY DEF C!Requests
  <2>2. \A f \in Entry :
            /\ requested'[f] = m.of[f] /\ m.of[f] <= C!Limit(f)'
            /\ m.result[f] = "exhausted" => m.stopped
            /\ f \in m.running => m.result[f] = "none"
    BY <1>1, <1>3, <1>4 DEF LedgerFits
  <2> QED BY <1>1, <1>2, <2>1, <2>2 DEF LedgerFits
<1>7. RowsTaken'
  <2>1. \A f \in Entry :
            /\ row'[f] # "none" => C!Up' /\ m.result[f] = "none"
            /\ row'[f] = "spacing" => m.of[f] < C!Limit(f)'
            /\ C!Holds(f)' <=> f \in m.running
    BY <1>1, <1>2, <1>3, <1>4 DEF RowsTaken
  <2>2. \A f, g \in Entry : C!Holds(f)' /\ C!Holds(g)' /\ f # g => C!HostOf(f)' # C!HostOf(g)'
    BY <1>1, <1>3 DEF RowsTaken
  <2> QED BY <2>1, <2>2 DEF RowsTaken
<1>8. HostsClosed'
  <2>1. refused' \subseteq m.blocked
    BY <1>1 DEF HostsClosed
  <2>2. \A f \in Entry : C!Holds(f)' => C!HostOf(f)' \notin m.blocked
    <3> TAKE f \in Entry
    <3> HAVE C!Holds(f)'
    <3>1. f # e /\ C!Holds(f) /\ C!HostOf(f)' = C!HostOf(f)
      BY <1>3
    <3>2. C!HostOf(f) \notin ledger.blocked
      BY <1>1, <3>1 DEF HostsClosed
    <3>3. C!HostOf(f) \notin closed
      BY <1>1, <3>1 DEF RowsTaken
    <3> QED BY <3>1, <3>2, <3>3
  <2> QED BY <2>1, <2>2 DEF HostsClosed
<1>9. Settles
  <2>1. \A f \in Entry : ~(requested'[f] > requested[f])
    BY CatalogTypes
  <2> QED BY <1>4, <2>1 DEF Settles
<1> QED BY <1>5, <1>6, <1>7, <1>8, <1>9 DEF CatalogInv

\* The row ends with a result that its task has decided on.
LEMMA FinishKeeps ==
    ASSUME CatalogInv, C!Up, NEW e \in Entry, row[e] # "none",
           NEW r \in C!Results \ {"none"}, NEW m \in C!Ledger,
           m.requests = ledger.requests, m.of = ledger.of, m.result = ledger.result,
           m.running = ledger.running, ledger.stopped => m.stopped,
           r = "exhausted" => m.stopped,
           NEW closed \in SUBSET {C!HostOf(e)}, closed # {} => C!Holds(e),
           m.blocked = ledger.blocked \cup closed, C!Finish(m, e, r),
           refused \subseteq refused', refused' \subseteq refused \cup closed,
           requested' = requested
    PROVE  CatalogInv' /\ Settles
<1> DEFINE end == [m EXCEPT !.result[e] = r, !.running = @ \ {e}]
<1>1. /\ memory' = end /\ ledger' = end /\ row' = [row EXCEPT ![e] = "none"]
      /\ UNCHANGED <<manifest, todo, invocations>>
  BY DEF C!Finish, C!Finished, C!Persist
<1>2. /\ end \in C!Ledger /\ end.requests = m.requests /\ end.of = m.of
      /\ end.result = [m.result EXCEPT ![e] = r] /\ end.running = m.running \ {e}
      /\ end.blocked = m.blocked /\ end.stopped = m.stopped
  BY DEF C!Ledger
<1>3. PICK l : l = end
  OBVIOUS
<1> HIDE DEF end
<1>4. /\ memory' = l /\ ledger' = l /\ row' = [row EXCEPT ![e] = "none"]
      /\ UNCHANGED <<manifest, todo, requested, invocations>>
  BY <1>1, <1>3
<1>5. /\ l \in C!Ledger /\ l.requests = ledger.requests /\ l.of = ledger.of
      /\ l.result = [ledger.result EXCEPT ![e] = r] /\ l.running = ledger.running \ {e}
      /\ l.blocked = ledger.blocked \cup closed
      /\ ledger.stopped => l.stopped
      /\ r = "exhausted" => l.stopped
  BY <1>2, <1>3
<1> QED BY <1>4, <1>5, RowEnds

LEMMA FailKeeps ==
    ASSUME CatalogInv, C!Up, NEW e \in Entry, C!Holds(e), C!Fail(e),
           refused \subseteq refused', refused' \subseteq refused \cup {C!HostOf(e)},
           requested' = requested
    PROVE  CatalogInv' /\ Settles
<1>1. ledger \in C!Ledger /\ memory = ledger /\ C!HostOf(e) \in Host
  BY CatalogTypes
<1>2. PICK m : m = C!Closed(ledger, e)
  OBVIOUS
<1>3. /\ m \in C!Ledger /\ m.requests = ledger.requests /\ m.of = ledger.of
      /\ m.result = ledger.result /\ m.running = ledger.running
      /\ m.stopped = ledger.stopped /\ m.blocked = ledger.blocked \cup {C!HostOf(e)}
  BY <1>1, <1>2 DEF C!Ledger, C!Closed
<1>4. C!Finish(m, e, "tested") /\ row[e] # "none" /\ "tested" \in C!Results \ {"none"}
  BY <1>1, <1>2 DEF C!Fail, C!Results, C!Holds
<1>5. PICK closed \in SUBSET {C!HostOf(e)} : closed = {C!HostOf(e)}
  OBVIOUS
<1>6. /\ m.blocked = ledger.blocked \cup closed
      /\ refused \subseteq refused' /\ refused' \subseteq refused \cup closed
  BY <1>3, <1>5
<1> QED BY <1>3, <1>4, <1>6, FinishKeeps

LEMMA ExhaustKeeps ==
    ASSUME CatalogInv, C!Up, NEW e \in Entry, C!Holds(e), C!Exhaust(e),
           refused' = refused, requested' = requested
    PROVE  CatalogInv' /\ Settles
<1>1. ledger \in C!Ledger /\ memory = ledger
  BY CatalogTypes
<1>2. PICK m : m = [ledger EXCEPT !.stopped = TRUE]
  OBVIOUS
<1>3. /\ m \in C!Ledger /\ m.requests = ledger.requests /\ m.of = ledger.of
      /\ m.result = ledger.result /\ m.running = ledger.running
      /\ m.stopped /\ m.blocked = ledger.blocked \cup {}
  BY <1>1, <1>2 DEF C!Ledger
<1>4. C!Finish(m, e, "exhausted") /\ row[e] # "none" /\ "exhausted" \in C!Results \ {"none"}
  BY <1>1, <1>2 DEF C!Exhaust, C!Results, C!Holds
<1>5. PICK closed \in SUBSET {C!HostOf(e)} : closed = {}
  OBVIOUS
<1>6. /\ m.blocked = ledger.blocked \cup closed
      /\ refused \subseteq refused' /\ refused' \subseteq refused \cup closed
  BY <1>3, <1>5
<1> QED BY <1>3, <1>4, <1>5, <1>6, FinishKeeps

\* A row goes on, or leaves its turn to others; the ledger notes that it is read.
LEMMA RowMoves ==
    ASSUME CatalogInv, C!Up, NEW e \in Entry, row[e] # "none",
           NEW s \in {"none", "fetching", "spacing"}, NEW m \in C!Ledger,
           m.requests = ledger.requests, m.of = ledger.of, m.result = ledger.result,
           m.blocked = ledger.blocked, ledger.stopped => m.stopped,
           m.running = IF s = "none" THEN ledger.running ELSE ledger.running \cup {e},
           s = "none" => ~C!Holds(e),
           s = "spacing" => ledger.of[e] < C!Limit(e),
           s # "none" => /\ C!HostOf(e) \notin ledger.blocked
                         /\ \A f \in Entry \ {e} : C!Holds(f) => C!HostOf(f) # C!HostOf(e),
           memory' = m, ledger' = m, row' = [row EXCEPT ![e] = s],
           todo' \in [Entry -> {"robots", "list", "first", "second"}],
           UNCHANGED <<manifest, requested, refused, invocations>>
    PROVE  CatalogInv' /\ Settles
<1>1. /\ C!TypeOK /\ LedgerFits /\ RowsTaken /\ HostsClosed
  BY DEF CatalogInv
<1>2. C!Up'
  BY LedgerUp DEF C!Up
<1>3. /\ row'[e] = s /\ \A f \in Entry \ {e} : row'[f] = row[f]
      /\ \A f \in Entry : C!HostOf(f)' = C!HostOf(f) /\ C!Limit(f)' = C!Limit(f)
      /\ \A f \in Entry \ {e} : C!Holds(f)' <=> C!Holds(f)
      /\ C!Holds(e)' <=> s # "none"
  BY <1>1 DEF C!TypeOK, C!HostOf, C!Limit, C!Holds
<1>4. ledger.result[e] = "none"
  BY <1>1 DEF RowsTaken
<1>5. C!TypeOK'
  <2>1. row' \in [Entry -> {"none", "waiting", "fetching", "spacing", "in_flight"}]
    BY <1>1 DEF C!TypeOK
  <2> QED BY <1>1, <2>1 DEF C!TypeOK
<1>6. LedgerFits'
  <2>1. C!Requests' = C!Requests
    BY DEF C!Requests
  <2>2. \A f \in Entry :
            /\ requested'[f] = m.of[f] /\ m.of[f] <= C!Limit(f)'
            /\ m.result[f] = "exhausted" => m.stopped
            /\ f \in m.running => m.result[f] = "none"
    BY <1>1, <1>3, <1>4 DEF LedgerFits
  <2> QED BY <1>1, <1>2, <2>1, <2>2 DEF LedgerFits
<1>7. RowsTaken'
  <2>1. \A f \in Entry :
            /\ row'[f] # "none" => C!Up' /\ m.result[f] = "none"
            /\ row'[f] = "spacing" => m.of[f] < C!Limit(f)'
            /\ C!Holds(f)' <=> f \in m.running
    BY <1>1, <1>2, <1>3, <1>4 DEF RowsTaken
  <2>2. \A f, g \in Entry : C!Holds(f)' /\ C!Holds(g)' /\ f # g => C!HostOf(f)' # C!HostOf(g)'
    BY <1>1, <1>3 DEF RowsTaken
  <2> QED BY <2>1, <2>2 DEF RowsTaken
<1>8. HostsClosed'
  <2>1. refused' \subseteq m.blocked
    BY <1>1 DEF HostsClosed
  <2>2. \A f \in Entry : C!Holds(f)' => C!HostOf(f)' \notin m.blocked
    BY <1>1, <1>3 DEF HostsClosed
  <2> QED BY <2>1, <2>2 DEF HostsClosed
<1>9. Settles
  <2>1. \A f \in Entry : ~(requested'[f] > requested[f])
    BY CatalogTypes
  <2> QED BY <2>1 DEF Settles
<1> QED BY <1>5, <1>6, <1>7, <1>8, <1>9 DEF CatalogInv

-----------------------------------------------------------------------------
(* The steps of a row *)

LEMMA EnterSteps ==
    ASSUME CatalogInv, NEW e \in Entry,
           C!EnterSpent(e) \/ C!EnterClosed(e) \/ C!Enter(e)
    PROVE  CatalogInv' /\ Settles
<1>1. /\ C!Up /\ row[e] = "waiting" /\ ~C!Holds(e) /\ memory = ledger
      /\ ledger \in C!Ledger
      /\ \A f \in Entry : C!Holds(f) => C!HostOf(f) # C!HostOf(e)
  BY CatalogTypes DEF C!EnterSpent, C!EnterClosed, C!Enter, C!CanEnter, C!Holds
<1>2. C!TypeOK
  BY DEF CatalogInv
<1>3. CASE C!EnterSpent(e)
  <2>1. PICK m : m = [ledger EXCEPT !.stopped = TRUE]
    OBVIOUS
  <2>2. /\ m \in C!Ledger /\ m.requests = ledger.requests /\ m.of = ledger.of
        /\ m.result = ledger.result /\ m.running = ledger.running
        /\ m.stopped /\ m.blocked = ledger.blocked
    BY <1>1, <2>1 DEF C!Ledger
  <2>3. /\ memory' = m /\ ledger' = m /\ row' = [row EXCEPT ![e] = "none"]
        /\ todo' \in [Entry -> {"robots", "list", "first", "second"}]
        /\ UNCHANGED <<manifest, requested, refused, invocations>>
    BY <1>1, <1>2, <1>3, <2>1 DEF C!EnterSpent, C!Persist, C!TypeOK
  <2> QED BY <1>1, <2>2, <2>3, RowMoves
<1>4. CASE C!EnterClosed(e)
  <2>1. PICK r \in C!Results \ {"none"} : C!Finish(ledger, e, r) /\ r # "exhausted"
    BY <1>1, <1>4 DEF C!EnterClosed, C!Results
  <2>2. UNCHANGED <<requested, refused>>
    BY <1>4 DEF C!EnterClosed
  <2>3. PICK closed \in SUBSET {C!HostOf(e)} : closed = {}
    OBVIOUS
  <2>4. /\ ledger.blocked = ledger.blocked \cup closed
        /\ refused \subseteq refused' /\ refused' \subseteq refused \cup closed
    BY <2>2, <2>3
  <2> QED BY <1>1, <2>1, <2>2, <2>3, <2>4, FinishKeeps
<1>5. CASE C!Enter(e)
  <2>1. PICK m : m = [ledger EXCEPT !.running = @ \cup {e}]
    OBVIOUS
  <2>2. /\ m \in C!Ledger /\ m.requests = ledger.requests /\ m.of = ledger.of
        /\ m.result = ledger.result /\ m.running = ledger.running \cup {e}
        /\ m.stopped = ledger.stopped /\ m.blocked = ledger.blocked
    BY <1>1, <2>1 DEF C!Ledger
  <2>3. /\ memory' = m /\ ledger' = m /\ row' = [row EXCEPT ![e] = "fetching"]
        /\ UNCHANGED <<manifest, requested, refused, invocations>>
        /\ C!HostOf(e) \notin ledger.blocked
    BY <1>1, <1>5, <2>1 DEF C!Enter, C!Persist
  <2>4. todo' \in [Entry -> {"robots", "list", "first", "second"}]
    BY <1>2, <1>5 DEF C!Enter, C!TypeOK
  <2> QED BY <1>1, <2>2, <2>3, <2>4, RowMoves
<1> QED BY <1>3, <1>4, <1>5

LEMMA AskKeeps ==
    ASSUME CatalogInv, NEW e \in Entry, C!Ask(e)
    PROVE  CatalogInv' /\ Settles
<1>1. /\ C!Up /\ row[e] = "fetching" /\ C!Holds(e) /\ memory = ledger
      /\ ledger \in C!Ledger /\ UNCHANGED <<requested, refused>>
  BY CatalogTypes DEF C!Ask, C!Holds
<1>2. /\ C!TypeOK /\ RowsTaken /\ HostsClosed
  BY DEF CatalogInv
<1>3. CASE C!Exhaust(e)
  BY <1>1, <1>3, ExhaustKeeps
<1>4. CASE C!Fail(e)
  BY <1>1, <1>4, FailKeeps
<1>5. CASE /\ ~C!Spent /\ memory.of[e] < C!Limit(e)
           /\ row' = [row EXCEPT ![e] = "spacing"]
           /\ UNCHANGED <<manifest, ledger, memory, todo, invocations>>
  <2>1. /\ ledger.running = ledger.running \cup {e} /\ ledger.of[e] < C!Limit(e)
        /\ C!HostOf(e) \notin ledger.blocked
        /\ \A f \in Entry \ {e} : C!Holds(f) => C!HostOf(f) # C!HostOf(e)
    BY <1>1, <1>2, <1>5 DEF RowsTaken, HostsClosed
  <2>2. /\ memory' = ledger /\ ledger' = ledger /\ row' = [row EXCEPT ![e] = "spacing"]
        /\ todo' \in [Entry -> {"robots", "list", "first", "second"}]
        /\ UNCHANGED <<manifest, requested, refused, invocations>>
    BY <1>1, <1>2, <1>5 DEF C!TypeOK
  <2> QED BY <1>1, <2>1, <2>2, RowMoves
<1> QED BY <1>3, <1>4, <1>5 DEF C!Ask

\* The requests that left are a finite set, and one more of a row is one more.
LEMMA RequestsCount ==
    ASSUME CatalogInv
    PROVE  /\ IsFiniteSet(C!Requests)
           /\ \A e \in Entry : <<e, requested[e] + 1>> \notin C!Requests
<1>1. \A e \in Entry : requested[e] \in 0..MainRequests
  <2> TAKE e \in Entry
  <2>1. requested[e] = ledger.of[e] /\ ledger.of[e] <= C!Limit(e)
    BY DEF CatalogInv, LedgerFits
  <2>2. requested[e] \in Nat /\ C!Limit(e) \in Nat /\ C!Limit(e) <= MainRequests
    BY CatalogTypes
  <2>3. MainRequests \in Nat
    BY CatalogLimits
  <2> QED BY ONLY <2>1, <2>2, <2>3
<1>2. \A e, f \in Entry : \A n : <<e, n>> \in {f} \X (1..requested[f]) => e = f /\ n <= requested[e]
  BY <1>1
<1>3. C!Requests \subseteq Entry \X (0..MainRequests)
  BY <1>1, CatalogLimits DEF C!Requests
<1>4. IsFiniteSet(Entry \X (0..MainRequests))
  <2>1. IsFiniteSet(0..MainRequests) /\ IsFiniteSet(Entry)
    BY CatalogLimits, FS_Interval
  <2> QED BY <2>1, FS_Product
<1>5. IsFiniteSet(C!Requests)
  BY <1>3, <1>4, FS_Subset
<1>6. ASSUME NEW e \in Entry, <<e, requested[e] + 1>> \in C!Requests
      PROVE  FALSE
  <2>1. PICK f \in Entry : <<e, requested[e] + 1>> \in {f} \X (1..requested[f])
    BY <1>6 DEF C!Requests
  <2> QED BY <1>1, <1>2, <2>1
<1> QED BY <1>5, <1>6

LEMMA SendKeeps ==
    ASSUME CatalogInv, NEW e \in Entry, C!Send(e)
    PROVE  CatalogInv' /\ Settles
<1>1. /\ C!Up /\ row[e] = "spacing" /\ C!Holds(e) /\ memory = ledger
      /\ ledger \in C!Ledger /\ UNCHANGED refused
  BY CatalogTypes DEF C!Send, C!Holds
<1>2. /\ C!TypeOK /\ LedgerFits /\ RowsTaken /\ HostsClosed
  BY DEF CatalogInv
<1>3. CASE C!Exhaust(e) /\ UNCHANGED requested
  BY <1>1, <1>3, ExhaustKeeps
<1>4. CASE ~(C!Exhaust(e) /\ UNCHANGED requested)
  <2>1. PICK m : m = [ledger EXCEPT !.requests = @ + 1, !.of[e] = @ + 1]
    OBVIOUS
  <2>2. /\ ~C!Spent /\ memory' = m /\ ledger' = m
        /\ row' = [row EXCEPT ![e] = "in_flight"]
        /\ requested' = [requested EXCEPT ![e] = @ + 1]
        /\ UNCHANGED <<manifest, todo, invocations>>
    BY <1>1, <1>4, <2>1 DEF C!Send, C!Booked
  <2>3. /\ ledger.requests \in Nat /\ ledger.requests < BatchRequests
        /\ ledger.of[e] \in Nat /\ ledger.of[e] < C!Limit(e) /\ C!Limit(e) \in Nat
        /\ C!Limit(e) <= MainRequests
    BY <1>1, <1>2, <2>2, CatalogTypes, CatalogLimits DEF C!Spent, RowsTaken
  <2>4. /\ m.requests = ledger.requests + 1 /\ m.of = [ledger.of EXCEPT ![e] = @ + 1]
        /\ m.result = ledger.result /\ m.running = ledger.running
        /\ m.stopped = ledger.stopped /\ m.blocked = ledger.blocked
    BY <1>1, <2>1 DEF C!Ledger
  <2>5. m.requests \in 0..BatchRequests /\ m.of \in [Entry -> 0..MainRequests]
    <3>1. ledger.requests + 1 \in 0..BatchRequests /\ ledger.of[e] + 1 \in 0..MainRequests
      BY <2>3, CatalogLimits
    <3>2. ledger.of \in [Entry -> 0..MainRequests]
      BY <1>1 DEF C!Ledger
    <3> QED BY <2>4, <3>1, <3>2
  <2>6. m \in C!Ledger
    BY <1>1, <2>1, <2>4, <2>5 DEF C!Ledger
  <2>7. /\ row'[e] = "in_flight" /\ \A f \in Entry \ {e} : row'[f] = row[f]
        /\ requested'[e] = requested[e] + 1
        /\ \A f \in Entry \ {e} : requested'[f] = requested[f]
        /\ m.of[e] = ledger.of[e] + 1 /\ \A f \in Entry \ {e} : m.of[f] = ledger.of[f]
        /\ \A f \in Entry : C!HostOf(f)' = C!HostOf(f) /\ C!Limit(f)' = C!Limit(f)
        /\ \A f \in Entry : C!Holds(f)' <=> C!Holds(f)
    <3>1. ledger.of \in [Entry -> 0..MainRequests]
      BY <1>1 DEF C!Ledger
    <3> QED BY <1>1, <1>2, <2>2, <2>4, <3>1 DEF C!TypeOK, C!HostOf, C!Limit, C!Holds
  <2>8. C!Up'
    BY <2>2, <2>6, LedgerUp DEF C!Up
  <2>9. C!TypeOK'
    <3>1. row' \in [Entry -> {"none", "waiting", "fetching", "spacing", "in_flight"}]
      BY <1>2, <2>2 DEF C!TypeOK
    <3>2. requested' \in [Entry -> Nat]
      BY <1>2, <2>2, CatalogTypes DEF C!TypeOK
    <3> QED BY <1>1, <1>2, <2>2, <2>6, <3>1, <3>2 DEF C!TypeOK
  <2>10. LedgerFits'
    <3>1. C!Requests' = C!Requests \cup {<<e, requested[e] + 1>>}
      <4>1. \A f \in Entry : requested[f] \in Nat
        BY CatalogTypes
      <4>2. \A x : x \in C!Requests' <=> \E f \in Entry : x \in {f} \X (1..requested'[f])
        BY DEF C!Requests
      <4>3. \A x : x \in C!Requests <=> \E f \in Entry : x \in {f} \X (1..requested[f])
        BY DEF C!Requests
      <4>4. \A f \in Entry \ {e} : {f} \X (1..requested'[f]) = {f} \X (1..requested[f])
        BY <2>7
      <4>5. \A x : x \in {e} \X (1..requested'[e]) <=>
                   x \in {e} \X (1..requested[e]) \/ x = <<e, requested[e] + 1>>
        BY <2>7, <4>1
      <4> QED BY <4>2, <4>3, <4>4, <4>5
    <3>2. Cardinality(C!Requests') = Cardinality(C!Requests) + 1
      BY <3>1, RequestsCount, FS_AddElement
    <3>3. m.requests = Cardinality(C!Requests')
      <4>1. ledger.requests = Cardinality(C!Requests)
        BY <1>2 DEF LedgerFits
      <4> QED BY <2>4, <3>2, <4>1
    <3>4. \A f \in Entry :
              /\ requested'[f] = m.of[f] /\ m.of[f] <= C!Limit(f)'
              /\ m.result[f] = "exhausted" => m.stopped
              /\ f \in m.running => m.result[f] = "none"
      BY <1>2, <2>3, <2>4, <2>7 DEF LedgerFits
    <3> QED BY <2>2, <3>3, <3>4 DEF LedgerFits
  <2>11. RowsTaken'
    <3>1. \A f \in Entry :
              /\ row'[f] # "none" => C!Up' /\ m.result[f] = "none"
              /\ row'[f] = "spacing" => m.of[f] < C!Limit(f)'
              /\ C!Holds(f)' <=> f \in m.running
      BY <1>1, <1>2, <2>4, <2>7, <2>8 DEF RowsTaken
    <3>2. \A f, g \in Entry : C!Holds(f)' /\ C!Holds(g)' /\ f # g => C!HostOf(f)' # C!HostOf(g)'
      BY <1>2, <2>7 DEF RowsTaken
    <3> QED BY <2>2, <3>1, <3>2 DEF RowsTaken
  <2>12. HostsClosed'
    <3>1. refused' \subseteq m.blocked
      BY <1>1, <1>2, <2>4 DEF HostsClosed
    <3>2. \A f \in Entry : C!Holds(f)' => C!HostOf(f)' \notin m.blocked
      BY <1>2, <2>4, <2>7 DEF HostsClosed
    <3> QED BY <2>2, <3>1, <3>2 DEF HostsClosed
  <2>13. Settles
    <3>1. \A f \in Entry \ {e} : ~(requested'[f] > requested[f])
      BY <2>7, CatalogTypes
    <3>2. /\ ledger.result[e] = "none" /\ C!HostOf(e) \notin ledger.blocked
          /\ refused \subseteq ledger.blocked
      BY <1>1, <1>2 DEF RowsTaken, HostsClosed
    <3> QED BY <2>2, <2>4, <3>1, <3>2 DEF Settles
  <2> QED BY <2>9, <2>10, <2>11, <2>12, <2>13 DEF CatalogInv
<1> QED BY <1>3, <1>4

LEMMA AnswerSteps ==
    ASSUME CatalogInv, NEW e \in Entry, C!Respond(e) \/ C!Refuse(e) \/ C!Break(e)
    PROVE  CatalogInv' /\ Settles
<1>1. /\ C!Up /\ C!Holds(e) /\ row[e] # "none" /\ memory = ledger
      /\ ledger \in C!Ledger /\ C!HostOf(e) \in Host /\ UNCHANGED requested
  BY CatalogTypes DEF C!Respond, C!Refuse, C!Break, C!Holds
<1>2. /\ C!TypeOK /\ RowsTaken /\ HostsClosed
  BY DEF CatalogInv
<1>3. CASE C!Refuse(e)
  BY <1>1, <1>3, FailKeeps DEF C!Refuse
<1>4. CASE C!Break(e)
  <2>1. UNCHANGED refused /\ (C!Fail(e) \/ C!Exhaust(e))
    BY <1>4 DEF C!Break
  <2>2. refused \subseteq refused' /\ refused' \subseteq refused \cup {C!HostOf(e)}
    BY <2>1
  <2>3. CASE C!Fail(e)
    BY <1>1, <2>2, <2>3, FailKeeps
  <2>4. CASE C!Exhaust(e)
    BY <1>1, <2>1, <2>4, ExhaustKeeps
  <2> QED BY <2>1, <2>3, <2>4
<1>5. CASE C!Respond(e) /\ C!Finish(memory, e, "tested")
  <2>1. C!Finish(ledger, e, "tested") /\ "tested" \in C!Results \ {"none"} /\ UNCHANGED refused
    BY <1>1, <1>5 DEF C!Respond, C!Results
  <2>2. PICK closed \in SUBSET {C!HostOf(e)} : closed = {}
    OBVIOUS
  <2>3. /\ ledger.blocked = ledger.blocked \cup closed
        /\ refused \subseteq refused' /\ refused' \subseteq refused \cup closed
    BY <2>1, <2>2
  <2> QED BY <1>1, <2>1, <2>2, <2>3, FinishKeeps
<1>6. CASE C!Respond(e) /\ ~C!Finish(memory, e, "tested")
  <2>1. PICK next \in C!After(e) \cup {todo[e]} :
           /\ C!Persist(IF next = todo[e] THEN memory ELSE C!Heard(e))
           /\ row' = [row EXCEPT ![e] = "fetching"] /\ todo' = [todo EXCEPT ![e] = next]
           /\ UNCHANGED <<manifest, invocations>>
    BY <1>6 DEF C!Respond
  <2>2. PICK m : m = IF next = todo[e] THEN memory ELSE C!Heard(e)
    OBVIOUS
  <2>3. /\ m \in C!Ledger /\ m.requests = ledger.requests /\ m.of = ledger.of
        /\ m.result = ledger.result /\ m.running = ledger.running
        /\ m.stopped = ledger.stopped /\ m.blocked = ledger.blocked
    BY <1>1, <2>2 DEF C!Ledger, C!Heard
  <2>4. next \in {"robots", "list", "first", "second"}
    BY <1>2 DEF C!After, C!TypeOK
  <2>5. /\ memory' = m /\ ledger' = m /\ row' = [row EXCEPT ![e] = "fetching"]
        /\ todo' \in [Entry -> {"robots", "list", "first", "second"}]
        /\ UNCHANGED <<manifest, requested, refused, invocations>>
    BY <1>2, <1>6, <2>1, <2>2, <2>4 DEF C!TypeOK, C!Respond, C!Persist
  <2>6. /\ m.running = ledger.running \cup {e}
        /\ C!HostOf(e) \notin ledger.blocked
        /\ \A f \in Entry \ {e} : C!Holds(f) => C!HostOf(f) # C!HostOf(e)
    BY <1>1, <1>2, <2>3 DEF RowsTaken, HostsClosed
  <2> QED BY <1>1, <2>3, <2>5, <2>6, RowMoves
<1> QED BY <1>3, <1>4, <1>5, <1>6

-----------------------------------------------------------------------------
(* The steps of an invocation *)

\* An invocation begins or ends with the rows of the ledger, those that are read
\* being closed with their hosts or left as they are.
LEMMA InvocationKeeps ==
    ASSUME CatalogInv, NEW cut \in SUBSET ledger.running,
           NEW m \in C!Ledger, m.requests = ledger.requests, m.of = ledger.of,
           \A e \in Entry : m.result[e] = IF e \in cut THEN "interrupted" ELSE ledger.result[e],
           m.blocked = ledger.blocked \cup {C!HostOf(e) : e \in cut},
           m.running = ledger.running \ cut, m.stopped = ledger.stopped,
           ledger' = m, memory' \in {C!NoRunner, m}, memory' = m => cut = ledger.running,
           row' \in [Entry -> {"none", "waiting"}],
           \A e \in Entry : row'[e] = "waiting" => memory' = m /\ m.result[e] = "none",
           refused \subseteq refused',
           refused' \subseteq refused \cup {C!HostOf(e) : e \in ledger.running},
           refused' \subseteq Host, invocations' \in 0..MaxInvocations,
           UNCHANGED <<manifest, todo, requested>>
    PROVE  CatalogInv' /\ Settles
<1>1. /\ C!TypeOK /\ LedgerFits /\ RowsTaken /\ HostsClosed
  BY DEF CatalogInv
<1>2. /\ \A e \in Entry : ~C!Holds(e)' /\ row'[e] \in {"none", "waiting"}
      /\ \A f \in Entry : C!HostOf(f)' = C!HostOf(f) /\ C!Limit(f)' = C!Limit(f)
      /\ C!Up' => memory' = m
      /\ memory' = m => C!Up'
  BY LedgerUp DEF C!Holds, C!HostOf, C!Limit, C!Up
<1>3. C!TypeOK'
  <2>1. row' \in [Entry -> {"none", "waiting", "fetching", "spacing", "in_flight"}]
    OBVIOUS
  <2> QED BY <1>1, <2>1 DEF C!TypeOK
<1>4. LedgerFits'
  <2>1. C!Requests' = C!Requests
    BY DEF C!Requests
  <2>2. \A f \in Entry :
            /\ requested'[f] = m.of[f] /\ m.of[f] <= C!Limit(f)'
            /\ m.result[f] = "exhausted" => m.stopped
            /\ f \in m.running => m.result[f] = "none"
    BY <1>1, <1>2 DEF LedgerFits
  <2> QED BY <1>1, <1>2, <2>1, <2>2 DEF LedgerFits
<1>5. RowsTaken'
  <2>1. \A f \in Entry :
            /\ row'[f] # "none" => C!Up' /\ m.result[f] = "none"
            /\ row'[f] # "spacing"
            /\ C!Up' => (C!Holds(f)' <=> f \in m.running)
    BY <1>2
  <2> QED BY <1>2, <2>1 DEF RowsTaken
<1>6. HostsClosed'
  <2>1. \A S : {C!HostOf(e) : e \in S}' = {C!HostOf(e) : e \in S'}
    BY DEF C!HostOf
  <2> QED BY <1>1, <1>2 DEF HostsClosed, C!HostOf
<1>7. Settles
  <2>1. \A f \in Entry : ~(requested'[f] > requested[f])
    BY CatalogTypes
  <2>2. \A f \in Entry : ledger.result[f] # "none" => m.result[f] = ledger.result[f]
    BY <1>1 DEF LedgerFits
  <2> QED BY <2>1, <2>2 DEF Settles
<1> QED BY <1>3, <1>4, <1>5, <1>6, <1>7 DEF CatalogInv

\* What a runner finds that takes up the ledger of one that died.
LEMMA ResumedFacts ==
    ASSUME CatalogInv, NEW m, m = C!Resumed(ledger)
    PROVE  /\ m \in C!Ledger /\ m.requests = ledger.requests /\ m.of = ledger.of
           /\ \A e \in Entry : m.result[e] = IF e \in ledger.running THEN "interrupted"
                                             ELSE ledger.result[e]
           /\ m.blocked = ledger.blocked \cup {C!HostOf(e) : e \in ledger.running}
           /\ m.running = ledger.running \ ledger.running /\ m.stopped = ledger.stopped
<1>1. /\ ledger \in C!Ledger /\ ledger.running \subseteq Entry
      /\ \A e \in Entry : C!HostOf(e) \in Host /\ ledger.result[e] \in C!Results
  BY CatalogTypes
<1>2. {C!HostOf(e) : e \in ledger.running} \subseteq Host
  BY <1>1
<1>3. [e \in Entry |-> IF e \in ledger.running THEN "interrupted" ELSE ledger.result[e]]
         \in [Entry -> C!Results]
  BY <1>1 DEF C!Results
<1>4. PICK hosts : hosts = {C!HostOf(e) : e \in ledger.running}
  OBVIOUS
<1>5. PICK results : results = [e \in Entry |-> IF e \in ledger.running THEN "interrupted"
                                                ELSE ledger.result[e]]
  OBVIOUS
<1>6. m = [ledger EXCEPT !.result = results, !.blocked = @ \cup hosts, !.running = {}]
  BY <1>4, <1>5 DEF C!Resumed
<1>7. /\ m \in C!Ledger /\ m.requests = ledger.requests /\ m.of = ledger.of
      /\ m.result = results /\ m.blocked = ledger.blocked \cup hosts
      /\ m.running = {} /\ m.stopped = ledger.stopped
  BY <1>1, <1>2, <1>3, <1>4, <1>5, <1>6 DEF C!Ledger
<1> QED BY <1>4, <1>5, <1>7

LEMMA StartKeeps ==
    ASSUME CatalogInv, NEW chosen \in SUBSET Entry, C!Start(chosen)
    PROVE  CatalogInv' /\ Settles
<1>1. PICK m : m = C!Resumed(ledger)
  OBVIOUS
<1>2. /\ memory' = m /\ ledger' = m
      /\ row' = [e \in Entry |-> IF e \in chosen /\ m.result[e] = "none"
                                 THEN "waiting" ELSE "none"]
      /\ invocations' = invocations + 1 /\ invocations < MaxInvocations
      /\ UNCHANGED <<manifest, todo, requested, refused>>
  BY <1>1 DEF C!Start
<1>3. invocations' \in 0..MaxInvocations
  BY <1>2, CatalogLimits DEF CatalogInv, C!TypeOK
<1>4. /\ row' \in [Entry -> {"none", "waiting"}]
      /\ \A e \in Entry : row'[e] = "waiting" => m.result[e] = "none"
  BY <1>2
<1>5. refused \subseteq Host
  BY CatalogTypes
<1>6. PICK cut \in SUBSET ledger.running : cut = ledger.running
  OBVIOUS
<1>7. /\ m \in C!Ledger /\ m.requests = ledger.requests /\ m.of = ledger.of
      /\ \A e \in Entry : m.result[e] = IF e \in cut THEN "interrupted" ELSE ledger.result[e]
      /\ m.blocked = ledger.blocked \cup {C!HostOf(e) : e \in cut}
      /\ m.running = ledger.running \ cut /\ m.stopped = ledger.stopped
  BY <1>1, <1>6, ResumedFacts
<1>8. /\ memory' \in {C!NoRunner, m} /\ refused \subseteq refused'
      /\ refused' \subseteq refused \cup {C!HostOf(e) : e \in ledger.running}
      /\ refused' \subseteq Host
  BY <1>2, <1>5
<1> QED BY <1>2, <1>3, <1>4, <1>6, <1>7, <1>8, InvocationKeeps

\* An invocation that ends, by itself or with its process, leaves the ledger as it is.
LEMMA LeavesKeep ==
    ASSUME CatalogInv, C!End \/ C!Crash
    PROVE  CatalogInv' /\ Settles
<1>1. /\ memory' = C!NoRunner /\ ledger' = ledger /\ C!Up /\ ledger \in C!Ledger
      /\ UNCHANGED <<manifest, todo, requested, invocations>>
  BY CatalogTypes DEF C!End, C!Crash
<1>2. /\ C!TypeOK /\ RowsTaken
  BY DEF CatalogInv
<1>3. row' \in [Entry -> {"none", "waiting"}] /\ \A e \in Entry : row'[e] # "waiting"
  <2>1. CASE C!End
    BY <1>2, <2>1 DEF C!End, C!TypeOK
  <2>2. CASE C!Crash
    BY <2>2 DEF C!Crash, C!AllGone
  <2> QED BY <2>1, <2>2
<1>4. /\ refused \subseteq refused'
      /\ refused' \subseteq refused \cup {C!HostOf(e) : e \in ledger.running}
  <2>1. CASE C!End
    BY <2>1 DEF C!End
  <2>2. CASE C!Crash
    <3>1. PICK unread \in SUBSET {e \in Entry : row[e] = "in_flight"} :
             refused' = refused \cup {C!HostOf(e) : e \in unread}
      BY <2>2 DEF C!Crash
    <3>2. unread \subseteq ledger.running
      BY <1>1, <1>2 DEF RowsTaken, C!Holds
    <3> QED BY <3>1, <3>2
  <2> QED BY <2>1, <2>2
<1>5. refused' \subseteq Host
  BY <1>4, CatalogTypes
<1>6. PICK cut \in SUBSET ledger.running : cut = {}
  OBVIOUS
<1>7. PICK m : m = ledger
  OBVIOUS
<1>8. /\ \A e \in Entry : m.result[e] = IF e \in cut THEN "interrupted" ELSE ledger.result[e]
      /\ m.blocked = ledger.blocked \cup {C!HostOf(e) : e \in cut}
      /\ m.running = ledger.running \ cut
      /\ m \in C!Ledger /\ m.requests = ledger.requests /\ m.of = ledger.of
      /\ m.stopped = ledger.stopped /\ ledger' = m
  BY <1>1, <1>6, <1>7
<1>9. /\ memory' \in {C!NoRunner, m} /\ memory' # m
      /\ invocations' \in 0..MaxInvocations
  BY <1>1, <1>2, <1>7, LedgerUp DEF C!TypeOK
<1> QED BY <1>1, <1>3, <1>4, <1>5, <1>8, <1>9, InvocationKeeps

LEMMA CancelKeeps ==
    ASSUME CatalogInv, C!Cancel
    PROVE  CatalogInv' /\ Settles
<1>1. /\ memory = ledger /\ ledger \in C!Ledger /\ C!Up
  BY CatalogTypes DEF C!Cancel
<1>2. C!Interrupted = ledger.running
  <2>1. ledger.running \subseteq Entry
    BY CatalogTypes
  <2> QED BY <1>1, <2>1 DEF CatalogInv, RowsTaken, C!Interrupted
<1>3. PICK m : m = C!Resumed(ledger)
  OBVIOUS
<1>4. PICK cut \in SUBSET ledger.running : cut = ledger.running
  OBVIOUS
<1>5. /\ m \in C!Ledger /\ m.requests = ledger.requests /\ m.of = ledger.of
      /\ \A e \in Entry : m.result[e] = IF e \in cut THEN "interrupted" ELSE ledger.result[e]
      /\ m.blocked = ledger.blocked \cup {C!HostOf(e) : e \in cut}
      /\ m.running = ledger.running \ cut /\ m.stopped = ledger.stopped
  BY <1>3, <1>4, ResumedFacts
<1>6. ledger' = m
  <2>1. PICK running : running = ledger.running
    OBVIOUS
  <2>2. /\ m = [ledger EXCEPT
                  !.result  = [e \in Entry |-> IF e \in running THEN "interrupted" ELSE @[e]],
                  !.blocked = @ \cup {C!HostOf(e) : e \in running},
                  !.running = {}]
    BY <1>3, <2>1 DEF C!Resumed
  <2>3. ledger' = [ledger EXCEPT
                  !.result  = [e \in Entry |-> IF e \in running THEN "interrupted" ELSE @[e]],
                  !.blocked = @ \cup {C!HostOf(e) : e \in running},
                  !.running = @ \ running]
    BY <1>1, <1>2, <2>1 DEF C!Cancel
  <2>4. ledger.running \ running = {}
    BY <2>1
  <2> QED BY <1>1, <2>2, <2>3, <2>4 DEF C!Ledger
<1>7. /\ memory' = C!NoRunner /\ row' = [e \in Entry |-> "none"]
      /\ UNCHANGED <<manifest, todo, requested, refused, invocations>>
  BY DEF C!Cancel, C!AllGone
<1>8. /\ memory' \in {C!NoRunner, m} /\ refused \subseteq refused'
      /\ refused' \subseteq refused \cup {C!HostOf(e) : e \in ledger.running}
      /\ refused' \subseteq Host /\ invocations' \in 0..MaxInvocations
      /\ row' \in [Entry -> {"none", "waiting"}] /\ \A e \in Entry : row'[e] # "waiting"
  BY <1>7, CatalogTypes DEF CatalogInv, C!TypeOK
<1> QED BY <1>4, <1>5, <1>6, <1>7, <1>8, InvocationKeeps

LEMMA CatalogKeeps ==
    ASSUME CatalogInv, [C!Next]_catalogVars
    PROVE  CatalogInv' /\ [Settles]_catalogVars
<1>1. CASE UNCHANGED catalogVars
  BY <1>1 DEF catalogVars, CatalogInv, C!TypeOK, LedgerFits, RowsTaken, HostsClosed, C!Up,
     C!Requests, C!Limit, C!Holds, C!HostOf
<1>2. CASE C!Next
  BY <1>2, StartKeeps, EnterSteps, AskKeeps, SendKeeps, AnswerSteps, LeavesKeep, CancelKeeps
     DEF C!Next
<1> QED BY <1>1, <1>2

LEMMA InitCatalog == C!Init => CatalogInv
<1> SUFFICES ASSUME C!Init PROVE CatalogInv
  OBVIOUS
<1>1. /\ ledger.requests = 0 /\ ledger.of = [e \in Entry |-> 0] /\ ledger.running = {}
      /\ ledger.result = [e \in Entry |-> "none"] /\ ledger.blocked = {}
      /\ ledger \in C!Ledger
  BY CatalogLimits DEF C!Init, C!Ledger, C!Results
<1>2. C!TypeOK
  BY <1>1, CatalogLimits DEF C!Init, C!TypeOK
<1>3. /\ ~C!Up /\ refused = {} /\ \A e \in Entry : /\ ~C!Holds(e) /\ row[e] = "none"
                                   /\ requested[e] = 0 /\ C!Limit(e) \in Nat
  BY CatalogLimits DEF C!Init, C!Up, C!Holds, C!Limit
<1>4. C!Requests = {}
  BY <1>3 DEF C!Requests
<1>5. LedgerFits
  BY <1>1, <1>3, <1>4, FS_EmptySet DEF LedgerFits
<1>6. RowsTaken /\ HostsClosed
  BY <1>3 DEF RowsTaken, HostsClosed
<1> QED BY <1>2, <1>5, <1>6 DEF CatalogInv

LEMMA CatalogBudgets == CatalogInv => C!BudgetsHold
<1> SUFFICES ASSUME CatalogInv PROVE C!BudgetsHold
  OBVIOUS
<1>1. LedgerFits /\ RowsTaken
  BY DEF CatalogInv
<1>2. C!Cardinality(C!Requests) <= BatchRequests
  BY <1>1, CatalogLimits, CatalogTypes DEF LedgerFits
<1>3. \A e \in Entry : requested[e] <= C!Limit(e)
  BY <1>1 DEF LedgerFits
<1> QED BY <1>1, <1>2, <1>3 DEF C!BudgetsHold, C!Complete, LedgerFits, RowsTaken

-----------------------------------------------------------------------------
(* BoundedRecovery: what BoundedRecoveryProofs shows of it holds where it is one of *)
(* the parts.                                                                     *)

RP == INSTANCE BoundedRecoveryProofs
        WITH Collector <- Source, MaxTime <- Horizon, now <- clock, runs <- sourceRuns

LEMMA SameRecovery ==
    /\ R!Init => RP!Init
    /\ R!Next => RP!Next
    /\ RP!TypeOK => R!TypeOK
    /\ RP!BudgetHonoured => R!BudgetHonoured
    /\ RP!HostReserved => R!HostReserved
<1>1. R!Init => RP!Init
  BY DEF R!Init, RP!Init, R!MaxRuns, RP!MaxRuns, R!RunId, RP!RunId
<1>2. R!Next => RP!Next
  BY DEF R!AbortRun, RP!AbortRun, R!Active, RP!Active, R!CanCreateRun, RP!CanCreateRun,
     R!CancelOf, RP!CancelOf, R!Cancelled, RP!Cancelled, R!Cardinality, RP!Cardinality,
     R!ChangeContext, RP!ChangeContext, R!ClaimLimit, RP!ClaimLimit, R!ClaimRun,
     RP!ClaimRun, R!Continued, RP!Continued, R!Cool, RP!Cool, R!CreateRun, RP!CreateRun,
     R!Drifted, RP!Drifted, R!EndOfCooling, RP!EndOfCooling, R!EndRun, RP!EndRun, R!Ends,
     RP!Ends, R!Judged, RP!Judged, R!Live, RP!Live, R!LiveRuns, RP!LiveRuns, R!LoseWorker,
     RP!LoseWorker, R!Max, RP!Max, R!Min, RP!Min, R!Moved, RP!Moved, R!NewBatch,
     RP!NewBatch, R!NewRun, RP!NewRun, R!Next, RP!Next, R!RequestStop, RP!RequestStop,
     R!Reserved, RP!Reserved, R!RetireKey, RP!RetireKey, R!Spent, RP!Spent, R!StartBatch,
     RP!StartBatch, R!Stopped, RP!Stopped, R!SwitchSchedule, RP!SwitchSchedule, R!Tick,
     RP!Tick, R!TickCooling, RP!TickCooling, R!TickRunning, RP!TickRunning, R!Tock,
     RP!Tock, R!Valid, RP!Valid, R!ValidProgress, RP!ValidProgress, R!Work, RP!Work
<1>3. RP!TypeOK => R!TypeOK
  BY DEF R!Batch, RP!Batch, R!Context, RP!Context, R!MaxRuns, RP!MaxRuns, R!Progress,
     RP!Progress, R!Reason, RP!Reason, R!Row, RP!Row, R!Run, RP!Run, R!RunId, RP!RunId,
     R!TypeOK, RP!TypeOK
<1>4. RP!BudgetHonoured => R!BudgetHonoured
  BY DEF R!BudgetHonoured, RP!BudgetHonoured
<1>5. RP!HostReserved => R!HostReserved
  BY DEF R!Active, RP!Active, R!HostReserved, RP!HostReserved, R!Live, RP!Live,
     R!LiveRuns, RP!LiveRuns
<1> QED BY <1>1, <1>2, <1>3, <1>4, <1>5

LEMMA RecoveryLimits == RP!RecoveryAssumption
BY MCDispatchAssumption DEF R!RecoveryAssumption, RP!RecoveryAssumption

\* A behaviour of the parts is one of BoundedRecovery.
LEMMA RecoveryRuns == MCSpec => RP!Spec
<1>1. MCInit => RP!Init
  BY SameRecovery DEF MCInit
<1>2. [MCNext]_MCVars => [RP!Next]_(RP!vars)
  BY SameRecovery DEF MCNext, MCVars, recoveryVars, RP!vars, SchedulesNext, RecoveryNext,
     CatalogNext, CommandsNext
<1> QED BY <1>1, <1>2, PTL DEF MCSpec, RP!Spec

-----------------------------------------------------------------------------
(* Commands *)

Urls == {cmd.urls[n] : cmd \in Command, n \in Nat \ {0}}

Handling == [cmd : Command, collection : I!Collection, results : Seq(Nat),
             pc : {"check", "create", "sink", "remember"}]
Remembered == [cmd : Command, result : Seq(Nat)]

\* The types of the rows in full.
CommandTypes ==
    /\ collections \in [I!Collection ->
          [status : {"absent", "active", "archived", "deleted"}, revision : Nat,
           draft : BOOLEAN, versions : Nat, history : BOOLEAN, by : Command \cup {Idle}]]
    /\ sources \in Seq([url : Urls, collection : I!Collection, by : Command,
                        live : BOOLEAN])
    /\ sinks \in Seq(Command)
    /\ receipts \subseteq Remembered /\ answers \subseteq Remembered
    /\ crashes \in 0..MaxCrashes

\* A collection that was never made is empty, any other has a command that made it.
MadeBy == \A c \in I!Collection :
    /\ collections[c].status = "absent" =>
          collections[c] = I!NoCollection /\ I!Told(c) = {}
    /\ collections[c].status # "absent" => collections[c].by \in Command

\* Each result of a command that creates is a refusal, or the source that it made for
\* that url.
Made(cmd, results) == cmd.kind # "sink" => \A n \in DOMAIN results :
    \/ results[n] = I!Refused
    \/ /\ results[n] \in DOMAIN sources
       /\ sources[results[n]].by = cmd /\ sources[results[n]].url = cmd.urls[n]

\* A process serves a command that creates; the collection it holds for a new
\* requirement was made by no command on collections.
Sound(h) ==
    /\ h \in Handling /\ ~I!InTransaction(h.cmd) /\ Made(h.cmd, h.results)
    /\ h.pc = "sink" => h.cmd.kind = "sink"
    /\ h.cmd.kind = "sink" => h.pc \in {"sink", "remember"}
    /\ h.cmd.target = 0 /\ h.cmd.kind # "sink" =>
          \/ collections[h.collection].by = Idle
          \/ ~I!InTransaction(collections[h.collection].by)

Serving == /\ DOMAIN handler = Process
           /\ \A p \in Process : \A h : h = handler[p] /\ h # Idle => Sound(h)

\* What was remembered of a command on a collection is what was answered.
Remembering ==
    /\ \A r \in receipts : I!InTransaction(r.cmd) => r.result = <<>> /\ r \in answers
    /\ \A a \in answers : I!InTransaction(a.cmd) => a.result = <<>> /\ a \in receipts

ResultsMade ==
    /\ \A a \in answers : Made(a.cmd, a.result)
    /\ \A r \in receipts : Made(r.cmd, r.result)

\* A command that makes a collection made the one it was answered for.
MadeOnce == \A cmd \in Command : cmd.kind = "create" =>
    /\ \A c, d \in I!Collection : collections[c].by = cmd /\ collections[d].by = cmd => c = d
    /\ (\E c \in I!Collection : collections[c].by = cmd) <=> (\E a \in answers : a.cmd = cmd)

\* A revision counts the changes that clients were told of.
Counted == \A c \in I!Collection :
    /\ IsFiniteSet(I!Told(c))
    /\ I!Present(c) /\ I!InTransaction(collections[c].by) =>
          collections[c].revision = 1 + Cardinality(I!Told(c))

\* A url has one source that is not deleted.
OneSource == \A s, t \in DOMAIN sources :
    sources[s].url = sources[t].url /\ sources[s].live /\ sources[t].live => s = t

CommandsInv ==
    /\ CommandTypes /\ MadeBy /\ Serving /\ Remembering /\ ResultsMade /\ MadeOnce
    /\ Counted /\ OneSource /\ I!NothingDangling

-----------------------------------------------------------------------------
(* What the lemmas about Commands have in common *)

LEMMA CommandLimits ==
    /\ Idle \notin Command /\ MaxCollections \in Nat /\ MaxCrashes \in Nat
    /\ \A S : I!Cardinality(S) = Cardinality(S)
<1>1. \A S : I!Cardinality(S) = Cardinality(S)
  BY DEF I!Cardinality, Cardinality
<1> QED BY <1>1, MCDispatchAssumption DEF I!CommandsAssumption

\* The id that is taken next is one no collection and no process has.
LEMMA FreshIsUnused ==
    ASSUME NEW c, I!Fresh(c)
    PROVE  /\ c \in I!Collection /\ collections[c].status = "absent"
           /\ \A p \in Process : handler[p] # Idle => handler[p].collection # c
<1>1. I!Unused # {} /\ c = I!Min(I!Unused) /\ I!Unused \subseteq Nat
  BY CommandLimits DEF I!Fresh, I!Unused, I!Collection
<1>2. \E x \in I!Unused : \A y \in I!Unused : ~(<<y, x>> \in OpToRel(<, Nat))
  BY <1>1, NatLessThanWellFounded, WFMin
<1>3. PICK x \in I!Unused : \A y \in I!Unused : ~(<<y, x>> \in OpToRel(<, Nat))
  BY <1>2
<1>4. \A y \in I!Unused : ~(y < x)
  BY <1>1, <1>3 DEF OpToRel
<1>5. \A y \in I!Unused : x <= y
  BY <1>1, <1>4
<1>6. c \in I!Unused
  BY <1>1, <1>5 DEF I!Min
<1> QED BY <1>6 DEF I!Unused

LEMMA RowTypes ==
    ASSUME CommandsInv
    PROVE  /\ CommandTypes
           /\ \A c \in I!Collection :
                 /\ collections[c].status \in {"absent", "active", "archived", "deleted"}
                 /\ collections[c].revision \in Nat /\ collections[c].versions \in Nat
                 /\ collections[c].by \in Command \cup {Idle}
           /\ Len(sources) \in Nat /\ DOMAIN sources = 1..Len(sources)
           /\ \A s \in DOMAIN sources :
                 /\ sources[s].url \in Urls /\ sources[s].collection \in I!Collection
                 /\ sources[s].by \in Command /\ sources[s].live \in BOOLEAN
           /\ \A p \in Process : handler[p] # Idle =>
                 /\ handler[p] \in Handling /\ handler[p].cmd \in Command
                 /\ handler[p].collection \in I!Collection
                 /\ handler[p].results \in Seq(Nat)
<1>1. CommandTypes /\ Serving
  BY DEF CommandsInv
<1>2. \A c \in I!Collection :
          /\ collections[c].status \in {"absent", "active", "archived", "deleted"}
          /\ collections[c].revision \in Nat /\ collections[c].versions \in Nat
          /\ collections[c].by \in Command \cup {Idle}
  BY <1>1 DEF CommandTypes
<1>3. /\ Len(sources) \in Nat /\ DOMAIN sources = 1..Len(sources)
      /\ \A s \in DOMAIN sources :
            /\ sources[s].url \in Urls /\ sources[s].collection \in I!Collection
            /\ sources[s].by \in Command /\ sources[s].live \in BOOLEAN
  <2> DEFINE T == [url : Urls, collection : I!Collection, by : Command, live : BOOLEAN]
  <2>1. sources \in Seq(T)
    BY <1>1 DEF CommandTypes
  <2>2. \A t \in T : /\ t.url \in Urls /\ t.collection \in I!Collection
                    /\ t.by \in Command /\ t.live \in BOOLEAN
    OBVIOUS
  <2> HIDE DEF T
  <2>3. /\ Len(sources) \in Nat /\ DOMAIN sources = 1..Len(sources)
        /\ \A s \in DOMAIN sources : sources[s] \in T
    BY <2>1
  <2> QED BY <2>2, <2>3
<1>4. \A p \in Process : handler[p] # Idle => handler[p] \in Handling
  BY <1>1 DEF Serving, Sound
<1>5. \A p \in Process : handler[p] # Idle =>
          /\ handler[p].cmd \in Command /\ handler[p].collection \in I!Collection
          /\ handler[p].results \in Seq(Nat)
  BY <1>4 DEF Handling
<1> QED BY <1>1, <1>2, <1>3, <1>4, <1>5

\* Sources are added and deleted, what they were made for stays.
SourcesKept == \A s \in DOMAIN sources :
    /\ s \in DOMAIN sources'
    /\ sources'[s].by = sources[s].by /\ sources'[s].url = sources[s].url

\* A collection that a process holds is not given to a command on collections.
HeldKept == \A p \in Process : handler[p] # Idle =>
    LET c == handler[p].collection
    IN  collections'[c].by = collections[c].by \/ ~I!InTransaction(collections'[c].by)

LEMMA MadeStays ==
    ASSUME SourcesKept, NEW cmd, NEW results, Made(cmd, results)
    PROVE  Made(cmd, results)'
BY DEF SourcesKept, Made

\* What a process does next leaves what the others do as it was.
LEMMA SoundStays ==
    ASSUME CommandsInv, SourcesKept, HeldKept, NEW q \in Process, NEW g, g = handler[q],
           g # Idle
    PROVE  Sound(g)'
<1>1. Sound(g)
  BY DEF CommandsInv, Serving
<1>2. Made(g.cmd, g.results)'
  BY <1>1, MadeStays DEF Sound
<1>3. \/ collections'[g.collection].by = collections[g.collection].by
      \/ ~I!InTransaction(collections'[g.collection].by)
  BY DEF HeldKept
<1> QED BY <1>1, <1>2, <1>3 DEF Sound, I!InTransaction

LEMMA ServingStays ==
    ASSUME CommandsInv, SourcesKept, HeldKept, NEW p \in Process, NEW h,
           handler' = [handler EXCEPT ![p] = h], h # Idle => Sound(h)'
    PROVE  Serving'
<1>1. /\ DOMAIN handler' = Process /\ handler'[p] = h
      /\ \A q \in Process \ {p} : handler'[q] = handler[q]
  BY DEF CommandsInv, Serving
<1>2. ASSUME NEW q \in Process, NEW g, g = handler'[q], g # Idle
      PROVE  Sound(g)'
  BY <1>1, <1>2, SoundStays
<1> QED BY <1>1, <1>2 DEF Serving

LEMMA NobodyMoves ==
    ASSUME CommandsInv, SourcesKept, HeldKept, handler' = handler
    PROVE  Serving'
<1>1. DOMAIN handler' = Process
  BY DEF CommandsInv, Serving
<1>2. ASSUME NEW q \in Process, NEW g, g = handler'[q], g # Idle
      PROVE  Sound(g)'
  BY <1>2, SoundStays
<1> QED BY <1>1, <1>2 DEF Serving

-----------------------------------------------------------------------------
(* Steps of a process that leave the rows alone *)

LEMMA ProcessMoves ==
    ASSUME CommandsInv, UNCHANGED <<collections, sources, receipts, answers>>,
           sinks' \in Seq(Command), crashes' \in 0..MaxCrashes, NEW p \in Process, NEW h,
           handler' = [handler EXCEPT ![p] = h], h # Idle => Sound(h)
    PROVE  CommandsInv'
<1>1. SourcesKept /\ HeldKept
  BY DEF SourcesKept, HeldKept
<1>2. h # Idle => Sound(h)'
  BY DEF Sound, Made, I!InTransaction
<1>3. Serving'
  BY <1>1, <1>2, ServingStays
<1>4. CommandTypes' /\ MadeBy' /\ Remembering'
  BY DEF CommandsInv, CommandTypes, MadeBy, Remembering, I!Told, I!InTransaction
<1>5. ResultsMade' /\ MadeOnce' /\ Counted' /\ OneSource' /\ I!NothingDangling'
  BY DEF CommandsInv, ResultsMade, Made, MadeOnce, Counted, OneSource, I!NothingDangling,
     I!Told, I!InTransaction, I!Present
<1> QED BY <1>3, <1>4, <1>5 DEF CommandsInv

\* What follows a url: the next one, the receipt or the end.
LEMMA AfterCases ==
    ASSUME CommandsInv, NEW p \in Process, NEW g \in Handling, g = handler[p], NEW result \in Nat
    PROVE  \E h : /\ I!After(p, result) = [handler EXCEPT ![p] = h]
                  /\ \/ h = Idle
                     \/ /\ h \in Handling /\ h.cmd = g.cmd /\ h.collection = g.collection
                        /\ h.results = Append(g.results, result) /\ h.pc # "sink"
<1> DEFINE results == Append(g.results, result)
           next(pc) == [g EXCEPT !.results = results, !.pc = pc]
<1>1. results \in Seq(Nat)
  BY DEF Handling
<1>2. \A pc \in {"check", "remember"} :
          /\ next(pc) \in Handling /\ next(pc).cmd = g.cmd
          /\ next(pc).collection = g.collection
          /\ next(pc).results = results /\ next(pc).pc = pc
  BY <1>1 DEF Handling
<1>3. DOMAIN handler = Process
  BY DEF CommandsInv, Serving
<1>4. \A pc : [handler EXCEPT ![p].results = results, ![p].pc = pc] =
              [handler EXCEPT ![p] = next(pc)]
  BY <1>3
<1>5. \/ I!After(p, result) = [handler EXCEPT ![p] = next("check")]
      \/ I!After(p, result) = [handler EXCEPT ![p] = next("remember")]
      \/ I!After(p, result) = [handler EXCEPT ![p] = Idle]
  BY <1>4 DEF I!After
<1> HIDE DEF next
<1> QED BY <1>2, <1>5

LEMMA Appended ==
    ASSUME NEW results \in Seq(Nat), NEW r \in Nat
    PROVE  \A n \in DOMAIN Append(results, r) :
              \/ n \in DOMAIN results /\ Append(results, r)[n] = results[n]
              \/ n = Len(results) + 1 /\ Append(results, r)[n] = r
<1> PICK m \in Nat : m = Len(results)
  OBVIOUS
<1>1. /\ DOMAIN Append(results, r) = 1..(m + 1)
      /\ Append(results, r)[m + 1] = r
      /\ \A n \in 1..m : n \in DOMAIN results /\ Append(results, r)[n] = results[n]
  OBVIOUS
<1>2. \A n \in 1..(m + 1) : n \in 1..m \/ n = m + 1
  OBVIOUS
<1> QED BY <1>1, <1>2

LEMMA BeginKeeps ==
    ASSUME CommandsInv, NEW p \in Process, NEW cmd \in Command, I!Begin(p, cmd)
    PROVE  CommandsInv'
<1>1. PICK c \in I!Collection :
         /\ IF cmd.kind = "sink" THEN c = 1
            ELSE IF cmd.target # 0 THEN c = cmd.target ELSE I!Fresh(c)
         /\ handler' = [handler EXCEPT ![p] =
               [cmd |-> cmd, collection |-> c, results |-> <<>>,
                pc  |-> IF cmd.kind = "sink" THEN "sink" ELSE "check"]]
  BY DEF I!Begin
<1>2. PICK h : h = [cmd |-> cmd, collection |-> c, results |-> <<>>,
                    pc  |-> IF cmd.kind = "sink" THEN "sink" ELSE "check"]
  OBVIOUS
<1>3. h \in Handling /\ h.cmd = cmd /\ h.collection = c /\ h.results = <<>>
      /\ (h.pc = "sink" <=> cmd.kind = "sink")
  BY <1>2 DEF Handling
<1>4. ~I!InTransaction(cmd) /\ UNCHANGED <<collections, sources, sinks, receipts, answers, crashes>>
  BY DEF I!Begin
<1>5. cmd.target = 0 /\ cmd.kind # "sink" => collections[c].by = Idle
  <2>1. I!Fresh(c) => collections[c].by = Idle
    <3> HAVE I!Fresh(c)
    <3>1. collections[c] = I!NoCollection
      BY FreshIsUnused DEF CommandsInv, MadeBy
    <3> QED BY <3>1 DEF I!NoCollection
  <2> QED BY <1>1, <2>1
<1>6. Sound(h)
  BY <1>3, <1>4, <1>5 DEF Sound, Made
<1>7. /\ handler' = [handler EXCEPT ![p] = h] /\ crashes' \in 0..MaxCrashes
      /\ sinks' \in Seq(Command)
  BY <1>1, <1>2, <1>4 DEF CommandsInv, CommandTypes
<1> QED BY <1>4, <1>6, <1>7, ProcessMoves

\* A url that is taken is refused.
LEMMA RefusedKeeps ==
    ASSUME CommandsInv, NEW p \in Process, handler[p] # Idle,
           handler[p].pc \in {"check", "create"}, handler' = I!After(p, I!Refused),
           UNCHANGED <<collections, sources, sinks, receipts, answers, crashes>>
    PROVE  CommandsInv'
<1>1. PICK g : g = handler[p] /\ Sound(g)
  BY DEF CommandsInv, Serving
<1>2. g \in Handling /\ I!Refused \in Nat
  BY <1>1 DEF Sound, I!Refused
<1>3. PICK h : /\ I!After(p, I!Refused) = [handler EXCEPT ![p] = h]
               /\ \/ h = Idle
                  \/ /\ h \in Handling /\ h.cmd = g.cmd /\ h.collection = g.collection
                     /\ h.results = Append(g.results, I!Refused) /\ h.pc # "sink"
  BY <1>1, <1>2, AfterCases
<1>4. Made(g.cmd, Append(g.results, I!Refused))
  BY <1>1, <1>2, Appended DEF Sound, Made, Handling
<1>5. h # Idle => Sound(h)
  BY <1>1, <1>3, <1>4 DEF Sound
<1>6. crashes' \in 0..MaxCrashes /\ sinks' \in Seq(Command)
  BY DEF CommandsInv, CommandTypes
<1> QED BY <1>3, <1>5, <1>6, ProcessMoves

LEMMA CheckKeeps ==
    ASSUME CommandsInv, NEW p \in Process, I!Check(p)
    PROVE  CommandsInv'
<1>1. /\ handler[p] # Idle /\ handler[p].pc = "check"
      /\ UNCHANGED <<collections, sources, sinks, receipts, answers, crashes>>
  BY DEF I!Check, I!Serves
<1>2. CASE handler' = I!After(p, I!Refused)
  BY <1>1, <1>2, RefusedKeeps
<1>3. CASE handler' = [handler EXCEPT ![p].pc = "create"]
  <2>1. PICK g : g = handler[p] /\ Sound(g)
    BY <1>1 DEF CommandsInv, Serving
  <2>2. PICK h : h = [g EXCEPT !.pc = "create"]
    OBVIOUS
  <2>3. /\ h \in Handling /\ h.cmd = g.cmd /\ h.collection = g.collection
        /\ h.results = g.results /\ h.pc = "create"
    BY <2>1, <2>2 DEF Sound, Handling
  <2>4. Sound(h)
    BY <1>1, <2>1, <2>3 DEF Sound
  <2>5. /\ handler' = [handler EXCEPT ![p] = h] /\ crashes' \in 0..MaxCrashes
        /\ sinks' \in Seq(Command)
    BY <1>1, <1>3, <2>1, <2>2 DEF CommandsInv, CommandTypes
  <2> QED BY <1>1, <2>4, <2>5, ProcessMoves
<1> QED BY <1>2, <1>3 DEF I!Check

LEMMA CrashKeeps ==
    ASSUME CommandsInv, NEW p \in Process, I!Crash(p)
    PROVE  CommandsInv'
<1>1. PICK h : h = Idle
  OBVIOUS
<1>2. /\ handler' = [handler EXCEPT ![p] = h]
      /\ UNCHANGED <<collections, sources, sinks, receipts, answers>>
      /\ crashes' = crashes + 1 /\ crashes < MaxCrashes /\ crashes \in 0..MaxCrashes
  BY <1>1 DEF I!Crash, CommandsInv, CommandTypes
<1>3. crashes' \in 0..MaxCrashes
  BY <1>2, CommandLimits
<1>4. sinks' \in Seq(Command)
  BY <1>2 DEF CommandsInv, CommandTypes
<1> QED BY <1>1, <1>2, <1>3, <1>4, ProcessMoves

-----------------------------------------------------------------------------
(* Steps of a process that make rows, a receipt or an answer *)

LEMMA CreateSinkKeeps ==
    ASSUME CommandsInv, NEW p \in Process, I!CreateSink(p)
    PROVE  CommandsInv'
<1>1. PICK g : g = handler[p] /\ Sound(g) /\ g.pc = "sink"
  BY DEF CommandsInv, Serving, I!CreateSink, I!Serves
<1>2. g \in Handling /\ g.cmd \in Command
  BY <1>1 DEF Sound, Handling
<1>3. sinks' = Append(sinks, g.cmd) /\ sinks \in Seq(Command)
  BY <1>1 DEF I!CreateSink, CommandsInv, CommandTypes
<1>4. sinks' \in Seq(Command) /\ <<Len(sinks')>> \in Seq(Nat)
  BY <1>2, <1>3
<1>5. PICK h : h = [g EXCEPT !.results = <<Len(sinks')>>, !.pc = "remember"]
  OBVIOUS
<1>6. h \in Handling /\ h.cmd = g.cmd /\ h.collection = g.collection /\ h.pc = "remember"
  BY <1>2, <1>4, <1>5 DEF Handling
<1>7. Sound(h)
  BY <1>1, <1>6 DEF Sound, Made
<1>8. /\ handler' = [handler EXCEPT ![p] = h] /\ crashes' \in 0..MaxCrashes
      /\ UNCHANGED <<collections, sources, receipts, answers>>
  BY <1>1, <1>5 DEF I!CreateSink, CommandsInv, CommandTypes, Serving
<1> QED BY <1>4, <1>7, <1>8, ProcessMoves

\* A client is told of a command that creates.
LEMMA AnswerKeeps ==
    ASSUME CommandsInv, NEW a \in Remembered, ~I!InTransaction(a.cmd), Made(a.cmd, a.result),
           answers' = answers \cup {a}, receipts' \in {receipts, receipts \cup {a}},
           UNCHANGED <<collections, sources, sinks, crashes>>,
           handler' = handler \/ \E p \in Process : handler' = [handler EXCEPT ![p] = Idle]
    PROVE  CommandsInv'
<1>1. SourcesKept /\ HeldKept
  BY DEF SourcesKept, HeldKept
<1>2. Serving'
  <2>1. CASE handler' = handler
    BY <1>1, <2>1, NobodyMoves
  <2>2. ASSUME NEW p \in Process, handler' = [handler EXCEPT ![p] = Idle]
        PROVE  Serving'
    <3>1. PICK h : h = Idle
      OBVIOUS
    <3> QED BY <1>1, <2>2, <3>1, ServingStays
  <2> QED BY <2>1, <2>2
<1>3. \A c : I!Told(c)' = I!Told(c)
  <2>1. a.cmd.kind \notin {"edit", "archive", "publish"} /\ a.cmd.kind # "create"
    BY DEF I!InTransaction
  <2> QED BY <2>1 DEF I!Told
<1>4. /\ CommandTypes /\ MadeBy /\ Remembering /\ ResultsMade /\ MadeOnce /\ Counted
      /\ OneSource /\ I!NothingDangling
  BY DEF CommandsInv
<1>5. CommandTypes'
  BY <1>4 DEF CommandTypes
<1>6. MadeBy'
  BY <1>3, <1>4 DEF MadeBy
<1>7. Remembering'
  BY <1>4 DEF Remembering, I!InTransaction
<1>8. ResultsMade'
  BY <1>4 DEF ResultsMade, Made
<1>9. MadeOnce'
  BY <1>4 DEF MadeOnce, I!InTransaction
<1>10. Counted'
  BY <1>3, <1>4 DEF Counted, I!Present, I!InTransaction
<1>11. OneSource' /\ I!NothingDangling'
  BY <1>4 DEF OneSource, I!NothingDangling, I!Present
<1> QED BY <1>2, <1>5, <1>6, <1>7, <1>8, <1>9, <1>10, <1>11 DEF CommandsInv

LEMMA RememberKeeps ==
    ASSUME CommandsInv, NEW p \in Process, I!Remember(p)
    PROVE  CommandsInv'
<1>1. PICK g : g = handler[p] /\ Sound(g)
  BY DEF CommandsInv, Serving, I!Remember, I!Serves
<1>2. PICK a : a = [cmd |-> g.cmd, result |-> g.results]
  OBVIOUS
<1>3. /\ a \in Remembered /\ a.cmd = g.cmd /\ a.result = g.results
  BY <1>1, <1>2 DEF Sound, Handling, Remembered
<1>4. ~I!InTransaction(a.cmd) /\ Made(a.cmd, a.result)
  BY <1>1, <1>3 DEF Sound
<1>5. /\ receipts' = IF I!Held(g.cmd) = {} THEN receipts \cup {a} ELSE receipts
      /\ answers'  = answers \cup {a}
      /\ handler'  = [handler EXCEPT ![p] = Idle]
      /\ UNCHANGED <<collections, sources, sinks, crashes>>
  BY <1>1, <1>2 DEF I!Remember
<1> QED BY <1>3, <1>4, <1>5, AnswerKeeps

\* A command that was done is answered again: nothing that was not so before.
LEMMA ReplayKeeps ==
    ASSUME CommandsInv, NEW cmd \in Command, I!Replay(cmd)
    PROVE  CommandsInv'
<1>1. PICK r \in receipts :
         r.cmd = cmd /\ answers' = answers \cup {[cmd |-> cmd, result |-> r.result]}
  BY DEF I!Replay, I!Held, I!Fits
<1>2. UNCHANGED <<collections, sources, sinks, receipts, handler, crashes>>
  BY DEF I!Replay
<1>3. /\ CommandTypes /\ Remembering /\ ResultsMade
  BY DEF CommandsInv
<1>4. r \in Remembered /\ r = [cmd |-> cmd, result |-> r.result]
  BY <1>1, <1>3 DEF CommandTypes, Remembered
<1>5. CASE ~I!InTransaction(cmd)
  <2>1. ~I!InTransaction(r.cmd) /\ Made(r.cmd, r.result) /\ answers' = answers \cup {r}
    BY <1>1, <1>3, <1>4, <1>5 DEF ResultsMade
  <2> QED BY <1>2, <1>4, <2>1, AnswerKeeps
<1>6. CASE I!InTransaction(cmd)
  <2>1. answers' = answers
    BY <1>1, <1>3, <1>4, <1>6 DEF Remembering
  <2>2. Serving'
    BY <1>2, NobodyMoves DEF SourcesKept, HeldKept
  <2>3. CommandTypes' /\ MadeBy' /\ Remembering'
    BY <1>2, <2>1 DEF CommandsInv, CommandTypes, MadeBy, Remembering, I!Told, I!InTransaction
  <2>4. ResultsMade' /\ MadeOnce'
    BY <1>2, <2>1 DEF CommandsInv, ResultsMade, Made, MadeOnce
  <2>5. Counted'
    <3>1. \A c : I!Told(c)' = I!Told(c)
      BY <2>1 DEF I!Told
    <3> QED BY <1>2, <3>1 DEF CommandsInv, Counted, I!Present, I!InTransaction
  <2>6. OneSource' /\ I!NothingDangling'
    BY <1>2 DEF CommandsInv, OneSource, I!NothingDangling, I!Present
  <2> QED BY <2>2, <2>3, <2>4, <2>5, <2>6 DEF CommandsInv
<1> QED BY <1>5, <1>6

-----------------------------------------------------------------------------
(* Steps that change sources and collections *)

\* A source is added for a url that has none, and its collection takes it.
LEMMA SourceKeeps ==
    ASSUME CommandsInv, NEW p \in Process, handler[p] # Idle, handler[p].pc = "create",
           I!MayAdd(handler[p].cmd, I!At(p), handler[p].collection), I!Create(p)
    PROVE  CommandsInv'
<1>1. PICK g : g = handler[p] /\ Sound(g)
  BY DEF CommandsInv, Serving
<1>2. /\ g \in Handling /\ g.cmd \in Command /\ g.collection \in I!Collection
      /\ g.results \in Seq(Nat) /\ g.cmd.kind # "sink" /\ ~I!InTransaction(g.cmd)
  BY <1>1 DEF Sound, Handling
<1>3. PICK cmd : cmd = g.cmd
  OBVIOUS
<1>4. PICK c \in I!Collection : c = g.collection
  BY <1>2
<1>5. PICK url : url = I!At(p)
  OBVIOUS
<1>6. PICK s : s = [url |-> url, collection |-> c, by |-> cmd, live |-> TRUE]
  OBVIOUS
<1>7. PICK k : k = I!CollectionAfter(cmd, c)
  OBVIOUS
<1>8. /\ sources' = Append(sources, s)
      /\ collections' = [collections EXCEPT ![c] = k]
      /\ handler' = I!After(p, Len(sources'))
      /\ UNCHANGED <<sinks, receipts, answers, crashes>>
  BY <1>1, <1>3, <1>4, <1>5, <1>6, <1>7 DEF I!Create
<1>9. /\ ~I!Live(url)
      /\ IF I!Present(c) THEN collections[c].status = "active" ELSE cmd.target = 0
  BY <1>1, <1>3, <1>4, <1>5 DEF I!MayAdd
<1>10. /\ CommandTypes /\ MadeBy /\ Remembering /\ ResultsMade /\ MadeOnce /\ Counted
       /\ OneSource /\ I!NothingDangling
  BY DEF CommandsInv
<1>11. url \in Urls
  <2>1. Len(g.results) + 1 \in Nat \ {0}
    BY <1>2
  <2>2. url = cmd.urls[Len(g.results) + 1]
    BY <1>1, <1>3, <1>5 DEF I!At
  <2> QED BY <1>2, <1>3, <2>1, <2>2 DEF Urls
<1>12. PICK m \in Nat : m = Len(sources)
  BY RowTypes
<1>13. /\ sources' \in Seq([url : Urls, collection : I!Collection, by : Command,
                            live : BOOLEAN])
       /\ Len(sources') = m + 1 /\ DOMAIN sources = 1..m /\ DOMAIN sources' = 1..(m + 1)
       /\ sources'[m + 1] = s /\ \A t \in 1..m : sources'[t] = sources[t]
  <2> DEFINE T == [url : Urls, collection : I!Collection, by : Command, live : BOOLEAN]
  <2>1. s \in T
    BY <1>2, <1>3, <1>6, <1>11
  <2>2. sources \in Seq(T)
    BY <1>10 DEF CommandTypes
  <2> HIDE DEF T
  <2>3. /\ sources' \in Seq(T)
        /\ Len(sources') = m + 1 /\ DOMAIN sources = 1..m /\ DOMAIN sources' = 1..(m + 1)
        /\ sources'[m + 1] = s /\ \A t \in 1..m : sources'[t] = sources[t]
    BY <1>8, <1>12, <2>1, <2>2
  <2> QED BY <2>3 DEF T
\* What becomes of the collection.
<1>14. /\ k \in [status : {"absent", "active", "archived", "deleted"}, revision : Nat,
                 draft : BOOLEAN, versions : Nat, history : BOOLEAN,
                 by : Command \cup {Idle}]
       /\ k.status = "active" /\ k.by \in Command
       /\ \/ k = collections[c] /\ I!Present(c)
          \/ /\ ~I!Present(c) /\ k.by = cmd
             /\ collections[c].by = Idle \/ ~I!InTransaction(collections[c].by)
  <2>1. collections[c] \in [status : {"absent", "active", "archived", "deleted"},
                 revision : Nat, draft : BOOLEAN, versions : Nat, history : BOOLEAN,
                 by : Command \cup {Idle}]
    BY <1>10 DEF CommandTypes
  <2>2. CASE I!Present(c)
    <3>1. k = collections[c] /\ k.status = "active"
      BY <1>7, <1>9, <2>2 DEF I!CollectionAfter
    <3> QED BY <1>10, <2>1, <2>2, <3>1 DEF MadeBy
  <2>3. CASE ~I!Present(c)
    <3>1. k = [collections[c] EXCEPT !.status = "active", !.revision = 1, !.by = cmd]
      BY <1>7, <1>9, <2>3 DEF I!CollectionAfter
    <3>2. collections[c].by = Idle \/ ~I!InTransaction(collections[c].by)
      BY <1>1, <1>2, <1>3, <1>4, <1>9, <2>3 DEF Sound
    <3> QED BY <1>2, <1>3, <2>1, <2>3, <3>1, <3>2
  <2> QED BY <2>2, <2>3
<1>15. /\ collections'[c] = k /\ \A d \in I!Collection \ {c} : collections'[d] = collections[d]
       /\ collections' \in [I!Collection ->
             [status : {"absent", "active", "archived", "deleted"}, revision : Nat,
              draft : BOOLEAN, versions : Nat, history : BOOLEAN, by : Command \cup {Idle}]]
  BY <1>8, <1>10, <1>14 DEF CommandTypes
<1>16. \A d : I!Told(d)' = I!Told(d)
  BY <1>8 DEF I!Told
<1>17. SourcesKept
  BY <1>13 DEF SourcesKept
<1>18. HeldKept
  BY <1>2, <1>3, <1>14, <1>15, RowTypes DEF HeldKept
<1>19. Serving'
  <2>1. PICK n \in Nat : n = m + 1 /\ n = Len(sources')
    BY <1>12, <1>13
  <2>2. PICK h : /\ I!After(p, n) = [handler EXCEPT ![p] = h]
                 /\ \/ h = Idle
                    \/ /\ h \in Handling /\ h.cmd = g.cmd /\ h.collection = g.collection
                       /\ h.results = Append(g.results, n) /\ h.pc # "sink"
    BY <1>1, <1>2, AfterCases
  <2>3. /\ handler' = [handler EXCEPT ![p] = h]
        /\ \/ h = Idle
           \/ /\ h \in Handling /\ h.cmd = cmd /\ h.collection = c
              /\ h.results = Append(g.results, n) /\ h.pc # "sink"
    BY <1>3, <1>4, <1>8, <2>1, <2>2
  <2>4. Made(cmd, g.results)'
    BY <1>1, <1>3, <1>17, MadeStays DEF Sound
  <2>5. /\ n \in DOMAIN sources' /\ sources'[n].by = cmd
        /\ sources'[n].url = cmd.urls[Len(g.results) + 1]
    BY <1>1, <1>3, <1>5, <1>6, <1>12, <1>13, <2>1 DEF I!At
  <2>6. Made(cmd, Append(g.results, n))'
    BY <1>2, <2>1, <2>4, <2>5, Appended DEF Made
  <2>7. collections'[c].by = collections[c].by \/ ~I!InTransaction(collections'[c].by)
    BY <1>2, <1>3, <1>14, <1>15
  <2>8. h # Idle => Sound(h)'
    BY <1>1, <1>2, <1>3, <1>4, <2>3, <2>6, <2>7 DEF Sound, I!InTransaction
  <2> QED BY <1>17, <1>18, <2>3, <2>8, ServingStays
<1>20. CommandTypes'
  BY <1>8, <1>10, <1>13, <1>15 DEF CommandTypes
<1>21. MadeBy'
  BY <1>10, <1>14, <1>15, <1>16 DEF MadeBy
<1>22. Remembering'
  BY <1>8, <1>10 DEF Remembering, I!InTransaction
<1>23. ResultsMade'
  BY <1>8, <1>10, <1>17, MadeStays DEF ResultsMade
<1>24. MadeOnce'
  <2>1. \A d \in I!Collection : \A x \in Command : x.kind = "create" =>
            (collections'[d].by = x <=> collections[d].by = x)
    BY <1>2, <1>3, <1>14, <1>15, CommandLimits DEF I!InTransaction
  <2> QED BY <1>8, <1>10, <2>1 DEF MadeOnce
<1>25. Counted'
  <2>1. \A d \in I!Collection : I!Present(d)' /\ I!InTransaction(collections'[d].by) =>
            I!Present(d) /\ collections'[d] = collections[d]
    BY <1>2, <1>3, <1>14, <1>15 DEF I!Present
  <2> QED BY <1>10, <1>16, <2>1 DEF Counted, I!InTransaction
<1>26. OneSource'
  <2>1. \A t \in 1..m : sources'[t].live => sources'[t].url # url
    BY <1>9, <1>13 DEF I!Live
  <2>2. \A t \in DOMAIN sources' : t \in 1..m \/ t = m + 1
    BY <1>13
  <2> QED BY <1>6, <1>10, <1>13, <2>1, <2>2 DEF OneSource
<1>27. I!NothingDangling'
  <2>1. \A d \in I!Collection : I!Present(d) => I!Present(d)'
    BY <1>14, <1>15 DEF I!Present
  <2>2. I!Present(c)'
    BY <1>14, <1>15 DEF I!Present
  <2>3. ASSUME NEW t \in DOMAIN sources', sources'[t].live,
               NEW d, d = sources'[t].collection
        PROVE  I!Present(d)'
    <3>1. CASE t \in 1..m
      <4>1. I!Present(sources[t].collection) /\ d = sources[t].collection
        BY <1>10, <1>13, <2>3, <3>1 DEF I!NothingDangling
      <4> QED BY <2>1, <4>1 DEF I!Present
    <3>2. CASE t = m + 1
      BY <1>6, <1>13, <2>2, <2>3, <3>2
    <3> QED BY <1>13, <3>1, <3>2
  <2>4. \A d \in I!Collection : collections'[d].status = "deleted" =>
            collections'[d].versions = 0 /\ ~collections'[d].history
    BY <1>10, <1>14, <1>15 DEF I!NothingDangling
  <2> QED BY <2>3, <2>4 DEF I!NothingDangling, I!Present, I!Collection
<1> QED BY <1>19, <1>20, <1>21, <1>22, <1>23, <1>24, <1>25, <1>26, <1>27 DEF CommandsInv

\* lifecycle_command on a source.
LEMMA DeleteSourceKeeps ==
    ASSUME CommandsInv, NEW s \in DOMAIN sources, I!DeleteSource(s)
    PROVE  CommandsInv'
<1>1. /\ CommandTypes /\ MadeBy /\ Serving /\ Remembering /\ ResultsMade /\ MadeOnce
      /\ Counted /\ OneSource /\ I!NothingDangling
  BY DEF CommandsInv
<1>2. /\ sources' = [sources EXCEPT ![s].live = FALSE]
      /\ UNCHANGED <<collections, sinks, receipts, handler, answers, crashes>>
  BY DEF I!DeleteSource
<1>3. /\ sources' \in Seq([url : Urls, collection : I!Collection, by : Command,
                           live : BOOLEAN])
      /\ DOMAIN sources' = DOMAIN sources /\ ~sources'[s].live
      /\ \A t \in DOMAIN sources :
            /\ sources'[t].url = sources[t].url /\ sources'[t].by = sources[t].by
            /\ sources'[t].collection = sources[t].collection
            /\ t # s => sources'[t].live = sources[t].live
  <2> DEFINE T == [url : Urls, collection : I!Collection, by : Command, live : BOOLEAN]
  <2>1. sources \in Seq(T)
    BY <1>1 DEF CommandTypes
  <2>2. PICK q : q = [sources[s] EXCEPT !.live = FALSE]
    OBVIOUS
  <2>3. sources' = [sources EXCEPT ![s] = q]
    BY <1>2, <2>2
  <2>4. \A t \in T : /\ [t EXCEPT !.live = FALSE] \in T
                    /\ [t EXCEPT !.live = FALSE].url = t.url
                    /\ [t EXCEPT !.live = FALSE].collection = t.collection
                    /\ [t EXCEPT !.live = FALSE].by = t.by
                    /\ [t EXCEPT !.live = FALSE].live = FALSE
    OBVIOUS
  <2> HIDE DEF T
  <2>5. sources[s] \in T
    BY <2>1
  <2>6. /\ q \in T /\ q.url = sources[s].url /\ q.collection = sources[s].collection
        /\ q.by = sources[s].by /\ q.live = FALSE
    BY <2>2, <2>4, <2>5
  <2>7. sources' \in Seq(T) /\ DOMAIN sources' = DOMAIN sources
    BY <2>1, <2>3, <2>6
  <2>8. sources'[s] = q /\ \A t \in DOMAIN sources \ {s} : sources'[t] = sources[t]
    BY <2>1, <2>3
  <2>9. sources' \in Seq([url : Urls, collection : I!Collection, by : Command,
                          live : BOOLEAN])
    BY <2>7 DEF T
  <2> QED BY <2>6, <2>7, <2>8, <2>9
<1>4. SourcesKept /\ HeldKept
  BY <1>2, <1>3 DEF SourcesKept, HeldKept
<1>5. Serving'
  BY <1>2, <1>4, NobodyMoves
<1>6. CommandTypes'
  BY <1>1, <1>2, <1>3 DEF CommandTypes
<1>7. \A c : I!Told(c)' = I!Told(c)
  BY <1>2 DEF I!Told
<1>8. MadeBy'
  BY <1>1, <1>2, <1>7 DEF MadeBy
<1>9. Remembering' /\ MadeOnce'
  BY <1>1, <1>2 DEF Remembering, MadeOnce, I!InTransaction
<1>10. ResultsMade'
  BY <1>1, <1>2, <1>4, MadeStays DEF ResultsMade
<1>11. Counted'
  BY <1>1, <1>2, <1>7 DEF Counted, I!Present, I!InTransaction
<1>12. OneSource'
  BY <1>1, <1>3 DEF OneSource
<1>13. I!NothingDangling'
  <2>1. ASSUME NEW t \in DOMAIN sources', sources'[t].live
        PROVE  t # s /\ sources[t].live /\ sources'[t].collection = sources[t].collection
    BY <1>3, <2>1
  <2> QED BY <1>1, <1>2, <1>3, <2>1 DEF I!NothingDangling, I!Present
<1> QED BY <1>5, <1>6, <1>8, <1>9, <1>10, <1>11, <1>12, <1>13 DEF CommandsInv

CollectionRow == [status : {"absent", "active", "archived", "deleted"}, revision : Nat,
                  draft : BOOLEAN, versions : Nat, history : BOOLEAN,
                  by : Command \cup {Idle}]

\* A collection that is there is changed or deleted.
LEMMA CollectionMoves ==
    ASSUME CommandsInv, NEW c \in I!Collection, I!Present(c), NEW k \in CollectionRow,
           k.by = collections[c].by, k.status # "absent",
           k.status = "deleted" =>
              /\ k.versions = 0 /\ ~k.history
              /\ \A s \in DOMAIN sources : sources[s].collection = c => ~sources[s].live,
           IsFiniteSet(I!Told(c)'),
           k.status # "deleted" /\ I!InTransaction(k.by) =>
              k.revision = 1 + Cardinality(I!Told(c)'),
           \A d \in I!Collection \ {c} : I!Told(d)' = I!Told(d),
           collections' = [collections EXCEPT ![c] = k],
           UNCHANGED <<sources, sinks, handler, crashes>>,
           receipts' \subseteq Remembered, answers' \subseteq Remembered,
           Remembering', ResultsMade',
           \A x \in Command : x.kind = "create" =>
              ((\E a \in answers' : a.cmd = x) <=> \E a \in answers : a.cmd = x)
    PROVE  CommandsInv'
<1>1. /\ CommandTypes /\ MadeBy /\ MadeOnce /\ Counted /\ OneSource /\ I!NothingDangling
  BY DEF CommandsInv
<1>2. /\ collections' \in [I!Collection -> CollectionRow]
      /\ collections'[c] = k /\ \A d \in I!Collection \ {c} : collections'[d] = collections[d]
      /\ \A d \in I!Collection : collections'[d].by = collections[d].by
  BY <1>1 DEF CommandTypes, CollectionRow
<1>3. SourcesKept /\ HeldKept
  BY <1>2, RowTypes DEF SourcesKept, HeldKept
<1>4. Serving'
  BY <1>3, NobodyMoves
<1>5. CommandTypes'
  BY <1>1, <1>2 DEF CommandTypes, CollectionRow
<1>6. MadeBy'
  <2>1. k.by \in Command
    BY <1>1 DEF MadeBy, I!Present
  <2> QED BY <1>1, <1>2, <2>1 DEF MadeBy
<1>7. MadeOnce'
  BY <1>1, <1>2 DEF MadeOnce
<1>8. Counted'
  <2>1. ASSUME NEW d \in I!Collection
        PROVE  /\ IsFiniteSet(I!Told(d)')
               /\ I!Present(d)' /\ I!InTransaction(collections'[d].by) =>
                     collections'[d].revision = 1 + Cardinality(I!Told(d)')
    <3>1. CASE d = c
      BY <1>2, <3>1 DEF I!Present
    <3>2. CASE d # c
      BY <1>1, <1>2, <3>2 DEF Counted, I!Present
    <3> QED BY <3>1, <3>2
  <2> QED BY <2>1 DEF Counted, I!InTransaction
<1>9. OneSource'
  BY <1>1 DEF OneSource
<1>10. I!NothingDangling'
  <2>1. ASSUME NEW s \in DOMAIN sources, sources[s].live
        PROVE  /\ sources[s].collection \in I!Collection
               /\ collections'[sources[s].collection].status \in {"active", "archived"}
    <3>1. I!Present(sources[s].collection) /\ sources[s].collection \in I!Collection
      BY <1>1, <2>1 DEF I!NothingDangling, I!Present
    <3>2. CASE sources[s].collection = c
      BY <1>2, <2>1, <3>2 DEF CollectionRow
    <3>3. CASE sources[s].collection # c
      BY <1>2, <3>1, <3>3 DEF I!Present
    <3> QED BY <3>1, <3>2, <3>3
  <2>2. \A d \in I!Collection : collections'[d].status = "deleted" =>
            collections'[d].versions = 0 /\ ~collections'[d].history
    BY <1>1, <1>2 DEF I!NothingDangling
  <2> QED BY <2>1, <2>2 DEF I!NothingDangling, I!Present, I!Collection
<1> QED BY <1>4, <1>5, <1>6, <1>7, <1>8, <1>9, <1>10 DEF CommandsInv

LEMMA LeaveHistoryKeeps ==
    ASSUME CommandsInv, NEW s \in DOMAIN sources, I!LeaveHistory(s)
    PROVE  CommandsInv'
<1>1. CommandTypes /\ I!NothingDangling /\ Counted /\ Remembering /\ ResultsMade
  BY DEF CommandsInv
<1>2. PICK c \in I!Collection : c = sources[s].collection /\ I!Present(c)
  BY <1>1 DEF I!LeaveHistory, I!NothingDangling, I!Present
<1>3. PICK k : k = [collections[c] EXCEPT !.history = TRUE]
  OBVIOUS
<1>4. /\ k \in CollectionRow /\ k.by = collections[c].by /\ k.status = collections[c].status
      /\ k.revision = collections[c].revision
  BY <1>1, <1>3 DEF CommandTypes, CollectionRow
<1>5. /\ collections' = [collections EXCEPT ![c] = k]
      /\ UNCHANGED <<sources, sinks, receipts, handler, answers, crashes>>
  BY <1>2, <1>3 DEF I!LeaveHistory
<1>6. \A d : I!Told(d)' = I!Told(d)
  BY <1>5 DEF I!Told
<1>7. /\ IsFiniteSet(I!Told(c)')
      /\ I!InTransaction(k.by) => k.revision = 1 + Cardinality(I!Told(c)')
  BY <1>1, <1>2, <1>4, <1>6 DEF Counted
<1>8. Remembering' /\ ResultsMade'
  BY <1>1, <1>5 DEF Remembering, ResultsMade, Made, I!InTransaction
<1>9. k.status # "absent" /\ k.status # "deleted"
  BY <1>2, <1>4 DEF I!Present
<1>10. receipts' \subseteq Remembered /\ answers' \subseteq Remembered
  BY <1>1, <1>5 DEF CommandTypes
<1> QED BY <1>2, <1>4, <1>5, <1>6, <1>7, <1>8, <1>9, <1>10, CollectionMoves

-----------------------------------------------------------------------------
(* Commands on collections *)

\* The first answer of a command on a collection.
LEMMA FirstAnswer ==
    ASSUME CommandsInv, NEW cmd \in Command, I!InTransaction(cmd), I!Held(cmd) = {},
           receipts' = I!Receipt(cmd), UNCHANGED sources,
           answers' = answers \cup {[cmd |-> cmd, result |-> <<>>]}
    PROVE  /\ receipts' \subseteq Remembered /\ answers' \subseteq Remembered
           /\ Remembering' /\ ResultsMade'
           /\ \A a \in answers : a.cmd # cmd
           /\ \E a \in answers' : a.cmd = cmd
           /\ \A x : x # cmd => ((\E a \in answers' : a.cmd = x) <=> \E a \in answers : a.cmd = x)
           /\ \A d : IF d = cmd.target /\ cmd.kind \in {"edit", "archive", "publish"}
                     THEN I!Told(d)' = I!Told(d) \cup {cmd} /\ cmd \notin I!Told(d)
                     ELSE I!Told(d)' = I!Told(d)
<1>1. PICK own : own = [cmd |-> cmd, result |-> <<>>]
  OBVIOUS
<1>2. /\ own \in Remembered /\ own.cmd = cmd /\ own.result = <<>>
      /\ receipts' = receipts \cup {own} /\ answers' = answers \cup {own}
  BY <1>1 DEF Remembered, I!Receipt
<1>3. CommandTypes /\ Remembering /\ ResultsMade
  BY DEF CommandsInv
<1>4. \A r \in receipts : r.cmd # cmd
  BY DEF I!Held
<1>5. \A a \in answers : a.cmd # cmd
  BY <1>3, <1>4 DEF Remembering
<1>6. receipts' \subseteq Remembered /\ answers' \subseteq Remembered
  BY <1>2, <1>3 DEF CommandTypes
<1>7. Remembering'
  BY <1>2, <1>3 DEF Remembering, I!InTransaction
<1>8. ResultsMade'
  BY <1>2, <1>3 DEF ResultsMade, Made
<1>9. /\ \E a \in answers' : a.cmd = cmd
      /\ \A x : x # cmd => ((\E a \in answers' : a.cmd = x) <=> \E a \in answers : a.cmd = x)
  BY <1>2
<1>10. \A d : IF d = cmd.target /\ cmd.kind \in {"edit", "archive", "publish"}
              THEN I!Told(d)' = I!Told(d) \cup {cmd} /\ cmd \notin I!Told(d)
              ELSE I!Told(d)' = I!Told(d)
  BY <1>2, <1>5 DEF I!Told
<1> QED BY <1>5, <1>6, <1>7, <1>8, <1>9, <1>10

LEMMA ChangeKeeps ==
    ASSUME CommandsInv, NEW cmd \in Command, cmd.kind \in {"edit", "archive", "publish", "delete"},
           I!Execute(cmd)
    PROVE  CommandsInv'
<1>1. /\ I!InTransaction(cmd) /\ I!Held(cmd) = {} /\ receipts' = I!Receipt(cmd)
      /\ answers' = answers \cup {[cmd |-> cmd, result |-> <<>>]}
      /\ UNCHANGED <<sources, sinks, handler, crashes>>
  BY DEF I!Execute
<1>2. CommandTypes /\ Counted
  BY DEF CommandsInv
<1>3. I!Present(cmd.target)
  BY DEF I!Execute, I!Active, I!Unchanged, I!PublishVersion
<1>4. PICK c \in I!Collection : c = cmd.target /\ I!Present(c)
  BY <1>3 DEF I!Present
<1>5. /\ receipts' \subseteq Remembered /\ answers' \subseteq Remembered
      /\ Remembering' /\ ResultsMade'
      /\ \A x \in Command : x.kind = "create" =>
            ((\E a \in answers' : a.cmd = x) <=> \E a \in answers : a.cmd = x)
      /\ \A d \in I!Collection \ {c} : I!Told(d)' = I!Told(d)
      /\ IF cmd.kind \in {"edit", "archive", "publish"}
         THEN I!Told(c)' = I!Told(c) \cup {cmd} /\ cmd \notin I!Told(c)
         ELSE I!Told(c)' = I!Told(c)
  BY <1>1, <1>4, FirstAnswer
<1>6. /\ IsFiniteSet(I!Told(c)')
      /\ cmd.kind \in {"edit", "archive", "publish"} =>
            Cardinality(I!Told(c)') = Cardinality(I!Told(c)) + 1
  BY <1>2, <1>5, FS_AddElement DEF Counted
<1>7. IsFiniteSet(I!Told(c)) /\ Cardinality(I!Told(c)) \in Nat
  BY <1>2, FS_CardinalityType DEF Counted
<1>8. PICK old \in CollectionRow : old = collections[c] /\ old.status \in {"active", "archived"}
  BY <1>2, <1>4 DEF CommandTypes, CollectionRow, I!Present
<1>9. \E k \in CollectionRow :
         /\ collections' = [collections EXCEPT ![c] = k]
         /\ k.by = old.by
         /\ \/ /\ cmd.kind \in {"edit", "archive", "publish"}
               /\ k.status \in {"active", "archived"} /\ k.revision = old.revision + 1
            \/ /\ cmd.kind = "delete" /\ k.status = "deleted" /\ I!Deletable(c)
               /\ k.versions = old.versions /\ k.history = old.history
  <2>0. collections \in [I!Collection -> CollectionRow]
    BY <1>2 DEF CommandTypes, CollectionRow
  <2>5. PICK revision \in Nat : revision = old.revision + 1
    BY <1>8 DEF CollectionRow
  <2>6. PICK versions \in Nat : versions = old.versions + 1
    BY <1>8 DEF CollectionRow
  <2>1. CASE cmd.kind = "edit"
    <3>1. PICK k : k = [old EXCEPT !.draft = TRUE, !.revision = revision]
      OBVIOUS
    <3>2. /\ k \in CollectionRow /\ k.by = old.by /\ k.status = old.status
          /\ k.revision = old.revision + 1
      BY <2>5, <2>6, <3>1 DEF CollectionRow
    <3>3. collections' = [collections EXCEPT ![c] = k]
      BY <1>4, <1>8, <2>0, <2>5, <2>6, <2>1, <3>1 DEF I!Execute
    <3> QED BY <1>8, <2>1, <3>2, <3>3
  <2>2. CASE cmd.kind = "archive"
    <3>1. PICK k : k = [old EXCEPT !.status = "archived", !.revision = revision]
      OBVIOUS
    <3>2. /\ k \in CollectionRow /\ k.by = old.by /\ k.status = "archived"
          /\ k.revision = old.revision + 1
      BY <2>5, <2>6, <3>1 DEF CollectionRow
    <3>3. collections' = [collections EXCEPT ![c] = k]
      BY <1>4, <1>8, <2>0, <2>5, <2>6, <2>2, <3>1 DEF I!Execute
    <3> QED BY <2>2, <3>2, <3>3
  <2>3. CASE cmd.kind = "publish"
    <3>1. PICK k : k = [old EXCEPT !.versions = versions, !.revision = revision]
      OBVIOUS
    <3>2. /\ k \in CollectionRow /\ k.by = old.by /\ k.status = old.status
          /\ k.revision = old.revision + 1
      BY <2>5, <2>6, <3>1 DEF CollectionRow
    <3>3. collections' = [collections EXCEPT ![c] = k]
      BY <1>4, <1>8, <2>0, <2>5, <2>6, <2>3, <3>1 DEF I!Execute, I!PublishVersion
    <3> QED BY <1>8, <2>3, <3>2, <3>3
  <2>4. CASE cmd.kind = "delete"
    <3>1. PICK k : k = [old EXCEPT !.status = "deleted"]
      OBVIOUS
    <3>2. /\ k \in CollectionRow /\ k.by = old.by /\ k.status = "deleted"
          /\ k.versions = old.versions /\ k.history = old.history
      BY <1>8, <3>1 DEF CollectionRow
    <3>3. collections' = [collections EXCEPT ![c] = k] /\ I!Deletable(c)
      BY <1>4, <1>8, <2>0, <2>4, <3>1 DEF I!Execute
    <3> QED BY <2>4, <3>2, <3>3
  <2> QED BY <2>1, <2>2, <2>3, <2>4
<1>10. PICK k \in CollectionRow :
         /\ collections' = [collections EXCEPT ![c] = k]
         /\ k.by = old.by
         /\ \/ /\ cmd.kind \in {"edit", "archive", "publish"}
               /\ k.status \in {"active", "archived"} /\ k.revision = old.revision + 1
            \/ /\ cmd.kind = "delete" /\ k.status = "deleted" /\ I!Deletable(c)
               /\ k.versions = old.versions /\ k.history = old.history
  BY <1>9
<1>11. k.status = "deleted" =>
          /\ k.versions = 0 /\ ~k.history
          /\ \A s \in DOMAIN sources : sources[s].collection = c => ~sources[s].live
  BY <1>8, <1>10 DEF I!Deletable
<1>12. k.status # "deleted" /\ I!InTransaction(k.by) =>
          k.revision = 1 + Cardinality(I!Told(c)')
  <2>1. ASSUME k.status # "deleted", I!InTransaction(k.by)
        PROVE  /\ old.revision = 1 + Cardinality(I!Told(c))
               /\ k.revision = old.revision + 1
               /\ Cardinality(I!Told(c)') = Cardinality(I!Told(c)) + 1
    BY <1>2, <1>4, <1>6, <1>8, <1>10, <2>1 DEF Counted
  <2> HAVE k.status # "deleted" /\ I!InTransaction(k.by)
  <2>2. PICK n \in Nat : n = Cardinality(I!Told(c))
    BY <1>7
  <2> QED BY ONLY <2>1, <2>2, k.status # "deleted", I!InTransaction(k.by)
<1>13. k.status # "absent" /\ k.by = collections[c].by
  BY <1>8, <1>10
<1> QED BY <1>1, <1>4, <1>5, <1>6, <1>10, <1>11, <1>12, <1>13, CollectionMoves

LEMMA CreateKeeps ==
    ASSUME CommandsInv, NEW cmd \in Command, cmd.kind = "create", I!Execute(cmd)
    PROVE  CommandsInv'
<1>1. /\ I!InTransaction(cmd) /\ I!Held(cmd) = {} /\ receipts' = I!Receipt(cmd)
      /\ answers' = answers \cup {[cmd |-> cmd, result |-> <<>>]}
      /\ UNCHANGED <<sources, sinks, handler, crashes>>
  BY DEF I!Execute
<1>2. PICK c \in I!Collection :
         /\ I!Fresh(c)
         /\ collections' = [collections EXCEPT ![c] = [I!NewCollection EXCEPT !.by = cmd]]
  BY DEF I!Execute
<1>3. PICK k : k = [I!NewCollection EXCEPT !.by = cmd]
  OBVIOUS
<1>4. /\ k \in CollectionRow /\ k.by = cmd /\ k.status = "active" /\ k.revision = 1
      /\ k.versions = 0 /\ ~k.history
  BY <1>3 DEF CollectionRow, I!NewCollection, I!NoCollection
<1>5. /\ CommandTypes /\ MadeBy /\ MadeOnce /\ Counted /\ OneSource /\ I!NothingDangling
  BY DEF CommandsInv
<1>6. /\ collections' \in [I!Collection -> CollectionRow]
      /\ collections'[c] = k /\ \A d \in I!Collection \ {c} : collections'[d] = collections[d]
  BY <1>2, <1>3, <1>4, <1>5 DEF CommandTypes, CollectionRow
<1>7. /\ collections[c].status = "absent" /\ collections[c].by = Idle /\ I!Told(c) = {}
      /\ \A p \in Process : handler[p] # Idle => handler[p].collection # c
  <2>1. collections[c].status = "absent"
    BY <1>2, FreshIsUnused
  <2>2. collections[c] = I!NoCollection /\ I!Told(c) = {}
    BY <1>5, <2>1 DEF MadeBy
  <2> QED BY <1>2, <2>1, <2>2, FreshIsUnused DEF I!NoCollection
<1>8. /\ receipts' \subseteq Remembered /\ answers' \subseteq Remembered
      /\ Remembering' /\ ResultsMade'
      /\ \A a \in answers : a.cmd # cmd
      /\ \E a \in answers' : a.cmd = cmd
      /\ \A x : x # cmd => ((\E a \in answers' : a.cmd = x) <=> \E a \in answers : a.cmd = x)
      /\ \A d : I!Told(d)' = I!Told(d)
  BY <1>1, FirstAnswer
<1>9. SourcesKept /\ HeldKept
  BY <1>1, <1>6, <1>7, RowTypes DEF SourcesKept, HeldKept
<1>10. Serving'
  BY <1>1, <1>9, NobodyMoves
<1>11. CommandTypes'
  BY <1>1, <1>5, <1>6, <1>8 DEF CommandTypes, CollectionRow
<1>12. MadeBy'
  BY <1>4, <1>5, <1>6, <1>8 DEF MadeBy
<1>13. MadeOnce'
  <2>1. \A d \in I!Collection : collections[d].by # cmd
    BY <1>5, <1>8 DEF MadeOnce
  <2>2. \A d \in I!Collection : collections'[d].by = cmd <=> d = c
    BY <1>4, <1>6, <2>1
  <2>3. \A d \in I!Collection : \A x \in Command : x # cmd =>
            (collections'[d].by = x <=> collections[d].by = x)
    BY <1>4, <1>6, <1>7, CommandLimits
  <2>4. ASSUME NEW x \in Command, x.kind = "create"
        PROVE  /\ \A d, e \in I!Collection :
                     collections'[d].by = x /\ collections'[e].by = x => d = e
               /\ (\E d \in I!Collection : collections'[d].by = x) <=>
                  (\E a \in answers' : a.cmd = x)
    <3>1. CASE x = cmd
      BY <1>8, <2>2, <3>1
    <3>2. CASE x # cmd
      BY <1>5, <1>8, <2>3, <2>4, <3>2 DEF MadeOnce
    <3> QED BY <3>1, <3>2
  <2> QED BY <2>4 DEF MadeOnce
<1>14. Counted'
  <2>1. ASSUME NEW d \in I!Collection
        PROVE  /\ IsFiniteSet(I!Told(d)')
               /\ I!Present(d)' /\ I!InTransaction(collections'[d].by) =>
                     collections'[d].revision = 1 + Cardinality(I!Told(d)')
    <3>1. CASE d = c
      <4>1. I!Told(c)' = {} /\ collections'[c].revision = 1
        BY <1>4, <1>6, <1>7, <1>8
      <4>2. Cardinality({}) = 0 /\ IsFiniteSet({})
        BY FS_EmptySet
      <4>3. IsFiniteSet(I!Told(d)') /\ Cardinality(I!Told(d)') = 0
        BY <3>1, <4>1, <4>2
      <4>4. collections'[d].revision = 1 + Cardinality(I!Told(d)')
        BY <3>1, <4>1, <4>3
      <4> QED BY <4>3, <4>4
    <3>2. CASE d # c
      BY <1>5, <1>6, <1>8, <3>2 DEF Counted, I!Present
    <3> QED BY <3>1, <3>2
  <2> QED BY <2>1 DEF Counted, I!InTransaction
<1>15. OneSource'
  BY <1>1, <1>5 DEF OneSource
<1>16. I!NothingDangling'
  <2>1. \A d \in I!Collection : I!Present(d) => I!Present(d)'
    BY <1>4, <1>6 DEF I!Present
  <2>2. \A d \in I!Collection : collections'[d].status = "deleted" =>
            collections'[d].versions = 0 /\ ~collections'[d].history
    BY <1>4, <1>5, <1>6 DEF I!NothingDangling
  <2>3. \A s \in DOMAIN sources : sources[s].live =>
            /\ sources[s].collection \in I!Collection
            /\ collections'[sources[s].collection].status \in {"active", "archived"}
    BY <1>5, <2>1 DEF I!NothingDangling, I!Present
  <2> QED BY <1>1, <2>2, <2>3 DEF I!NothingDangling, I!Present, I!Collection
<1> QED BY <1>8, <1>10, <1>11, <1>12, <1>13, <1>14, <1>15, <1>16 DEF CommandsInv

-----------------------------------------------------------------------------
(* All steps *)

LEMMA CommandsKeep ==
    ASSUME CommandsInv, [I!Next]_commandVars
    PROVE  CommandsInv'
<1>1. CASE UNCHANGED commandVars
  <2>1. UNCHANGED <<collections, sources, sinks, receipts, handler, answers, crashes>>
    BY <1>1 DEF commandVars
  <2>2. Serving'
    BY <2>1, NobodyMoves DEF SourcesKept, HeldKept
  <2>3. \A c : I!Told(c)' = I!Told(c)
    BY <2>1 DEF I!Told
  <2>4. CommandTypes' /\ MadeBy' /\ Remembering'
    BY <2>1, <2>3 DEF CommandsInv, CommandTypes, MadeBy, Remembering, I!InTransaction
  <2>5. ResultsMade' /\ MadeOnce'
    BY <2>1 DEF CommandsInv, ResultsMade, Made, MadeOnce
  <2>6. Counted'
    BY <2>1, <2>3 DEF CommandsInv, Counted, I!Present, I!InTransaction
  <2>7. OneSource' /\ I!NothingDangling'
    BY <2>1 DEF CommandsInv, OneSource, I!NothingDangling, I!Present
  <2> QED BY <2>2, <2>4, <2>5, <2>6, <2>7 DEF CommandsInv
<1>2. ASSUME NEW cmd \in Command, I!Execute(cmd)
      PROVE  CommandsInv'
  <2>1. cmd.kind \in {"create", "edit", "archive", "delete", "publish"}
    BY <1>2 DEF I!Execute, I!InTransaction
  <2> QED BY <1>2, <2>1, ChangeKeeps, CreateKeeps
<1>3. ASSUME NEW p \in Process, I!Create(p)
      PROVE  CommandsInv'
  <2>1. handler[p] # Idle /\ handler[p].pc = "create"
    BY <1>3 DEF I!Create, I!Serves
  <2>2. CASE I!MayAdd(handler[p].cmd, I!At(p), handler[p].collection)
    BY <1>3, <2>1, <2>2, SourceKeeps
  <2>3. CASE ~I!MayAdd(handler[p].cmd, I!At(p), handler[p].collection)
    <3>1. /\ handler' = I!After(p, I!Refused)
          /\ UNCHANGED <<collections, sources, sinks, receipts, answers, crashes>>
      BY <1>3, <2>3 DEF I!Create
    <3> QED BY <2>1, <3>1, RefusedKeeps
  <2> QED BY <2>2, <2>3
<1>4. CASE I!Next
  BY <1>2, <1>3, <1>4, ReplayKeeps, BeginKeeps, CheckKeeps, CreateSinkKeeps, RememberKeeps,
     CrashKeeps, DeleteSourceKeeps, LeaveHistoryKeeps DEF I!Next
<1> QED BY <1>1, <1>4

LEMMA InitCommands == I!Init => CommandsInv
<1> SUFFICES ASSUME I!Init PROVE CommandsInv
  OBVIOUS
<1>1. /\ collections = [c \in I!Collection |-> I!NoCollection]
      /\ sources = <<>> /\ sinks = <<>> /\ receipts = {} /\ answers = {} /\ crashes = 0
      /\ handler = [p \in Process |-> Idle]
  BY DEF I!Init
<1>2. \A c : I!Told(c) = {}
  BY <1>1 DEF I!Told
<1>3. I!NoCollection \in CollectionRow
  BY DEF I!NoCollection, CollectionRow
<1>4. CommandTypes
  BY <1>1, <1>3, CommandLimits DEF CommandTypes, CollectionRow
<1>5. \A c \in I!Collection : /\ collections[c] = I!NoCollection /\ collections[c].by = Idle
                              /\ collections[c].status = "absent"
  BY <1>1 DEF I!NoCollection
<1>6. MadeBy
  BY <1>2, <1>5 DEF MadeBy
<1>7. Serving /\ Remembering /\ ResultsMade
  BY <1>1 DEF Serving, Remembering, ResultsMade
<1>8. MadeOnce
  BY <1>1, <1>5, CommandLimits DEF MadeOnce
<1>9. Counted
  BY <1>2, <1>5, FS_EmptySet DEF Counted, I!Present
<1>10. OneSource
  BY <1>1 DEF OneSource
<1>11. I!NothingDangling
  BY <1>1, <1>5 DEF I!NothingDangling
<1> QED BY <1>4, <1>6, <1>7, <1>8, <1>9, <1>10, <1>11 DEF CommandsInv

-----------------------------------------------------------------------------
(* What it is good for *)

LEMMA CommandTypesOK == CommandsInv => I!TypeOK
<1> SUFFICES ASSUME CommandsInv PROVE I!TypeOK
  OBVIOUS
<1>1. CommandTypes /\ Serving
  BY DEF CommandsInv
<1>2. \A c \in I!Collection :
          /\ collections[c].status \in {"absent", "active", "archived", "deleted"}
          /\ collections[c].revision \in Nat /\ collections[c].versions \in Nat
          /\ collections[c].draft \in BOOLEAN /\ collections[c].history \in BOOLEAN
          /\ collections[c].by \in Command \cup {Idle}
  BY <1>1 DEF CommandTypes
<1>3. I!Range(sinks) \subseteq Command
  BY <1>1 DEF CommandTypes, I!Range
<1>4. \A r \in receipts : r.cmd \in Command
  BY <1>1 DEF CommandTypes, Remembered
<1>5. \A p \in Process : handler[p] # Idle =>
          /\ handler[p].cmd \in Command
          /\ handler[p].pc \in {"check", "create", "sink", "remember"}
  BY RowTypes DEF Handling
<1>6. crashes \in 0..MaxCrashes
  BY <1>1 DEF CommandTypes
<1> QED BY <1>2, <1>3, <1>4, <1>5, <1>6, RowTypes DEF I!TypeOK

LEMMA CommandsAreOnce == CommandsInv => I!CommandsOnce
<1> SUFFICES ASSUME CommandsInv PROVE I!CommandsOnce
  OBVIOUS
<1>1. /\ CommandTypes /\ Remembering /\ ResultsMade /\ MadeOnce /\ Counted /\ OneSource
  BY DEF CommandsInv
<1>2. ASSUME NEW cmd \in Command, cmd.kind = "create"
      PROVE  Cardinality({c \in I!Collection : collections[c].by = cmd}) =
             Cardinality({a \in answers : a.cmd = cmd})
  <2>1. \A a, b \in answers : a.cmd = cmd /\ b.cmd = cmd => a = b
    <3>1. \A a \in answers : a = [cmd |-> a.cmd, result |-> a.result]
      BY <1>1 DEF CommandTypes, Remembered
    <3>2. \A a \in answers : a.cmd = cmd => a.result = <<>>
      BY <1>1, <1>2 DEF Remembering, I!InTransaction
    <3>3. \A a \in answers : a.cmd = cmd => a = [cmd |-> cmd, result |-> <<>>]
      BY <3>1, <3>2
    <3> QED BY <3>3
  <2>2. CASE \E a \in answers : a.cmd = cmd
    <3>1. PICK a \in answers : a.cmd = cmd
      BY <2>2
    <3>2. PICK c \in I!Collection : collections[c].by = cmd
      BY <1>1, <1>2, <2>2 DEF MadeOnce
    <3>3. {b \in answers : b.cmd = cmd} = {a}
      BY <2>1, <3>1
    <3>4. {d \in I!Collection : collections[d].by = cmd} = {c}
      BY <1>1, <1>2, <3>2 DEF MadeOnce
    <3> QED BY <3>3, <3>4, FS_Singleton
  <2>3. CASE ~\E a \in answers : a.cmd = cmd
    <3>1. {b \in answers : b.cmd = cmd} = {}
      BY <2>3
    <3>2. {d \in I!Collection : collections[d].by = cmd} = {}
      BY <1>1, <1>2, <2>3 DEF MadeOnce
    <3> QED BY <3>1, <3>2
  <2> QED BY <2>2, <2>3
<1>3. \A c \in I!Collection : I!Present(c) /\ I!InTransaction(collections[c].by) =>
          collections[c].revision = 1 + Cardinality(I!Told(c))
  BY <1>1 DEF Counted
<1>4. \A a \in answers : a.cmd.kind # "sink" => \A n \in DOMAIN a.result :
          \/ a.result[n] = I!Refused
          \/ /\ sources[a.result[n]].by = a.cmd
             /\ sources[a.result[n]].url = a.cmd.urls[n]
  BY <1>1 DEF ResultsMade, Made
<1>5. \A s, t \in DOMAIN sources :
          sources[s].url = sources[t].url /\ sources[s].live /\ sources[t].live => s = t
  BY <1>1 DEF OneSource
<1> QED BY <1>2, <1>3, <1>4, <1>5, CommandLimits DEF I!CommandsOnce

-----------------------------------------------------------------------------
(* The parts together: a behaviour of MCSpec is one of each of them *)

LEMMA PartsMove ==
    [MCNext]_MCVars =>
        /\ [Next]_vars /\ [C!Next]_catalogVars /\ [I!Next]_commandVars
BY DEF MCNext, MCVars, SchedulesNext, RecoveryNext, CatalogNext, CommandsNext

LEMMA CatalogAgrees == MCSpec => []CatalogInv
<1>1. MCInit => CatalogInv
  BY InitCatalog DEF MCInit
<1>2. CatalogInv /\ [MCNext]_MCVars => CatalogInv'
  BY PartsMove, CatalogKeeps
<1> QED BY <1>1, <1>2, PTL DEF MCSpec

\* Every command leaves its receipt, its answer and the rows it made in agreement:
\* the inductive invariant of Commands (store.py, app.py).
THEOREM CommandsAgree == MCSpec => []CommandsInv
<1>1. MCInit => CommandsInv
  BY InitCommands DEF MCInit
<1>2. CommandsInv /\ [MCNext]_MCVars => CommandsInv'
  BY PartsMove, CommandsKeep
<1> QED BY <1>1, <1>2, PTL DEF MCSpec

\* What an idempotency key stands for is done once, and leaves no source without its
\* collection and no trace of a deleted collection, whoever serves the commands, dies
\* or repeats them (store.py, app.py).
THEOREM CommandsStaySound == MCSpec => []CommandsSound
<1>1. CommandsInv => CommandsSound
  BY CommandsAreOnce DEF CommandsSound, CommandsInv
<1> QED BY <1>1, CommandsAgree, PTL

\* No budget of requests is exceeded: that of a recovery batch, of a catalog, of one of
\* its rows, over crashes, retries and further invocations; the host of a batch is left
\* to it, and a host of a catalog serves one row at a time (bounded_recovery.py,
\* runner.py, network.py).
THEOREM BudgetsAreHeld == MCSpec => []BudgetsHold
<1>1. RP!Spec => []RP!BudgetHonoured /\ []RP!HostReserved
  BY RecoveryLimits, RP!BudgetIsHonoured, RP!HostIsReserved
<1>2. RP!BudgetHonoured /\ RP!HostReserved /\ CatalogInv => BudgetsHold
  BY SameRecovery, CatalogBudgets DEF BudgetsHold
<1> QED BY <1>1, <1>2, RecoveryRuns, CatalogAgrees, PTL

\* A source that asked to wait is left alone until the wait is over; a host of a catalog
\* that refused is asked no more, and a row that has its result is not read again.
THEOREM SourcesAreRespected == MCSpec => SourcesRespected
<1>1. RP!Spec => RP!WaitHonoured
  BY RecoveryLimits, RP!WaitIsHonoured
<1>2. MCSpec => R!WaitHonoured
  BY <1>1, RecoveryRuns, PTL
     DEF R!WaitHonoured, RP!WaitHonoured, R!Abandoned, RP!Abandoned, R!ToSet, RP!ToSet,
         R!vars, RP!vars
<1>3. CatalogInv /\ [MCNext]_MCVars => [Settles]_catalogVars
  BY PartsMove, CatalogKeeps
<1>4. MCSpec => [][Settles]_catalogVars
  BY <1>3, CatalogAgrees, PTL DEF MCSpec
<1>5. [Settles]_catalogVars =>
         [\A e \in Entry :
            /\ ledger.result[e] # "none" => ledger'.result[e] = ledger.result[e]
            /\ requested'[e] > requested[e] =>
                  /\ ledger.result[e] = "none"
                  /\ C!HostOf(e) \notin refused \cup ledger.blocked]_(C!catalogVars)
  BY DEF Settles, catalogVars, C!catalogVars
<1>6. MCSpec => C!SettledForGood
  BY <1>4, <1>5, PTL DEF C!SettledForGood
<1> QED BY <1>2, <1>6 DEF SourcesRespected

\* Every variable of the four parts keeps its type: no counter, clock, revision or
\* sequence leaves the bounds of its column.
THEOREM DispatchTyped == MCSpec => []AllTypesOK
<1>1. MCInit => SInv
  BY InitSInv DEF MCInit
<1>2. SInv /\ [MCNext]_MCVars => SInv'
  BY PartsMove, NextSInv
<1>3. RP!Spec => []RP!RInv
  BY RecoveryLimits, RP!RecoveryAgrees
<1>4. SInv /\ RP!RInv /\ CatalogInv /\ CommandsInv => AllTypesOK
  <2>1. SInv => TypeOK
    BY DEF SInv
  <2>2. RP!RInv => R!TypeOK
    BY SameRecovery DEF RP!RInv
  <2>3. CatalogInv => C!TypeOK
    BY DEF CatalogInv
  <2> QED BY <2>1, <2>2, <2>3, CommandTypesOK DEF AllTypesOK
<1> QED BY <1>1, <1>2, <1>3, <1>4, RecoveryRuns, CatalogAgrees, CommandsAgree, PTL DEF MCSpec
=============================================================================
