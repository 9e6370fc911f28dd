---------------------------- MODULE CoverageProofs ----------------------------
(***************************************************************************)
(* That a checkpoint hides nothing, for every size of page, limit, list and *)
(* policy (Coverage), and that what is recorded of the pages is told and    *)
(* shown exactly (Items), for every collector, page and order of runs.      *)
(*                                                                          *)
(* A record that stands in front of a reader of pages is handled, older     *)
(* than the window, or so young that the next window holds it (Settled);    *)
(* one of a day an initial window fell short of counts as handled.          *)
(* This is what a run knows of the pages behind it, what progress hands on  *)
(* to the run that continues, and what a checkpoint certifies in the end;   *)
(* the invariant says so of the run, of the rows of the collector and of    *)
(* the row a slow command still holds.                                      *)
(*                                                                          *)
(* An item follows the accepted rows of its entity (Revises): the rows do   *)
(* when they are written, and until then the batch of a live run, since its *)
(* collector has no other.  Deliveries, revisions and readers agree with    *)
(* the rows because rows are only added.                                    *)
(***************************************************************************)
EXTENDS MCCoverage, TLAPS, FiniteSetTheorems, SequenceTheorems, FunctionTheorems,
        WellFoundedInduction

-----------------------------------------------------------------------------
(* What a reader of pages has covered.  S is the list, H the records handled *)
(* so far and fl a day from which on nothing need be handled yet.            *)

\* The record at place i needs no further reading by a traversal that goes back
\* to day w and has seen wm as its newest day: it is handled, too old, or so
\* young that the next window holds it.
Settled(S, H, fl, w, wm, i) ==
    \/ S[i].id \in H
    \/ S[i].date < w
    \/ S[i].date >= wm - Lookback /\ S[i].date >= fl

\* Checkpoint ck hides nothing.
Covers(S, H, ck) ==
    \A i \in DOMAIN S : \/ S[i].id \in H
                        \/ S[i].date < ck.since
                        \/ S[i].date >= ck.watermark - Lookback

\* Whoever reads back to day w leaves out nothing that checkpoint ck answers for.
Linked(S, H, w, ck) ==
    \A i \in DOMAIN S : S[i].date < w => S[i].id \in H \/ S[i].date < ck.since

\* The records by which a continuation recognises where it stopped.
Anchors(p) == {p.anchor} \cup (IF p.complete THEN p.overlap ELSE {})

\* Progress p can be gone on from: what it has processed is handled, and so is
\* what stands before its anchors.
Continues(S, H, fl, p) ==
    /\ \A i \in DOMAIN S : S[i].id \in p.processed => S[i].id \in H \/ S[i].date < p.window
    /\ \A i, j \in DOMAIN S : i <= j /\ S[j].id \in Anchors(p) =>
                                  Settled(S, H, fl, p.window, p.watermark, i)

\* Progress and checkpoint of a row do what they say, and the one fits the other.
RowSound(S, H, fl, row) ==
    /\ StartCheckpoint(row) # None => Covers(S, H, StartCheckpoint(row))
    /\ ValidProgress(row) => Continues(S, H, fl, row.progress)
    /\ ValidProgress(row) /\ StartCheckpoint(row) # None =>
           Linked(S, H, row.progress.window, StartCheckpoint(row))

-----------------------------------------------------------------------------
(* The invariant *)

\* On the list, of a day an initial window fell short of.
Excused(r) == \E i \in DOMAIN source : source[i].id = r /\ source[i].date \in skipped

HandledIds == {r \in RecordId : Handled(r) \/ Excused(r)}

\* A window from day w on takes in what may still be published, but for the days
\* an initial window fell short of.
Reaches(w) == \A d \in Day : today - Lookback <= d /\ d < w => d \in skipped

\* A slow command may still become a run.
Matches == /\ snapshot # None
           /\ snapshot.row.rule = collector.rule
           /\ snapshot.row.policy = collector.policy

\* No later than here the window of that run begins.
LateStart == IF ValidProgress(snapshot.row) THEN snapshot.row.progress.window
             ELSE IF StartCheckpoint(snapshot.row) # None
                  THEN StartCheckpoint(snapshot.row).watermark - Lookback
             ELSE snapshot.day - Lookback

Floor == IF Matches THEN LateStart ELSE NoDate

\* Newest first, nothing of tomorrow, no record twice.
ListOK ==
    /\ \A i, j \in DOMAIN source : i <= j => source[i].date >= source[j].date
    /\ \A i, j \in DOMAIN source : source[i].id = source[j].id => i = j
    /\ \A i \in DOMAIN source : source[i].id <= published /\ source[i].date <= today

\* Progress, checkpoint and a row, their types and bounds on day t with n records
\* published and k faults made.
ProgressOK(p, t, n) ==
    /\ p \in Progress
    /\ p.window <= t
    /\ p.watermark <= t
    /\ \A r \in p.processed \cup p.overlap \cup {p.anchor} : r <= n

CheckpointOK(ck, t) == ck \in Checkpoint /\ ck.watermark <= t

RowOK(row, t, n, k) ==
    /\ row \in Row /\ row.rule <= k + 1 /\ row.policy <= k + 1
    /\ row.progress # None => ProgressOK(row.progress, t, n) /\ row.progress.rule <= row.rule
    /\ row.checkpoint # None => CheckpointOK(row.checkpoint, t) /\ row.checkpoint.rule <= row.rule

RowsOK ==
    /\ RowOK(collector, today, published, faults)
    /\ snapshot # None =>
          /\ snapshot \in [day : Day, row : Row]
          /\ RowOK(snapshot.row, today, published, faults)
          /\ snapshot.day <= today
          /\ snapshot.row.rule <= collector.rule
          /\ snapshot.row.policy <= collector.policy
          /\ Matches => snapshot.row.observed = collector.observed

\* The rows of collector and snapshot do what they say, late records included, and
\* what the slow run does not reach is no loss to the current checkpoint.
RowsSound ==
    /\ RowSound(source, HandledIds, Floor, collector)
    /\ Matches => RowSound(source, HandledIds, Floor, snapshot.row)
    /\ Matches /\ CurrentCheckpoint # None =>
           Linked(source, HandledIds, LateStart, CurrentCheckpoint)
    /\ ValidProgress(collector) => Reaches(collector.progress.window)
    /\ Matches /\ ValidProgress(snapshot.row) => Reaches(snapshot.row.progress.window)

\* The run has the rule, and of its policy the rest, of the collector.
RunContext ==
    run.pc # "idle" => /\ run.rule = collector.rule
                       /\ run.policy <= collector.policy
                       /\ run.policy = collector.policy =>
                              run.observed = collector.observed

RunBounds ==
    run.pc # "idle" =>
        /\ run.window <= today /\ run.watermark <= today
        /\ run.checkpoint # None => CheckpointOK(run.checkpoint, today)
        /\ run.before # None => run.observed /\ ProgressOK(run.before, today, published)
                                             /\ run.before.rule <= run.rule
        /\ run.progress # None => /\ ProgressOK(run.progress, today, published)
                                  /\ run.progress.rule <= run.rule
        /\ run.retry => /\ run.pc # "listing" /\ run.watermark = NoDate
                        /\ ~run.complete
        /\ run.pc = "listing" => /\ run.stop = "none" /\ Len(run.found) < MaxItems
                                 /\ run.resume # None => run.resume = run.before

\* A run of the current policy that reads the list.
Reading == run.pc # "idle" /\ run.policy = collector.policy /\ ~run.retry

\* What it was given does what it says, and its window leaves nothing out.
RunFounded ==
    Reading =>
        /\ Reaches(run.window)
        /\ run.checkpoint # None =>
              /\ Covers(source, HandledIds, run.checkpoint)
              /\ Linked(source, HandledIds, run.window, run.checkpoint)
        /\ CurrentCheckpoint # None =>
              Linked(source, HandledIds, run.window, CurrentCheckpoint)
        /\ run.before # None =>
              /\ Continues(source, HandledIds, Floor, run.before)
              /\ run.before.window = run.window

\* The pages behind it are settled by what it has found, as far as it is past
\* the anchor it looks for.
Past(i) == \E j \in DOMAIN source : i <= j /\ source[j].id \in Anchors(run.resume)

ListingSound ==
    Reading /\ run.pc = "listing" =>
        /\ run.seeking # None => run.resume # None /\ run.seeking = run.resume.anchor
        /\ \A i \in DOMAIN source :
              i <= run.page * PageSize /\ (run.seeking # None => Past(i)) =>
                  Settled(source, HandledIds \cup ToSet(run.found), Floor,
                          run.window, run.watermark, i)

\* The list is read: all of it, or as far as the progress says.
ResultSound ==
    Reading /\ run.pc \in {"details", "finishing"} =>
        /\ Whole(run.stop) /\ (run.observed => run.complete) =>
              \A i \in DOMAIN source :
                  Settled(source, HandledIds \cup ToSet(run.found), Floor,
                          run.window, run.watermark, i)
        /\ run.progress # None =>
              /\ Continues(source, HandledIds \cup ToSet(run.found), Floor, run.progress)
              /\ run.progress.window = run.window
        /\ run.complete => run.progress = None /\ Whole(run.stop)
        /\ run.stop # "not_applicable"

CoverageInv ==
    /\ TypeOK     /\ ListOK    /\ RowsOK     /\ RowsSound
    /\ RunContext /\ RunBounds /\ RunFounded /\ ListingSound /\ ResultSound
-----------------------------------------------------------------------------
(* Places and pages *)

\* The largest of a set of days, none of which is past b.
LEMMA MaxFacts ==
    ASSUME NEW S \in SUBSET Int, S # {}, NEW b \in Int, \A x \in S : x <= b
    PROVE  Max(S) \in S /\ \A x \in S : Max(S) >= x
<1> DEFINE T == {n \in Nat : b - n \in S}
<1>1. T # {}
  <2>1. PICK x \in S : TRUE
    OBVIOUS
  <2>2. b - x \in Nat /\ b - (b - x) = x
    OBVIOUS
  <2> QED BY <2>1, <2>2
<1>2. PICK n \in T : \A m \in T : ~(<<m, n>> \in OpToRel(<, Nat))
  <2>1. T \subseteq Nat
    OBVIOUS
  <2> HIDE DEF T
  <2> QED BY <1>1, <2>1, NatLessThanWellFounded, WFMin
<1>3. \A m \in T : ~(m < n)
  BY <1>2 DEF OpToRel
<1>4. b - n \in S /\ \A x \in S : b - n >= x
  <2>1. ASSUME NEW x \in S PROVE b - n >= x
    <3>1. b - x \in T
      OBVIOUS
    <3> QED BY <3>1, <1>3
  <2> QED BY <2>1
<1>5. \E y \in S : \A x \in S : y >= x
  BY <1>4
<1> QED
  BY <1>5 DEF Max

\* How many elements of U stand at i or before it.
Rank(U, i) == Cardinality({j \in U : j <= i})

\* Ranks count the elements of a set of places from 1 on.
LEMMA RankFacts ==
    ASSUME NEW n \in Nat, NEW U \in SUBSET (1..n)
    PROVE  /\ IsFiniteSet(U) /\ Cardinality(U) \in 0..n
           /\ \A i \in U : Rank(U, i) \in 1..Cardinality(U)
           /\ \A i, j \in U : i < j => Rank(U, i) < Rank(U, j)
           /\ \A k \in 1..Cardinality(U) : \E i \in U : Rank(U, i) = k
<1>1. \A i \in U : i \in Int
  OBVIOUS
<1>2. IsFiniteSet(1..n) /\ Cardinality(1..n) = n
  BY FS_Interval
<1>3. IsFiniteSet(U) /\ Cardinality(U) \in 0..n
  <2>1. IsFiniteSet(U) /\ Cardinality(U) <= Cardinality(1..n)
    BY <1>2, FS_Subset
  <2>2. Cardinality(U) \in Nat
    BY <2>1, FS_CardinalityType
  <2> QED BY <1>2, <2>1, <2>2
<1>4. ASSUME NEW i \in U
      PROVE  /\ IsFiniteSet({j \in U : j <= i})
             /\ Rank(U, i) \in 1..Cardinality(U)
  <2> DEFINE B == {j \in U : j <= i}
  <2>1. B \in SUBSET U /\ i \in B
    BY <1>1
  <2>2. IsFiniteSet(B) /\ Cardinality(B) <= Cardinality(U) /\ Cardinality(B) \in Nat
    BY <2>1, <1>3, FS_Subset, FS_CardinalityType
  <2>3. Cardinality(B) # 0
    BY <2>1, <2>2, FS_EmptySet
  <2> QED BY <2>2, <2>3, <1>3 DEF Rank
<1>5. ASSUME NEW i \in U, NEW j \in U, i < j PROVE Rank(U, i) < Rank(U, j)
  <2> DEFINE B == {k \in U : k <= i}
             C == {k \in U : k <= j}
  <2>0. i \in Int /\ j \in Int
    BY <1>1
  <2>1. B \in SUBSET C /\ j \in C /\ j \notin B
    <3>1. \A k \in U : k <= i => k <= j
      BY <2>0, <1>1, <1>5
    <3>2. j <= j /\ ~(j <= i)
      BY <2>0, <1>5
    <3>3. j \in C /\ j \notin B
      BY <3>2
    <3>4. B \in SUBSET C
      BY <3>1
    <3> QED BY <3>3, <3>4
  <2>2. Rank(U, i) \in Nat /\ Rank(U, j) \in Nat
    <3>1. \A x \in 1..Cardinality(U) : x \in Nat
      BY <1>3
    <3> QED BY <3>1, <1>4
  <2>3. Cardinality(B) <= Cardinality(C) /\ Cardinality(B) # Cardinality(C)
    <3> HIDE DEF B, C
    <3>1. IsFiniteSet(C)
      BY <1>4 DEF C
    <3> QED BY <2>1, <3>1, FS_Subset
  <2>4. Cardinality(B) \in Int /\ Cardinality(C) \in Int
    BY <2>2 DEF Rank
  <2> QED BY <2>3, <2>4 DEF Rank
<1>6. ASSUME NEW k \in 1..Cardinality(U) PROVE \E i \in U : Rank(U, i) = k
  <2> DEFINE f == [i \in U |-> Rank(U, i)]
             N == 1..Cardinality(U)
  <2>1. f \in [U -> N]
    BY <1>4
  <2>2. ASSUME NEW a \in U, NEW c \in U, f[a] = f[c] PROVE a = c
    <3>1. a \in Int /\ c \in Int
      BY <1>1
    <3>2. Rank(U, a) = Rank(U, c)
      BY <2>2
    <3>3. Rank(U, a) \in 1..Cardinality(U)
      BY <1>4
    <3> QED BY <3>1, <3>2, <3>3, <1>3, <1>5
  <2>3. f \in Injection(U, N)
    BY <2>1, <2>2 DEF Injection, IsInjective
  <2>4. IsFiniteSet(N) /\ Cardinality(N) = Cardinality(U)
    BY <1>3, FS_Interval
  <2> HIDE DEF f, N
  <2>5. f \in Surjection(U, N)
    BY <2>3, <2>4, FS_Injection
  <2>6. \A t \in N : \E s \in U : f[s] = t
    BY <2>5 DEF Surjection
  <2> USE DEF f, N
  <2> QED BY <2>6
<1> QED
  BY <1>3, <1>4, <1>5, <1>6

\* The place in U that Picked takes its n-th element from.
PlaceOf(U, n) == CHOOSE i \in U : Rank(U, i) = n

\* Picked keeps the elements at the places in U, and their order.
LEMMA PickedFacts ==
    ASSUME NEW S, NEW s \in Seq(S), NEW U \in SUBSET DOMAIN s
    PROVE  /\ Picked(s, U) \in Seq(S)
           /\ Len(Picked(s, U)) = Cardinality(U) /\ Cardinality(U) \in Nat
           /\ DOMAIN Picked(s, U) = 1..Cardinality(U)
           /\ \A n \in 1..Cardinality(U) :
                 /\ PlaceOf(U, n) \in U
                 /\ Picked(s, U)[n] = s[PlaceOf(U, n)]
           /\ \A m, n \in 1..Cardinality(U) : m < n => PlaceOf(U, m) < PlaceOf(U, n)
           /\ \A i \in U : \E n \in 1..Cardinality(U) : PlaceOf(U, n) = i
<1> DEFINE C == Cardinality(U)
<1>1. Len(s) \in Nat /\ DOMAIN s = 1..Len(s) /\ U \in SUBSET (1..Len(s))
  BY LenProperties
<1>2. /\ C \in Nat
      /\ \A i \in U : Rank(U, i) \in 1..C
      /\ \A i, j \in U : i < j => Rank(U, i) < Rank(U, j)
      /\ \A k \in 1..C : \E i \in U : Rank(U, i) = k
  BY <1>1, RankFacts
<1>3. \A n \in 1..C : PlaceOf(U, n) \in U /\ Rank(U, PlaceOf(U, n)) = n
  BY <1>2 DEF PlaceOf
<1>4. Picked(s, U) = [n \in 1..C |-> s[PlaceOf(U, n)]]
  BY DEF Picked, PlaceOf, Rank
<1>5. \A n \in 1..C : s[PlaceOf(U, n)] \in S
  BY <1>1, <1>3, ElementOfSeq
<1>6. Picked(s, U) \in Seq(S) /\ Len(Picked(s, U)) = C /\ DOMAIN Picked(s, U) = 1..C
  <2>1. Picked(s, U) \in [1..C -> S]
    BY <1>4, <1>5
  <2> QED BY <2>1, <1>2
<1>7. ASSUME NEW m \in 1..C, NEW n \in 1..C, m < n
      PROVE  PlaceOf(U, m) < PlaceOf(U, n)
  <2>1. PlaceOf(U, m) \in Int /\ PlaceOf(U, n) \in Int
    BY <1>1, <1>3
  <2>2. CASE PlaceOf(U, n) < PlaceOf(U, m)
    BY <2>2, <1>2, <1>3, <1>7
  <2>3. CASE PlaceOf(U, n) = PlaceOf(U, m)
    BY <2>3, <1>3, <1>7
  <2> QED BY <2>1, <2>2, <2>3
<1>8. ASSUME NEW i \in U PROVE \E n \in 1..C : PlaceOf(U, n) = i
  <2>1. Rank(U, i) \in 1..C
    BY <1>2
  <2>2. PlaceOf(U, Rank(U, i)) \in U /\ Rank(U, PlaceOf(U, Rank(U, i))) = Rank(U, i)
    BY <2>1, <1>3
  <2>3. PlaceOf(U, Rank(U, i)) = i
    <3>1. i \in Int /\ PlaceOf(U, Rank(U, i)) \in Int
      BY <1>1, <2>2
    <3> QED BY <3>1, <2>1, <2>2, <1>2
  <2> QED BY <2>1, <2>3
<1> QED
  BY <1>2, <1>3, <1>4, <1>6, <1>7, <1>8

-----------------------------------------------------------------------------
(* Lists that move *)

\* List T is list S with records taken out, or with record new put in, dated day lo
\* or later if it is none of G: f tells where in S a record of T was, 0 of a new one.
\* What was one of H is one of G.
Follows(S, T, f, new, lo, H, G) ==
    /\ f \in [DOMAIN T -> {0} \cup DOMAIN S]
    /\ \A i \in DOMAIN T : f[i] = 0 => T[i].id = new /\ (new \in G \/ T[i].date >= lo)
    /\ \A i \in DOMAIN T : f[i] # 0 => T[i] = S[f[i]] /\ (T[i].id \in H => T[i].id \in G)
    /\ \A i, j \in DOMAIN T : i <= j /\ f[i] # 0 /\ f[j] # 0 => f[i] <= f[j]

\* Where the source shows its records.
LEMMA ListTypes ==
    ASSUME NEW S \in Seq(Record)
    PROVE  /\ Len(S) \in Nat /\ DOMAIN S = 1..Len(S)
           /\ \A i \in DOMAIN S : /\ S[i] \in Record /\ i \in Nat \ {0}
                                  /\ S[i].id \in RecordId /\ S[i].id \in Int
                                  /\ S[i].date \in Day /\ S[i].date \in Int
<1>1. Len(S) \in Nat /\ DOMAIN S = 1..Len(S)
  BY LenProperties
<1>2. ASSUME NEW i \in DOMAIN S
      PROVE  S[i] \in Record /\ i \in Nat \ {0}
  BY <1>1, ElementOfSeq
<1>3. \A r \in Record : r.id \in RecordId /\ r.date \in Day
  BY DEF Record
<1>4. RecordId \subseteq Int /\ Day \subseteq Int
  BY LimitAssumption DEF RecordId, Day
<1> QED
  BY <1>1, <1>2, <1>3, <1>4

\* A list that stays as it is.
LEMMA FollowsItself ==
    ASSUME NEW S \in Seq(Record), NEW new, NEW lo, NEW H, NEW G, H \subseteq G
    PROVE  Follows(S, S, [i \in DOMAIN S |-> i], new, lo, H, G)
<1>1. 0 \notin DOMAIN S
  BY ListTypes
<1> QED
  BY <1>1 DEF Follows

\* And one of which more is handled.
LEMMA FollowsMore ==
    ASSUME NEW S, NEW T, NEW f, NEW new, NEW lo, NEW H, NEW G, NEW F,
           Follows(S, T, f, new, lo, H, G)
    PROVE  Follows(S, T, f, new, lo, H \cup F, G \cup F)
BY DEF Follows

\* What was settled remains so, and a new record is young enough to be.
LEMMA SettledKept ==
    ASSUME NEW S \in Seq(Record), NEW T \in Seq(Record), NEW f, NEW new, NEW lo \in Int,
           NEW H, NEW G, Follows(S, T, f, new, lo, H, G),
           NEW fl \in Int, NEW gl \in Int, gl = NoDate \/ (gl <= fl /\ gl <= lo),
           NEW w, NEW wm \in Int, wm - Lookback <= lo,
           NEW i \in DOMAIN T, f[i] # 0 => Settled(S, H, fl, w, wm, f[i])
    PROVE  Settled(T, G, gl, w, wm, i)
<1>1. T[i].date \in Int
  BY ListTypes
<1>2. CASE f[i] = 0
  <2>1. T[i].id \in G \/ T[i].date >= lo
    BY <1>2 DEF Follows
  <2>2. T[i].date >= lo => T[i].date >= wm - Lookback /\ T[i].date >= gl
    BY <1>1, ListTypes, LimitAssumption DEF Day, NoDate
  <2> QED BY <2>1, <2>2 DEF Settled
<1>3. CASE f[i] # 0
  <2>1. /\ T[i] = S[f[i]] /\ (T[i].id \in H => T[i].id \in G)
        /\ Settled(S, H, fl, w, wm, f[i])
    BY <1>3 DEF Follows
  <2>2. T[i].date >= fl => T[i].date >= gl
    BY <1>1, ListTypes, LimitAssumption DEF Day, NoDate
  <2> QED BY <2>1, <2>2 DEF Settled
<1> QED
  BY <1>2, <1>3

\* So does what a checkpoint covers.
LEMMA CoversKept ==
    ASSUME NEW S \in Seq(Record), NEW T \in Seq(Record), NEW f, NEW new, NEW lo \in Int,
           NEW H, NEW G, Follows(S, T, f, new, lo, H, G),
           NEW ck, ck.watermark \in Int, ck.watermark - Lookback <= lo, Covers(S, H, ck)
    PROVE  Covers(T, G, ck)
<1> SUFFICES ASSUME NEW i \in DOMAIN T
             PROVE  \/ T[i].id \in G
                    \/ T[i].date < ck.since
                    \/ T[i].date >= ck.watermark - Lookback
  BY DEF Covers
<1>1. T[i].date \in Int
  BY ListTypes
<1>2. CASE f[i] = 0
  <2>1. T[i].id \in G \/ T[i].date >= lo
    BY <1>2 DEF Follows
  <2> QED BY <1>1, <2>1, LimitAssumption
<1>3. CASE f[i] # 0
  <2>1. T[i] = S[f[i]] /\ f[i] \in DOMAIN S /\ (T[i].id \in H => T[i].id \in G)
    BY <1>3 DEF Follows
  <2> QED BY <2>1 DEF Covers
<1> QED
  BY <1>2, <1>3

\* And what a window leaves to a checkpoint.
LEMMA LinkedKept ==
    ASSUME NEW S \in Seq(Record), NEW T \in Seq(Record), NEW f, NEW new, NEW lo \in Int,
           NEW H, NEW G, Follows(S, T, f, new, lo, H, G),
           NEW ck, NEW w \in Int, w <= lo, Linked(S, H, w, ck)
    PROVE  Linked(T, G, w, ck)
<1> SUFFICES ASSUME NEW i \in DOMAIN T, T[i].date < w
             PROVE  T[i].id \in G \/ T[i].date < ck.since
  BY DEF Linked
<1>1. T[i].date \in Int
  BY ListTypes
<1>2. CASE f[i] = 0
  <2>1. T[i].id \in G \/ T[i].date >= lo
    BY <1>2 DEF Follows
  <2> QED BY <1>1, <2>1
<1>3. CASE f[i] # 0
  <2>1. T[i] = S[f[i]] /\ f[i] \in DOMAIN S /\ (T[i].id \in H => T[i].id \in G)
    BY <1>3 DEF Follows
  <2> QED BY <2>1 DEF Linked
<1> QED
  BY <1>2, <1>3

\* And progress can be gone on from, if the new record is none of its own.
LEMMA ContinuesKept ==
    ASSUME NEW S \in Seq(Record), NEW T \in Seq(Record), NEW f, NEW new, NEW lo \in Int,
           NEW H, NEW G, Follows(S, T, f, new, lo, H, G),
           NEW fl \in Int, NEW gl \in Int, gl = NoDate \/ (gl <= fl /\ gl <= lo),
           NEW p \in Progress, p.watermark - Lookback <= lo,
           new \notin p.processed \cup p.overlap \cup {p.anchor},
           Continues(S, H, fl, p)
    PROVE  Continues(T, G, gl, p)
<1>1. /\ \A i \in DOMAIN T : i \in Int /\ (f[i] # 0 => f[i] \in DOMAIN S /\ f[i] \in Int)
      /\ p.watermark \in Int
  <2>1. p.watermark \in Day
    BY DEF Progress
  <2> QED BY <2>1, ListTypes, LimitAssumption DEF Follows, Day
<1>2. new \notin Anchors(p)
  BY DEF Anchors
<1>3. ASSUME NEW i \in DOMAIN T, T[i].id \in p.processed
      PROVE  T[i].id \in G \/ T[i].date < p.window
  <2>1. f[i] # 0
    BY <1>3 DEF Follows
  <2>2. T[i] = S[f[i]] /\ f[i] \in DOMAIN S /\ (T[i].id \in H => T[i].id \in G)
    BY <2>1 DEF Follows
  <2> QED BY <1>3, <2>2 DEF Continues
<1>4. ASSUME NEW i \in DOMAIN T, NEW j \in DOMAIN T, i <= j, T[j].id \in Anchors(p)
      PROVE  Settled(T, G, gl, p.window, p.watermark, i)
  <2>1. f[j] # 0
    BY <1>2, <1>4 DEF Follows
  <2>2. T[j] = S[f[j]] /\ f[j] \in DOMAIN S
    BY <2>1 DEF Follows
  <2>3. f[i] # 0 => Settled(S, H, fl, p.window, p.watermark, f[i])
    <3> SUFFICES ASSUME f[i] # 0 PROVE Settled(S, H, fl, p.window, p.watermark, f[i])
      OBVIOUS
    <3>1. f[i] <= f[j] /\ f[i] \in DOMAIN S
      BY <1>4, <2>1 DEF Follows
    <3> QED BY <1>4, <2>2, <3>1 DEF Continues
  <2> QED BY <1>1, <2>3, SettledKept
<1> QED
  BY <1>3, <1>4 DEF Continues

-----------------------------------------------------------------------------
(* Rows *)

\* What of the bounds survives time, records and faults.
LEMMA OKKept ==
    ASSUME NEW t \in Int, NEW t2 \in Int, NEW n \in Int, NEW n2 \in Int,
           NEW k \in Int, NEW k2 \in Int, t <= t2, n <= n2, k <= k2
    PROVE  /\ \A p : ProgressOK(p, t, n) => ProgressOK(p, t2, n2)
           /\ \A ck : CheckpointOK(ck, t) => CheckpointOK(ck, t2)
           /\ \A row : RowOK(row, t, n, k) => RowOK(row, t2, n2, k2)
<1>1. ASSUME NEW p, ProgressOK(p, t, n) PROVE ProgressOK(p, t2, n2)
  <2>1. p \in Progress /\ p.window <= t /\ p.watermark <= t
    BY <1>1 DEF ProgressOK
  <2>2. p.window \in Int /\ p.watermark \in Int
        /\ \A r \in p.processed \cup p.overlap \cup {p.anchor} : r \in Int /\ r <= n
    BY <1>1, <2>1, LimitAssumption DEF ProgressOK, Progress, RecordId, Day
  <2>3. p.window <= t2 /\ p.watermark <= t2
    BY <2>1, <2>2, LimitAssumption
  <2>4. \A r \in p.processed \cup p.overlap \cup {p.anchor} : r <= n2
    BY <2>2
  <2> QED BY <2>1, <2>3, <2>4 DEF ProgressOK
<1>2. ASSUME NEW ck, CheckpointOK(ck, t) PROVE CheckpointOK(ck, t2)
  <2>1. ck.watermark \in Int
    BY <1>2 DEF CheckpointOK, Checkpoint
  <2> QED BY <1>2, <2>1 DEF CheckpointOK
<1>3. ASSUME NEW row, RowOK(row, t, n, k) PROVE RowOK(row, t2, n2, k2)
  <2>1. row \in Row /\ row.rule \in Int /\ row.policy \in Int
    BY <1>3, LimitAssumption DEF RowOK, Row, Context
  <2>2. row.rule <= k2 + 1 /\ row.policy <= k2 + 1
    BY <1>3, <2>1 DEF RowOK
  <2> QED BY <1>1, <1>2, <1>3, <2>1, <2>2 DEF RowOK
<1> QED
  BY <1>1, <1>2, <1>3

\* What a row that is well formed gives a run.
LEMMA RowFacts ==
    ASSUME NEW row, NEW t \in Int, NEW n \in Int, NEW k \in Int, RowOK(row, t, n, k)
    PROVE  /\ StartCheckpoint(row) \in Checkpoint \cup {None}
           /\ StartCheckpoint(row) # None =>
                 /\ StartCheckpoint(row) = row.checkpoint
                 /\ CheckpointOK(StartCheckpoint(row), t)
                 /\ StartCheckpoint(row).watermark \in Int
                 /\ StartCheckpoint(row).watermark <= t
           /\ ValidProgress(row) =>
                 /\ row.progress \in Progress /\ ProgressOK(row.progress, t, n)
                 /\ row.progress.window \in Int /\ row.progress.watermark \in Int
                 /\ row.progress.window <= t /\ row.progress.watermark <= t
                 /\ \A r \in row.progress.processed \cup row.progress.overlap
                                \cup {row.progress.anchor} : r <= n
<1>1. StartCheckpoint(row) # None => StartCheckpoint(row) = row.checkpoint
  BY DEF StartCheckpoint
<1>2. \A ck : CheckpointOK(ck, t) => /\ ck \in Checkpoint /\ ck.watermark \in Int
                                     /\ ck.watermark <= t
  BY DEF CheckpointOK, Checkpoint
<1>3. \A p : ProgressOK(p, t, n) =>
          /\ p \in Progress /\ p.window \in Int /\ p.watermark \in Int
          /\ p.window <= t /\ p.watermark <= t
          /\ \A r \in p.processed \cup p.overlap \cup {p.anchor} : r <= n
  BY LimitAssumption DEF ProgressOK, Progress, Day
<1>4. /\ row.progress # None => ProgressOK(row.progress, t, n)
      /\ row.checkpoint # None => CheckpointOK(row.checkpoint, t)
  BY DEF RowOK
<1>5. ValidProgress(row) => row.progress # None
  BY DEF ValidProgress
<1> QED
  BY <1>1, <1>2, <1>3, <1>4, <1>5

\* A sound row remains sound.
LEMMA RowKept ==
    ASSUME NEW S \in Seq(Record), NEW T \in Seq(Record), NEW f, NEW new \in Int,
           NEW lo \in Int, NEW H, NEW G, Follows(S, T, f, new, lo, H, G),
           NEW fl \in Int, NEW gl \in Int, gl = NoDate \/ (gl <= fl /\ gl <= lo),
           NEW row, NEW t \in Int, NEW n \in Int, NEW k \in Int, RowOK(row, t, n, k),
           n < new, t - Lookback <= lo, RowSound(S, H, fl, row),
           ValidProgress(row) => row.progress.window <= lo
    PROVE  RowSound(T, G, gl, row)
<1>1. ASSUME StartCheckpoint(row) # None
      PROVE  Covers(T, G, StartCheckpoint(row))
  <2>1. /\ StartCheckpoint(row).watermark \in Int
        /\ StartCheckpoint(row).watermark - Lookback <= lo
    BY <1>1, RowFacts, LimitAssumption
  <2>2. Covers(S, H, StartCheckpoint(row))
    BY <1>1 DEF RowSound
  <2> QED BY <2>1, <2>2, CoversKept
<1>2. ASSUME ValidProgress(row)
      PROVE  /\ Continues(T, G, gl, row.progress)
             /\ row.progress.window \in Int /\ row.progress.window <= lo
  <2>1. /\ row.progress \in Progress
        /\ row.progress.window \in Int /\ row.progress.watermark \in Int
        /\ row.progress.window <= t /\ row.progress.watermark <= t
        /\ \A r \in row.progress.processed \cup row.progress.overlap
                       \cup {row.progress.anchor} : r <= n
    BY <1>2, RowFacts
  <2>2. /\ row.progress.window <= lo
        /\ row.progress.watermark - Lookback <= lo
    BY <1>2, <2>1, LimitAssumption
  <2>3. new \notin row.progress.processed \cup row.progress.overlap
                      \cup {row.progress.anchor}
    <3>1. ~(new <= n)
      OBVIOUS
    <3> QED BY ONLY <2>1, <3>1
  <2>4. Continues(S, H, fl, row.progress)
    BY <1>2 DEF RowSound
  <2>5. Continues(T, G, gl, row.progress)
    BY <2>1, <2>2, <2>3, <2>4, ContinuesKept
  <2> QED BY <2>1, <2>2, <2>5
<1>3. ASSUME ValidProgress(row), StartCheckpoint(row) # None
      PROVE  Linked(T, G, row.progress.window, StartCheckpoint(row))
  <2>1. Linked(S, H, row.progress.window, StartCheckpoint(row))
    BY <1>3 DEF RowSound
  <2> QED BY <1>2, <1>3, <2>1, LinkedKept
<1> QED
  BY <1>1, <1>2, <1>3 DEF RowSound

-----------------------------------------------------------------------------
(* The calendar and the source *)

\* The variables as numbers and lists.
LEMMA StateTypes ==
    ASSUME TypeOK
    PROVE  /\ today \in Nat /\ published \in Nat /\ faults \in Nat
           /\ source \in Seq(Record)
           /\ Len(source) \in Nat /\ DOMAIN source = 1..Len(source)
           /\ collector \in Row
           /\ collector.rule \in Nat \ {0} /\ collector.policy \in Nat \ {0}
           /\ run.window \in Int /\ run.watermark \in Nat
           /\ run.policy \in Nat \ {0}
<1>1. run \in RunType /\ collector \in Row
  BY DEF TypeOK
<1>2. /\ collector.rule \in Nat \ {0} /\ collector.policy \in Nat \ {0}
      /\ run.window \in Int /\ run.watermark \in Nat /\ run.policy \in Nat \ {0}
  BY <1>1, LimitAssumption DEF RunType, Row, Context, Day
<1> QED
  BY <1>1, <1>2, ListTypes, LimitAssumption DEF TypeOK, Day

\* Nothing is left to a late run that would be published only now.
LEMMA FloorFacts ==
    ASSUME TypeOK, RowsOK, RowsSound
    PROVE  /\ Floor \in Int
           /\ Floor = NoDate \/ (Floor <= today /\ Reaches(Floor))
           /\ Matches => /\ Floor = LateStart /\ LateStart \in Int
                         /\ LateStart <= today /\ Reaches(LateStart)
<1>1. /\ today \in Int /\ published \in Int /\ faults \in Int
      /\ \A d \in Day : d \in Int
  BY StateTypes, LimitAssumption DEF Day
<1>2. ASSUME Matches
      PROVE  LateStart \in Int /\ LateStart <= today /\ Reaches(LateStart)
  <2>1. /\ RowOK(snapshot.row, today, published, faults)
        /\ snapshot.day \in Int /\ snapshot.day <= today
    BY <1>2, LimitAssumption DEF RowsOK, Matches, Day
  <2>2. CASE ValidProgress(snapshot.row)
    BY <1>1, <1>2, <2>1, <2>2, RowFacts DEF LateStart, RowsSound
  <2>3. CASE ~ValidProgress(snapshot.row)
    <3>1. LateStart \in Int /\ LateStart <= today - Lookback
      BY <1>1, <2>1, <2>3, RowFacts, LimitAssumption DEF LateStart
    <3>2. LateStart <= today
      BY <3>1, <1>1, LimitAssumption
    <3>3. \A d \in Day : ~(today - Lookback <= d /\ d < LateStart)
      BY <3>1, <1>1, LimitAssumption
    <3> QED BY <3>1, <3>2, <3>3 DEF Reaches
  <2> QED BY <2>2, <2>3
<1> QED
  BY <1>2 DEF Floor, NoDate

\* What is handled or excused stays so on a list that changes, as long as the rest does.
LEMMA StillHandled ==
    ASSUME ListOK, UNCHANGED <<collector, kept, skipped>>,
           NEW i \in DOMAIN source', NEW j \in DOMAIN source, source'[i] = source[j],
           source[j].id \in HandledIds
    PROVE  source'[i].id \in HandledIds'
<1>1. CASE Handled(source[j].id)
  BY <1>1 DEF HandledIds, Handled
<1>2. CASE Excused(source[j].id)
  <2>1. source[j].date \in skipped
    BY <1>2 DEF Excused, ListOK
  <2>2. source'[i].date \in skipped'
    BY <2>1
  <2> QED BY <2>2 DEF HandledIds, Excused
<1> QED
  BY <1>1, <1>2 DEF HandledIds

\* A window that reaches far enough does so on a later day.
LEMMA ReachesKept ==
    ASSUME today \in Int, today' \in Int, today <= today', skipped' = skipped,
           NEW w, Reaches(w)
    PROVE  \A d \in Day : today' - Lookback <= d /\ d < w => d \in skipped'
<1>1. \A d \in Day : d \in Int
  BY LimitAssumption DEF Day
<1>2. \A d \in Day : today' - Lookback <= d => today - Lookback <= d
  BY <1>1, LimitAssumption
<1> QED
  BY <1>2 DEF Reaches

\* What only the calendar and the list change leaves the rest as good as it was.
LEMMA EnvironmentStep ==
    ASSUME CoverageInv, UNCHANGED <<collector, snapshot, run, kept, backlog, skipped>>,
           TypeOK', today <= today', published <= published', faults <= faults',
           NEW f, NEW new \in Int, published < new,
           NEW lo \in Int, today - Lookback <= lo,
           \A w \in Int : w <= today /\ Reaches(w) => w <= lo,
           Follows(source, source', f, new, lo, HandledIds, HandledIds'),
           run.pc = "listing" => \A i \in DOMAIN source' : f[i] <= i
    PROVE  /\ RowsOK' /\ RowsSound' /\ RunContext' /\ RunBounds' /\ RunFounded'
           /\ ListingSound' /\ ResultSound'
<1> USE DEF CoverageInv
<1>1. /\ today \in Int /\ today' \in Int /\ published \in Int /\ published' \in Int
      /\ faults \in Int /\ faults' \in Int
      /\ source \in Seq(Record) /\ source' \in Seq(Record)
      /\ run.window \in Int /\ run.watermark \in Int
  BY StateTypes, LimitAssumption DEF TypeOK, Day
<1>2. /\ Floor' = Floor /\ Matches' = Matches
      /\ LateStart' = LateStart /\ CurrentCheckpoint' = CurrentCheckpoint
      /\ Reading' = Reading
  BY DEF Floor, Matches, LateStart, CurrentCheckpoint, Reading
<1>3. /\ Floor \in Int /\ (Floor = NoDate \/ (Floor <= Floor /\ Floor <= lo))
      /\ Matches => LateStart \in Int /\ LateStart <= lo
  BY <1>1, FloorFacts
<1>4. RowsOK'
  <2>1. /\ RowOK(collector, today, published, faults)
               => RowOK(collector, today', published', faults')
        /\ RowOK(snapshot.row, today, published, faults)
               => RowOK(snapshot.row, today', published', faults')
    BY <1>1, OKKept
  <2>2. snapshot # None => snapshot.day <= today'
    <3>1. snapshot # None => snapshot.day \in Int /\ snapshot.day <= today
      BY LimitAssumption DEF RowsOK, Day
    <3> QED BY <3>1, <1>1
  <2> QED BY <1>2, <2>1, <2>2 DEF RowsOK
<1>5. RowsSound'
  <2>1. RowSound(source', HandledIds', Floor, collector)
    <3>1. RowOK(collector, today, published, faults)
          /\ RowSound(source, HandledIds, Floor, collector)
      BY DEF RowsOK, RowsSound
    <3>2. ValidProgress(collector) => collector.progress.window <= lo
      BY <3>1, <1>1, RowFacts DEF RowsSound
    <3> QED BY <3>1, <3>2, <1>1, <1>3, RowKept
  <2>2. ASSUME Matches PROVE RowSound(source', HandledIds', Floor, snapshot.row)
    <3>1. RowOK(snapshot.row, today, published, faults)
          /\ RowSound(source, HandledIds, Floor, snapshot.row)
      BY <2>2 DEF RowsOK, RowsSound, Matches
    <3>2. ValidProgress(snapshot.row) => snapshot.row.progress.window <= lo
      BY <3>1, <2>2, <1>1, RowFacts DEF RowsSound
    <3> QED BY <3>1, <3>2, <1>1, <1>3, RowKept
  <2>3. Matches /\ CurrentCheckpoint # None =>
            Linked(source', HandledIds', LateStart, CurrentCheckpoint)
    BY <1>1, <1>3, LinkedKept DEF RowsSound
  <2>4. /\ ValidProgress(collector) => Reaches(collector.progress.window)'
        /\ Matches /\ ValidProgress(snapshot.row) => Reaches(snapshot.row.progress.window)'
    BY <1>1, ReachesKept DEF RowsSound, Reaches
  <2> QED BY <1>2, <2>1, <2>2, <2>3, <2>4 DEF RowsSound
<1>6. RunContext'
  BY DEF RunContext
<1>7. RunBounds'
  <2>1. /\ \A p : ProgressOK(p, today, published) => ProgressOK(p, today', published')
        /\ \A ck : CheckpointOK(ck, today) => CheckpointOK(ck, today')
    BY <1>1, OKKept
  <2>2. run.pc # "idle" => run.window <= today' /\ run.watermark <= today'
    BY <1>1 DEF RunBounds
  <2> QED BY <2>1, <2>2 DEF RunBounds
<1>8. ASSUME Reading
      PROVE  /\ run.window <= lo /\ run.watermark - Lookback <= lo
             /\ run.checkpoint # None => /\ run.checkpoint.watermark \in Int
                                         /\ run.checkpoint.watermark - Lookback <= lo
             /\ \A p \in {run.before, run.progress} : p # None =>
                   /\ p \in Progress /\ p.watermark - Lookback <= lo
                   /\ new \notin p.processed \cup p.overlap \cup {p.anchor}
  <2>1. run.pc # "idle"
    BY <1>8 DEF Reading
  <2>2. run.window <= lo /\ run.watermark - Lookback <= lo
    <3>1. run.window <= today /\ run.watermark <= today
      BY <2>1 DEF RunBounds
    <3>2. Reaches(run.window)
      BY <1>8 DEF RunFounded
    <3> QED BY <1>1, <3>1, <3>2, LimitAssumption
  <2>3. run.checkpoint # None => /\ run.checkpoint.watermark \in Int
                                 /\ run.checkpoint.watermark - Lookback <= lo
    BY <1>1, <2>1, LimitAssumption DEF RunBounds, CheckpointOK, Checkpoint
  <2>4. ASSUME NEW p \in {run.before, run.progress}, p # None
        PROVE  /\ p \in Progress /\ p.watermark - Lookback <= lo
               /\ new \notin p.processed \cup p.overlap \cup {p.anchor}
    <3>1. ProgressOK(p, today, published)
      BY <2>1, <2>4 DEF RunBounds
    <3>2. p \in Progress /\ p.watermark \in Int
      BY <3>1, LimitAssumption DEF ProgressOK, Progress, Day
    <3>3. \A r \in p.processed \cup p.overlap \cup {p.anchor} : r <= published
      BY <3>1 DEF ProgressOK
    <3>4. p.watermark - Lookback <= lo
      BY <3>1, <3>2, <1>1, LimitAssumption DEF ProgressOK
    <3>5. new \notin p.processed \cup p.overlap \cup {p.anchor}
      <4>1. ~(new <= published)
        BY <1>1
      <4> QED BY ONLY <3>3, <4>1
    <3> QED BY ONLY <3>2, <3>4, <3>5
  <2> QED BY <2>2, <2>3, <2>4
<1>9. RunFounded'
  <2> SUFFICES ASSUME Reading PROVE RunFounded'
    BY <1>2 DEF RunFounded
  <2>1. run.checkpoint # None =>
           /\ Covers(source', HandledIds', run.checkpoint)
           /\ Linked(source', HandledIds', run.window, run.checkpoint)
    BY <1>1, <1>8, CoversKept, LinkedKept DEF RunFounded
  <2>2. CurrentCheckpoint # None =>
           Linked(source', HandledIds', run.window, CurrentCheckpoint)
    BY <1>1, <1>8, LinkedKept DEF RunFounded
  <2>3. ASSUME run.before # None
        PROVE  /\ Continues(source', HandledIds', Floor, run.before)
               /\ run.before.window = run.window
    <3>1. /\ Continues(source, HandledIds, Floor, run.before)
          /\ run.before.window = run.window
      BY <2>3 DEF RunFounded
    <3> QED BY <2>3, <3>1, <1>1, <1>3, <1>8, ContinuesKept
  <2>4. Reaches(run.window)'
    BY <1>1, ReachesKept DEF RunFounded, Reaches
  <2> QED BY <1>2, <2>1, <2>2, <2>3, <2>4 DEF RunFounded
<1>10. ListingSound'
  <2> SUFFICES ASSUME Reading, run.pc = "listing" PROVE ListingSound'
    BY <1>2 DEF ListingSound
  <2> DEFINE H == HandledIds \cup ToSet(run.found)
             G == HandledIds' \cup ToSet(run.found)
  <2>0. Follows(source, source', f, new, lo, H, G)
    BY FollowsMore
  <2>1. /\ run.resume # None => run.resume = run.before
        /\ run.seeking # None => run.resume # None /\ run.seeking = run.resume.anchor
    BY DEF ListingSound, RunBounds
  <2>2. ASSUME NEW i \in DOMAIN source', i <= run.page * PageSize,
               run.seeking # None => Past(i)'
        PROVE  Settled(source', G, Floor, run.window, run.watermark, i)
    <3>1. ASSUME f[i] # 0
          PROVE  Settled(source, H, Floor, run.window, run.watermark, f[i])
      <4>1. f[i] \in DOMAIN source /\ f[i] <= i
        BY <3>1 DEF Follows
      <4>2. f[i] <= run.page * PageSize
        <5>1. run.page \in Nat /\ i \in Int /\ f[i] \in Int
          BY <4>1, <1>1, ListTypes DEF TypeOK, RunType
        <5>2. run.page * PageSize \in Int
          BY <5>1, LimitAssumption
        <5> QED BY <4>1, <5>1, <5>2, <2>2
      <4>3. run.seeking # None => Past(f[i])
        <5> SUFFICES ASSUME run.seeking # None PROVE Past(f[i])
          OBVIOUS
        <5>1. PICK j \in DOMAIN source' : i <= j /\ source'[j].id \in Anchors(run.resume)
          BY <2>2 DEF Past
        <5>2. run.before # None /\ run.resume = run.before
          BY <2>1
        <5>3. new \notin Anchors(run.resume)
          BY <5>2, <1>8 DEF Anchors
        <5>4. f[j] # 0
          BY <5>1, <5>3 DEF Follows
        <5>5. source'[j] = source[f[j]] /\ f[i] <= f[j] /\ f[j] \in DOMAIN source
          BY <3>1, <5>1, <5>4 DEF Follows
        <5> QED BY <5>1, <5>5 DEF Past
      <4> QED BY <4>1, <4>2, <4>3 DEF ListingSound
    <3> HIDE DEF H, G
    <3> QED BY <2>0, <3>1, <1>1, <1>3, <1>8, SettledKept
  <2> QED BY <1>2, <2>1, <2>2 DEF ListingSound
<1>11. ResultSound'
  <2> SUFFICES ASSUME Reading, run.pc \in {"details", "finishing"} PROVE ResultSound'
    BY <1>2 DEF ResultSound
  <2> DEFINE H == HandledIds \cup ToSet(run.found)
             G == HandledIds' \cup ToSet(run.found)
  <2>0. Follows(source, source', f, new, lo, H, G)
    BY FollowsMore
  <2>1. ASSUME Whole(run.stop), run.observed => run.complete, NEW i \in DOMAIN source'
        PROVE  Settled(source', G, Floor, run.window, run.watermark, i)
    <3>1. f[i] # 0 => f[i] \in DOMAIN source
      BY DEF Follows
    <3>2. f[i] # 0 => Settled(source, H, Floor, run.window, run.watermark, f[i])
      BY <2>1, <3>1 DEF ResultSound
    <3> HIDE DEF H, G
    <3> QED BY <2>0, <3>2, <1>1, <1>3, <1>8, SettledKept
  <2>2. ASSUME run.progress # None
        PROVE  Continues(source', G, Floor, run.progress)
    <3>1. Continues(source, H, Floor, run.progress)
      BY <2>2 DEF ResultSound
    <3> HIDE DEF H, G
    <3> QED BY <2>0, <2>2, <3>1, <1>1, <1>3, <1>8, ContinuesKept
  <2> QED BY <1>2, <2>1, <2>2 DEF ResultSound
<1> QED
  BY <1>4, <1>5, <1>6, <1>7, <1>9, <1>10, <1>11

\* Places that include all before them are the first ones.
LEMMA FirstPlaces ==
    ASSUME NEW n \in Nat, NEW U \in SUBSET (1..n),
           \A i \in 1..n : \A j \in U : i <= j => i \in U
    PROVE  Cardinality(U) \in 0..n /\ U = 1..Cardinality(U)
<1>1. CASE U = {}
  BY <1>1, FS_EmptySet
<1>2. CASE U # {}
  <2>1. U \in SUBSET Int /\ (\A x \in U : x <= n) /\ n \in Int
    OBVIOUS
  <2>2. Max(U) \in U /\ \A x \in U : Max(U) >= x
    BY ONLY <1>2, <2>1, MaxFacts
  <2>4. Max(U) \in 1..n
    BY <2>2
  <2>3. U = 1..Max(U)
    <3>1. \A x \in U : x \in 1..Max(U)
      BY <2>2, <2>4
    <3>2. \A x \in 1..Max(U) : x \in 1..n /\ x <= Max(U)
      BY <2>4
    <3>3. \A x \in 1..Max(U) : x \in U
      BY <3>2, <2>2
    <3> QED BY <3>1, <3>3
  <2>5. Cardinality(1..Max(U)) = Max(U)
    BY <2>4, FS_Interval
  <2> QED BY <2>3, <2>4, <2>5
<1> QED
  BY <1>1, <1>2

\* A record put in behind the first n.
LEMMA InsertFacts ==
    ASSUME NEW S \in Seq(Record), NEW r \in Record, NEW n \in 0..Len(S)
    PROVE  /\ InsertAt(S, n + 1, r) \in Seq(Record)
           /\ Len(InsertAt(S, n + 1, r)) = Len(S) + 1
           /\ DOMAIN InsertAt(S, n + 1, r) = 1..(Len(S) + 1)
           /\ \A i \in 1..(Len(S) + 1) :
                 InsertAt(S, n + 1, r)[i] = IF i <= n THEN S[i]
                                            ELSE IF i = n + 1 THEN r ELSE S[i - 1]
<1> DEFINE A == SubSeq(S, 1, n)
           B == SubSeq(S, n + 1, Len(S))
<1>1. Len(S) \in Nat /\ n \in Nat
  BY ListTypes
<1>2. /\ A \in Seq(Record) /\ Len(A) = n /\ \A i \in 1..n : A[i] = S[i]
  <2>1. \A i \in 1..n : S[i] \in Record
    BY <1>1, ElementOfSeq
  <2> QED BY <1>1, <2>1, SubSeqProperties
<1>3. /\ B \in Seq(Record) /\ Len(B) = Len(S) - n
      /\ \A i \in 1..(Len(S) - n) : B[i] = S[n + i]
  <2>1. \A i \in (n + 1)..Len(S) : S[i] \in Record
    BY <1>1, ElementOfSeq
  <2> QED BY <1>1, <2>1, SubSeqProperties
<1> HIDE DEF A, B
<1>4. <<r>> \in Seq(Record) /\ Len(<<r>>) = 1 /\ <<r>>[1] = r
  OBVIOUS
<1>5. /\ A \o <<r>> \in Seq(Record) /\ Len(A \o <<r>>) = n + 1
      /\ \A i \in 1..(n + 1) : (A \o <<r>>)[i] = IF i <= n THEN S[i] ELSE r
  BY <1>1, <1>2, <1>4, ConcatProperties
<1>6. /\ A \o <<r>> \o B \in Seq(Record) /\ Len(A \o <<r>> \o B) = Len(S) + 1
      /\ \A i \in 1..(Len(S) + 1) :
            (A \o <<r>> \o B)[i] = IF i <= n + 1 THEN (A \o <<r>>)[i] ELSE B[i - (n + 1)]
  <2> DEFINE D == A \o <<r>>
  <2>1. D \in Seq(Record) /\ Len(D) = n + 1
    BY <1>5
  <2> HIDE DEF D
  <2>2. Len(D) + Len(B) = Len(S) + 1
    BY <2>1, <1>1, <1>3
  <2>3. /\ D \o B \in Seq(Record) /\ Len(D \o B) = Len(D) + Len(B)
        /\ \A i \in 1..(Len(D) + Len(B)) :
              (D \o B)[i] = IF i <= Len(D) THEN D[i] ELSE B[i - Len(D)]
    BY <2>1, <1>3, ConcatProperties
  <2>4. /\ D \o B \in Seq(Record) /\ Len(D \o B) = Len(S) + 1
        /\ \A i \in 1..(Len(S) + 1) :
              (D \o B)[i] = IF i <= n + 1 THEN D[i] ELSE B[i - (n + 1)]
    BY <2>1, <2>2, <2>3
  <2> QED BY <2>4 DEF D
<1>7. InsertAt(S, n + 1, r) = A \o <<r>> \o B
  <2>1. (n + 1) - 1 = n
    BY <1>1
  <2> QED BY <2>1 DEF InsertAt, A, B
<1>8. ASSUME NEW i \in 1..(Len(S) + 1)
      PROVE  (A \o <<r>> \o B)[i] = IF i <= n THEN S[i]
                                    ELSE IF i = n + 1 THEN r ELSE S[i - 1]
  <2>1. CASE i <= n + 1
    BY <1>1, <1>5, <1>6, <2>1
  <2>2. CASE ~(i <= n + 1)
    <3>1. i - (n + 1) \in 1..(Len(S) - n) /\ n + (i - (n + 1)) = i - 1
      BY <1>1, <2>2
    <3>2. B[i - (n + 1)] = S[i - 1]
      BY <3>1, <1>3
    <3>3. (A \o <<r>> \o B)[i] = B[i - (n + 1)]
      BY <1>6, <2>2
    <3>4. ~(i <= n) /\ i # n + 1
      BY <1>1, <2>2
    <3> QED BY <3>2, <3>3, <3>4
  <2> QED BY <1>1, <2>1, <2>2
<1> DEFINE W == A \o <<r>> \o B
<1>9. W \in Seq(Record) /\ Len(W) = Len(S) + 1 /\ InsertAt(S, n + 1, r) = W
  BY <1>6, <1>7
<1>10. \A i \in 1..(Len(S) + 1) :
          W[i] = IF i <= n THEN S[i] ELSE IF i = n + 1 THEN r ELSE S[i - 1]
  BY <1>8
<1> HIDE DEF W
<1>11. DOMAIN W = 1..(Len(S) + 1)
  BY <1>9, LenProperties
<1> QED
  BY <1>9, <1>10, <1>11

LEMMA PublishStep ==
    ASSUME CoverageInv, Publish
    PROVE  CoverageInv'
<1> USE DEF CoverageInv
<1>1. /\ today \in Int /\ published \in Nat /\ source \in Seq(Record)
      /\ Len(source) \in Nat /\ DOMAIN source = 1..Len(source)
      /\ published < MaxPublished /\ published' = published + 1
      /\ UNCHANGED <<today, collector, snapshot, run, kept, backlog, faults, skipped>>
  BY StateTypes, LimitAssumption DEF Publish
<1>2. PICK day \in {d \in Day \ {NoDate} : d \in (today - Lookback)..today} :
         LET newer == Cardinality({i \in DOMAIN source : source[i].date > day})
         IN  source' = InsertAt(source, newer + 1, [id |-> published + 1, date |-> day])
  BY DEF Publish
<1> DEFINE U == {i \in DOMAIN source : source[i].date > day}
           n == Cardinality(U)
           r == [id |-> published + 1, date |-> day]
           lo == IF day \in skipped THEN today ELSE day
<1>3. source' = InsertAt(source, n + 1, r)
  BY <1>2
<1>4. day \in Int /\ day \in Day /\ today - Lookback <= day /\ day <= today
  BY <1>1, LimitAssumption DEF Day
<1>5. r \in Record /\ r.id = published + 1 /\ r.date = day
  BY <1>1, <1>4, LimitAssumption DEF Record, RecordId
<1>6. \A i \in DOMAIN source : source[i].date \in Int /\ source[i].id \in Int
  BY <1>1, ListTypes
<1>7. n \in 0..Len(source) /\ U = 1..n
  <2>1. ASSUME NEW i \in 1..Len(source), NEW j \in U, i <= j PROVE i \in U
    <3>1. source[i].date >= source[j].date
      BY <1>1, <2>1 DEF ListOK
    <3> QED BY <1>1, <1>4, <1>6, <3>1
  <2>2. U \in SUBSET (1..Len(source))
    BY <1>1
  <2> HIDE DEF U
  <2> QED BY <1>1, <2>1, <2>2, FirstPlaces
<1>8. \A i \in 1..Len(source) : /\ i <= n => source[i].date > day
                                /\ i > n => source[i].date <= day
  <2>1. \A i \in 1..Len(source) : i \in U <=> i <= n
    <3> HIDE DEF U, n
    <3> QED BY <1>7, <1>1
  <2>2. \A i \in 1..Len(source) : i \in U <=> source[i].date > day
    BY <1>1
  <2>3. \A i \in 1..Len(source) : i \in Int /\ source[i].date \in Int
    BY <1>1, <1>6
  <2>4. n \in Int
    <3> HIDE DEF n
    <3> QED BY <1>7, <1>1
  <2> HIDE DEF U, n
  <2> QED BY <2>1, <2>2, <2>3, <2>4, <1>4
<1> HIDE DEF U, n, r, lo
<1>9. /\ source' \in Seq(Record) /\ Len(source') = Len(source) + 1
      /\ DOMAIN source' = 1..(Len(source) + 1)
      /\ \A i \in 1..(Len(source) + 1) :
            source'[i] = IF i <= n THEN source[i] ELSE IF i = n + 1 THEN r ELSE source[i - 1]
  <2>1. source \in Seq(Record) /\ r \in Record /\ n \in 0..Len(source)
    BY <1>1, <1>5, <1>7
  <2>2. /\ InsertAt(source, n + 1, r) \in Seq(Record)
        /\ Len(InsertAt(source, n + 1, r)) = Len(source) + 1
        /\ DOMAIN InsertAt(source, n + 1, r) = 1..(Len(source) + 1)
        /\ \A i \in 1..(Len(source) + 1) :
              InsertAt(source, n + 1, r)[i] =
                 IF i <= n THEN source[i] ELSE IF i = n + 1 THEN r ELSE source[i - 1]
    BY ONLY <2>1, InsertFacts
  <2> QED BY ONLY <2>2, <1>3
<1> DEFINE f == [i \in DOMAIN source' |->
                   IF i <= n THEN i ELSE IF i = n + 1 THEN 0 ELSE i - 1]
<1>10. /\ Follows(source, source', f, published + 1, lo, HandledIds, HandledIds')
       /\ \A i \in DOMAIN source' : f[i] <= i
  <2>1. \A i \in DOMAIN source' : /\ f[i] \in {0} \cup DOMAIN source /\ f[i] <= i
                                  /\ f[i] = 0 <=> i = n + 1
    BY <1>1, <1>7, <1>9
  <2>2. \A i \in DOMAIN source' :
           f[i] # 0 => /\ source'[i] = source[f[i]]
                       /\ source'[i].id \in HandledIds => source'[i].id \in HandledIds'
    <3>1. \A i \in DOMAIN source' : f[i] # 0 => source'[i] = source[f[i]]
      BY <1>1, <1>7, <1>9
    <3> HIDE DEF f
    <3>2. ASSUME NEW i \in DOMAIN source', f[i] # 0, source'[i].id \in HandledIds
          PROVE  source'[i].id \in HandledIds'
      <4>1. f[i] \in DOMAIN source /\ source'[i] = source[f[i]]
        BY <3>1, <3>2, <2>1
      <4>2. source[f[i]].id \in HandledIds
        BY <3>2, <4>1
      <4> QED BY <4>1, <4>2, <1>1, StillHandled
    <3> QED BY <3>1, <3>2
  <2>3. \A i \in DOMAIN source' :
           f[i] = 0 => /\ source'[i].id = published + 1
                       /\ published + 1 \in HandledIds' \/ source'[i].date >= lo
    <3>1. source'[n + 1] = r /\ n + 1 \in DOMAIN source'
      BY <1>1, <1>7, <1>9
    <3>2. day \in skipped => published + 1 \in HandledIds'
      <4>1. published + 1 \in RecordId
        BY <1>5 DEF Record
      <4>2. day \in skipped => \E i \in DOMAIN source' : /\ source'[i].id = published + 1
                                                         /\ source'[i].date \in skipped'
        BY <3>1, <1>1, <1>5
      <4> QED BY <4>1, <4>2 DEF HandledIds, Excused
    <3>3. r.date >= day /\ r.id = published + 1
      BY <1>4, <1>5
    <3>4. \A i \in DOMAIN source' : f[i] = 0 => source'[i] = r
      BY <2>1, <3>1
    <3> QED BY ONLY <3>2, <3>3, <3>4 DEF lo
  <2>4. \A i, j \in DOMAIN source' : i <= j /\ f[i] # 0 /\ f[j] # 0 => f[i] <= f[j]
    BY <1>1, <1>7, <1>9
  <2>5. f \in [DOMAIN source' -> {0} \cup DOMAIN source]
    BY <2>1
  <2>6. \A i \in DOMAIN source' : f[i] <= i
    BY ONLY <2>1
  <2> HIDE DEF f
  <2> QED BY ONLY <2>2, <2>3, <2>4, <2>5, <2>6 DEF Follows
<1>11. TypeOK'
  BY <1>1, <1>9, LimitAssumption DEF TypeOK
<1>12. ListOK'
  <2>0. ASSUME NEW i \in DOMAIN source'
        PROVE  \/ f[i] # 0 /\ f[i] \in DOMAIN source /\ source'[i] = source[f[i]]
               \/ f[i] = 0 /\ source'[i] = r
    <3>1. CASE f[i] # 0
      <4>1. f[i] \in {0} \cup DOMAIN source
        BY <1>10 DEF Follows
      <4>2. source'[i] = source[f[i]]
        BY <3>1, <1>10 DEF Follows
      <4> QED BY ONLY <3>1, <4>1, <4>2
    <3>2. CASE f[i] = 0
      <4>1. i \in 1..(Len(source) + 1)
        BY <1>9
      <4>2. i = n + 1
        BY <1>1, <1>7, <3>2, <4>1
      <4> QED BY <3>2, <4>1, <4>2, <1>1, <1>7, <1>9
    <3> QED BY <3>1, <3>2
  <2>1. ASSUME NEW i \in DOMAIN source', NEW j \in DOMAIN source', i <= j
        PROVE  source'[i].date >= source'[j].date
    <3> USE <1>1, <1>4, <1>5, <1>6, <1>7, <1>8, <1>9, <2>1
    <3>1. CASE j <= n
      BY <3>1 DEF ListOK
    <3>2. CASE j = n + 1
      <4>1. source'[j].date = day
        BY <3>2
      <4>2. CASE i = j
        BY <4>1, <4>2
      <4>3. CASE i # j
        <5>1. i <= n /\ i \in 1..Len(source) /\ source'[i] = source[i]
          BY <3>2, <4>3
        <5> QED BY <4>1, <5>1
      <4> QED BY <4>2, <4>3
    <3>3. CASE j > n + 1
      <4>1. source'[j] = source[j - 1] /\ j - 1 \in DOMAIN source /\ j - 1 > n
        BY <3>3
      <4>2. CASE i <= n
        <5>1. source'[i] = source[i] /\ i \in DOMAIN source /\ i <= j - 1
          BY <3>3, <4>2
        <5> QED BY <4>1, <5>1 DEF ListOK
      <4>3. CASE i = n + 1
        <5>1. source'[i].date = day
          BY <4>3
        <5>2. source[j - 1].date <= day /\ source[j - 1].date \in Int
          BY <4>1
        <5> QED BY <4>1, <5>1, <5>2
      <4>4. CASE i > n + 1
        <5>1. source'[i] = source[i - 1] /\ i - 1 \in DOMAIN source /\ i - 1 <= j - 1
          BY <4>4
        <5> QED BY <4>1, <5>1 DEF ListOK
      <4> QED BY <4>2, <4>3, <4>4
    <3> QED BY <3>1, <3>2, <3>3
  <2>2. ASSUME NEW i \in DOMAIN source', NEW j \in DOMAIN source',
               source'[i].id = source'[j].id
        PROVE  i = j
    <3>1. ASSUME NEW k \in DOMAIN source PROVE source[k].id # r.id
      <4>1. source[k].id <= published
        BY DEF ListOK
      <4> QED BY <4>1, <1>1, <1>5, <1>6
    <3>2. CASE f[i] = 0 /\ f[j] = 0
      BY <3>2, <1>1, <1>7, <1>9
    <3>3. CASE f[i] # 0 /\ f[j] # 0
      <4>1. f[i] \in DOMAIN source /\ f[j] \in DOMAIN source
            /\ source[f[i]].id = source[f[j]].id
        BY <3>3, <2>0, <2>2
      <4>2. f[i] = f[j]
        BY <4>1 DEF ListOK
      <4> QED BY <4>2, <3>3, <1>1, <1>7, <1>9
    <3>4. CASE f[i] # 0 /\ f[j] = 0
      BY <3>1, <3>4, <2>0, <2>2
    <3>5. CASE f[i] = 0 /\ f[j] # 0
      BY <3>1, <3>5, <2>0, <2>2
    <3> QED BY <3>2, <3>3, <3>4, <3>5
  <2>3. ASSUME NEW i \in DOMAIN source'
        PROVE  source'[i].id <= published' /\ source'[i].date <= today'
    <3>1. \A k \in DOMAIN source : source[k].id <= published /\ source[k].date <= today
      BY DEF ListOK
    <3>2. \A k \in DOMAIN source : source[k].id <= published + 1
      BY <3>1, <1>1, <1>6
    <3> HIDE DEF f
    <3> QED BY <2>0, <3>1, <3>2, <1>1, <1>4, <1>5
  <2> QED BY <2>1, <2>2, <2>3 DEF ListOK
<1>13. /\ lo \in Int /\ today - Lookback <= lo
       /\ published < published + 1 /\ published + 1 \in Int
       /\ today <= today' /\ published <= published' /\ faults <= faults'
  BY <1>1, <1>4, StateTypes, LimitAssumption DEF lo
<1>16. \A w \in Int : w <= today /\ Reaches(w) => w <= lo
  <2> SUFFICES ASSUME NEW w \in Int, w <= today, Reaches(w) PROVE w <= lo
    OBVIOUS
  <2>1. ~(day < w) \/ day \in skipped
    BY <1>4 DEF Reaches
  <2> QED BY <2>1, <1>4 DEF lo
<1> HIDE DEF f
<1>14. /\ RowsOK' /\ RowsSound' /\ RunContext' /\ RunBounds' /\ RunFounded'
       /\ ListingSound' /\ ResultSound'
  BY <1>1, <1>10, <1>11, <1>13, <1>16, EnvironmentStep
<1> QED
  BY <1>11, <1>12, <1>14

LEMMA NextDayStep ==
    ASSUME CoverageInv, NextDay
    PROVE  CoverageInv'
<1> USE DEF CoverageInv
<1>1. /\ today \in Int /\ published \in Int /\ faults \in Int /\ source \in Seq(Record)
      /\ today' = today + 1 /\ today + 1 \in Day
      /\ UNCHANGED <<source, published, collector, snapshot, run, kept, backlog, faults,
                     skipped>>
  BY StateTypes, LimitAssumption DEF NextDay, Day
<1>2. TypeOK'
  BY <1>1 DEF TypeOK
<1>3. ListOK'
  <2>1. \A i \in DOMAIN source : source[i].date \in Int
    BY <1>1, ListTypes
  <2>2. \A i \in DOMAIN source : source[i].date <= today + 1
    BY <2>1, <1>1 DEF ListOK
  <2> QED BY <1>1, <2>2 DEF ListOK
<1> DEFINE f == [i \in DOMAIN source |-> i]
<1>4. Follows(source, source', f, published + 1, today, HandledIds, HandledIds')
  <2>1. HandledIds' = HandledIds
    BY <1>1 DEF HandledIds, Handled, Excused
  <2> HIDE DEF f
  <2> QED BY <1>1, <2>1, FollowsItself DEF f
<1>5. \A i \in DOMAIN source' : f[i] <= i
  BY <1>1, ListTypes
<1>6. /\ today - Lookback <= today /\ published + 1 \in Int
      /\ published < published + 1
      /\ today <= today' /\ published <= published' /\ faults <= faults'
  BY <1>1, LimitAssumption
<1> HIDE DEF f
<1>7. /\ RowsOK' /\ RowsSound' /\ RunContext' /\ RunBounds' /\ RunFounded'
      /\ ListingSound' /\ ResultSound'
  BY <1>1, <1>2, <1>4, <1>5, <1>6, EnvironmentStep
<1> QED
  BY <1>2, <1>3, <1>7

LEMMA WithdrawStep ==
    ASSUME CoverageInv, Withdraw
    PROVE  CoverageInv'
<1> USE DEF CoverageInv
<1>1. /\ today \in Int /\ published \in Int /\ faults \in Nat /\ source \in Seq(Record)
      /\ run.pc = "idle" /\ faults < MaxFaults /\ faults' = faults + 1
      /\ UNCHANGED <<today, published, collector, snapshot, run, kept, backlog, skipped>>
  BY StateTypes DEF Withdraw
<1>2. PICK gone : source' = Picked(source, {i \in DOMAIN source : source[i].id \notin gone})
  BY DEF Withdraw
<1> DEFINE U == {i \in DOMAIN source : source[i].id \notin gone}
           C == Cardinality(U)
           f == [n \in DOMAIN source' |-> PlaceOf(U, n)]
<1>3. U \in SUBSET DOMAIN source /\ source' = Picked(source, U)
  BY <1>2
<1> HIDE DEF U
<1>4. /\ source' \in Seq(Record) /\ C \in Nat /\ DOMAIN source' = 1..C
      /\ \A n \in 1..C : PlaceOf(U, n) \in U /\ source'[n] = source[PlaceOf(U, n)]
      /\ \A m, n \in 1..C : m < n => PlaceOf(U, m) < PlaceOf(U, n)
  BY <1>1, <1>3, PickedFacts
<1> HIDE DEF C
<1>5. \A n \in 1..C : PlaceOf(U, n) \in DOMAIN source /\ PlaceOf(U, n) \in Nat \ {0}
  BY <1>1, <1>3, <1>4, ListTypes
<1>6. \A m, n \in 1..C : m <= n => PlaceOf(U, m) <= PlaceOf(U, n)
  <2> SUFFICES ASSUME NEW m \in 1..C, NEW n \in 1..C, m <= n
               PROVE  PlaceOf(U, m) <= PlaceOf(U, n)
    OBVIOUS
  <2>1. m = n \/ m < n
    BY <1>4
  <2> QED BY <2>1, <1>4, <1>5
<1>7. Follows(source, source', f, published + 1, today, HandledIds, HandledIds')
  <2>1. \A n \in DOMAIN source' : source'[n].id \in HandledIds => source'[n].id \in HandledIds'
    BY <1>1, <1>4, <1>5, StillHandled
  <2> QED BY <1>4, <1>5, <1>6, <2>1 DEF Follows
<1>8. TypeOK'
  BY <1>1, <1>4, LimitAssumption DEF TypeOK
<1>9. ListOK'
  <2>1. \A i, j \in DOMAIN source' : source'[i].id = source'[j].id => i = j
    <3> SUFFICES ASSUME NEW i \in 1..C, NEW j \in 1..C, source'[i].id = source'[j].id
                 PROVE  i = j
      BY <1>4
    <3>1. PlaceOf(U, i) = PlaceOf(U, j)
      BY <1>4, <1>5 DEF ListOK
    <3>2. i < j \/ j < i \/ i = j
      BY <1>4
    <3> QED BY <3>1, <3>2, <1>4, <1>5
  <2>2. \A i, j \in DOMAIN source' : i <= j => source'[i].date >= source'[j].date
    BY <1>4, <1>5, <1>6 DEF ListOK
  <2>3. \A i \in DOMAIN source' : source'[i].id <= published /\ source'[i].date <= today
    BY <1>4, <1>5 DEF ListOK
  <2> QED BY <1>1, <2>1, <2>2, <2>3 DEF ListOK
<1>10. /\ today - Lookback <= today /\ published + 1 \in Int
       /\ published < published + 1
       /\ today <= today' /\ published <= published' /\ faults <= faults'
  BY <1>1, LimitAssumption
<1> HIDE DEF f
<1>11. /\ RowsOK' /\ RowsSound' /\ RunContext' /\ RunBounds' /\ RunFounded'
       /\ ListingSound' /\ ResultSound'
  BY <1>1, <1>7, <1>8, <1>10, EnvironmentStep
<1> QED
  BY <1>8, <1>9, <1>11

-----------------------------------------------------------------------------
(* The control plane *)

LEMMA PublishRuleStep ==
    ASSUME CoverageInv, PublishRule
    PROVE  CoverageInv'
<1> USE DEF CoverageInv
<1>1. /\ run.pc = "idle" /\ run' = run
      /\ faults \in Nat /\ faults < MaxFaults /\ faults' = faults + 1
      /\ collector \in Row /\ collector.rule \in Nat \ {0}
      /\ collector' = [collector EXCEPT !.rule = @ + 1]
      /\ today \in Int /\ published \in Int
      /\ UNCHANGED <<today, source, published, snapshot, kept, backlog, skipped>>
  BY StateTypes DEF PublishRule, Environment
<1>2. /\ collector'.rule = collector.rule + 1 /\ collector'.policy = collector.policy
      /\ collector'.observed = collector.observed
      /\ collector'.progress = collector.progress
      /\ collector'.checkpoint = collector.checkpoint
      /\ collector.rule + 1 <= faults' + 1
      /\ collector' \in Row
  <2>1. collector.rule <= faults + 1
    BY DEF RowsOK, RowOK
  <2>2. collector.rule + 1 \in Context
    BY <1>1, <2>1, LimitAssumption DEF Context
  <2> QED BY <1>1, <2>1, <2>2 DEF Row
<1>3. TypeOK' /\ ListOK'
  <2>1. faults' \in 0..MaxFaults
    BY <1>1, LimitAssumption
  <2>2. ListOK'
    BY <1>1 DEF ListOK
  <2>3. TypeOK'
    BY <1>1, <1>2, <2>1 DEF TypeOK
  <2> QED BY <2>2, <2>3
<1>4. ~Matches'
  <2>1. snapshot # None => snapshot.row.rule <= collector.rule /\ snapshot.row.rule \in Int
    BY LimitAssumption DEF RowsOK, Row, Context
  <2> QED BY <1>1, <1>2, <2>1 DEF Matches
<1>5. \A p : ProgressOK(p, today, published) => p.rule \in Int
  BY LimitAssumption DEF ProgressOK, Progress, Context
<1>6. \A ck : CheckpointOK(ck, today) => ck.rule \in Int
  BY LimitAssumption DEF CheckpointOK, Checkpoint, Context
<1>7. RowsOK'
  <2>1. RowOK(collector', today, published, faults')
    <3>1. collector.progress # None => /\ ProgressOK(collector.progress, today, published)
                                       /\ collector.progress.rule <= collector.rule + 1
      BY <1>1, <1>5 DEF RowsOK, RowOK
    <3>2. collector.checkpoint # None => /\ CheckpointOK(collector.checkpoint, today)
                                         /\ collector.checkpoint.rule <= collector.rule + 1
      BY <1>1, <1>6 DEF RowsOK, RowOK
    <3>3. collector'.policy <= faults' + 1
      <4>1. collector.policy \in Int /\ collector.policy <= faults + 1
        BY StateTypes DEF RowsOK, RowOK
      <4> QED BY <4>1, <1>1, <1>2
    <3> QED BY <1>2, <3>1, <3>2, <3>3 DEF RowOK
  <2>2. ASSUME snapshot # None
        PROVE  /\ RowOK(snapshot.row, today, published, faults')
               /\ snapshot.row.rule <= collector.rule + 1
               /\ snapshot.row.policy <= collector'.policy
    <3>1. /\ RowOK(snapshot.row, today, published, faults)
          /\ snapshot.row.rule \in Int /\ snapshot.row.rule <= collector.rule
          /\ snapshot.row.policy <= collector.policy
      BY <2>2, LimitAssumption DEF RowsOK, Row, Context
    <3>2. RowOK(snapshot.row, today, published, faults')
      <4>1. today <= today /\ published <= published /\ faults <= faults' /\ faults' \in Int
            /\ faults \in Int
        BY <1>1
      <4> QED BY <1>1, <3>1, <4>1, OKKept
    <3> QED BY <3>1, <3>2, <1>1, <1>2
  <2> QED BY <1>1, <1>2, <1>4, <2>1, <2>2 DEF RowsOK
<1>8. RowsSound'
  <2>1. ~ValidProgress(collector')
    <3>1. collector.progress # None => /\ collector.progress.rule \in Int
                                       /\ collector.progress.rule <= collector.rule
      BY <1>5 DEF RowsOK, RowOK
    <3> QED BY <3>1, <1>1, <1>2 DEF ValidProgress
  <2>2. ASSUME StartCheckpoint(collector') # None
        PROVE  Covers(source, HandledIds', StartCheckpoint(collector'))
    <3>1. ~collector.observed
      <4>1. collector.checkpoint # None => /\ collector.checkpoint.rule \in Int
                                           /\ collector.checkpoint.rule <= collector.rule
        BY <1>6 DEF RowsOK, RowOK
      <4>2. collector.observed \in BOOLEAN
        BY <1>1 DEF Row
      <4> QED BY <4>1, <4>2, <2>2, <1>1, <1>2 DEF StartCheckpoint
    <3>2. StartCheckpoint(collector') = StartCheckpoint(collector)
      BY <3>1, <1>2 DEF StartCheckpoint
    <3>3. HandledIds' = HandledIds
      BY <3>1, <1>1, <1>2 DEF HandledIds, Handled, Excused
    <3> QED BY <2>2, <3>2, <3>3 DEF RowsSound, RowSound
  <2>3. RowSound(source', HandledIds', Floor', collector')
    BY <1>1, <2>1, <2>2 DEF RowSound
  <2> QED BY <1>4, <2>1, <2>3 DEF RowsSound
<1>9. run'.pc = "idle"
  BY <1>1
<1>10. /\ RunContext' /\ RunBounds' /\ RunFounded' /\ ListingSound' /\ ResultSound'
  BY <1>9 DEF RunContext, RunBounds, RunFounded, ListingSound, ResultSound, Reading
<1> QED
  BY <1>3, <1>7, <1>8, <1>10

LEMMA ChangePolicyStep ==
    ASSUME CoverageInv, ChangePolicy
    PROVE  CoverageInv'
<1> USE DEF CoverageInv
<1>1. /\ run' = run
      /\ faults \in Nat /\ faults < MaxFaults /\ faults' = faults + 1
      /\ collector \in Row /\ collector.rule \in Nat \ {0} /\ collector.policy \in Nat \ {0}
      /\ today \in Int /\ published \in Int
      /\ UNCHANGED <<today, source, published, snapshot, kept, backlog>> /\ skipped' = {}
  BY StateTypes DEF ChangePolicy, Environment
<1>2. PICK observed \in BOOLEAN :
        collector' = [collector EXCEPT !.policy = @ + 1, !.observed = observed,
                                       !.progress = None, !.checkpoint = None]
  BY DEF ChangePolicy
<1>3. /\ collector'.rule = collector.rule /\ collector'.policy = collector.policy + 1
      /\ collector'.progress = None /\ collector'.checkpoint = None
      /\ collector.policy + 1 <= faults' + 1
      /\ collector' \in Row
  <2>1. collector.policy <= faults + 1
    BY DEF RowsOK, RowOK
  <2>2. collector.policy + 1 \in Context /\ collector.policy + 1 <= faults' + 1
    BY <1>1, <2>1, LimitAssumption DEF Context
  <2>3. collector' = [rule |-> collector.rule, policy |-> collector.policy + 1,
                      observed |-> observed, progress |-> None, checkpoint |-> None]
    BY <1>1, <1>2 DEF Row
  <2>4. collector.rule \in Context
    BY <1>1 DEF Row
  <2>5. collector' \in Row
    BY <2>2, <2>3, <2>4 DEF Row
  <2> QED BY <2>2, <2>3, <2>5
<1>4. TypeOK' /\ ListOK'
  BY <1>1, <1>3, LimitAssumption DEF TypeOK, ListOK
<1>5. ~Matches'
  <2>1. snapshot # None => snapshot.row.policy <= collector.policy /\ snapshot.row.policy \in Int
    BY LimitAssumption DEF RowsOK, Row, Context
  <2> QED BY <1>1, <1>3, <2>1 DEF Matches
<1>6. RowsOK'
  <2>1. RowOK(collector', today, published, faults')
    <3>1. collector.rule <= faults' + 1
      BY <1>1 DEF RowsOK, RowOK
    <3> QED BY <1>3, <3>1 DEF RowOK
  <2>2. ASSUME snapshot # None
        PROVE  /\ RowOK(snapshot.row, today, published, faults')
               /\ snapshot.row.rule <= collector'.rule
               /\ snapshot.row.policy <= collector.policy + 1
    <3>1. /\ RowOK(snapshot.row, today, published, faults)
          /\ snapshot.row.policy \in Int /\ snapshot.row.rule <= collector.rule
          /\ snapshot.row.policy <= collector.policy
      BY <2>2, LimitAssumption DEF RowsOK, Row, Context
    <3>2. RowOK(snapshot.row, today, published, faults')
      <4>1. today <= today /\ published <= published /\ faults <= faults' /\ faults' \in Int
            /\ faults \in Int
        BY <1>1
      <4> QED BY <1>1, <3>1, <4>1, OKKept
    <3> QED BY <3>1, <3>2, <1>1, <1>3
  <2> QED BY <1>1, <1>3, <1>5, <2>1, <2>2 DEF RowsOK
<1>7. RowsSound'
  <2>1. ~ValidProgress(collector') /\ StartCheckpoint(collector') = None
    BY <1>3 DEF ValidProgress, StartCheckpoint
  <2> QED BY <2>1, <1>5 DEF RowsSound, RowSound
<1>8. run.pc # "idle" => /\ run.policy \in Int /\ run.policy <= collector.policy
                         /\ run.policy <= collector'.policy /\ run.policy # collector'.policy
  BY <1>1, <1>3, StateTypes DEF RunContext
<1>9. ~Reading'
  BY <1>1, <1>8 DEF Reading
<1>10. RunContext' /\ RunBounds' /\ RunFounded' /\ ListingSound' /\ ResultSound'
  BY <1>1, <1>3, <1>8, <1>9 DEF RunContext, RunBounds, RunFounded, ListingSound, ResultSound
<1> QED
  BY <1>4, <1>6, <1>7, <1>10

LEMMA ReadCollectorStep ==
    ASSUME CoverageInv, ReadCollector
    PROVE  CoverageInv'
<1> USE DEF CoverageInv
<1>1. /\ run.pc = "idle" /\ run' = run /\ snapshot = None
      /\ faults \in Nat /\ faults < MaxFaults /\ faults' = faults + 1
      /\ collector \in Row /\ collector' = collector
      /\ snapshot' = [day |-> today, row |-> collector]
      /\ today \in Int /\ published \in Int /\ source \in Seq(Record)
      /\ UNCHANGED <<today, source, published, kept, backlog, skipped>>
  BY StateTypes DEF ReadCollector, Environment
<1>2. snapshot'.row = collector /\ snapshot'.day = today
      /\ snapshot' \in [day : Day, row : Row]
  BY <1>1 DEF TypeOK
<1>3. TypeOK' /\ ListOK'
  BY <1>1, <1>2, LimitAssumption DEF TypeOK, ListOK
<1>4. HandledIds' = HandledIds /\ CurrentCheckpoint' = CurrentCheckpoint
      /\ Floor = NoDate
  BY <1>1 DEF HandledIds, Handled, Excused, CurrentCheckpoint, Floor, Matches
<1>5. RowOK(collector, today, published, faults)
  BY DEF RowsOK
<1>6. RowsOK'
  <2>1. RowOK(collector, today, published, faults')
    BY <1>1, <1>5, OKKept
  <2>2. today <= today /\ collector.rule <= collector.rule /\ collector.policy <= collector.policy
    BY StateTypes
  <2> QED BY <1>1, <1>2, <2>1, <2>2 DEF RowsOK
<1>7. LateStart' = IF ValidProgress(collector) THEN collector.progress.window
                   ELSE IF StartCheckpoint(collector) # None
                        THEN StartCheckpoint(collector).watermark - Lookback
                   ELSE today - Lookback
  BY <1>2 DEF LateStart
<1>8. RowSound(source, HandledIds, Floor', collector)
  <2>1. RowSound(source, HandledIds, NoDate, collector)
    BY <1>4 DEF RowsSound
  <2>2. ASSUME ValidProgress(collector)
        PROVE  Continues(source, HandledIds, Floor', collector.progress)
    <3>1. Continues(source, HandledIds, NoDate, collector.progress)
      BY <2>1, <2>2 DEF RowSound
    <3>2. Floor' = collector.progress.window \/ Floor' = NoDate
      BY <1>7, <2>2 DEF Floor
    <3>3. collector.progress.window \in Int
      BY <1>1, <1>5, <2>2, RowFacts, StateTypes
    <3>4. \A i \in DOMAIN source : source[i].date \in Int
      BY <1>1, ListTypes
    <3>5. \A i \in DOMAIN source :
             Settled(source, HandledIds, NoDate, collector.progress.window,
                     collector.progress.watermark, i) =>
             Settled(source, HandledIds, Floor', collector.progress.window,
                     collector.progress.watermark, i)
      BY <3>2, <3>3, <3>4 DEF Settled
    <3> QED BY <3>1, <3>5 DEF Continues
  <2> QED BY <2>1, <2>2 DEF RowSound
<1>9. CurrentCheckpoint # None => Linked(source, HandledIds, LateStart', CurrentCheckpoint)
  <2> SUFFICES ASSUME CurrentCheckpoint # None
               PROVE  Linked(source, HandledIds, LateStart', CurrentCheckpoint)
    OBVIOUS
  <2>1. RowSound(source, HandledIds, NoDate, collector)
    BY <1>4 DEF RowsSound
  <2>2. CASE ValidProgress(collector)
    BY <2>1, <2>2, <1>7 DEF RowSound, CurrentCheckpoint
  <2>3. CASE ~ValidProgress(collector)
    <3>1. LateStart' = CurrentCheckpoint.watermark - Lookback
      BY <2>3, <1>7 DEF CurrentCheckpoint
    <3>2. CurrentCheckpoint.watermark \in Int
      BY <1>1, <1>5, RowFacts, StateTypes DEF CurrentCheckpoint
    <3>3. \A i \in DOMAIN source : source[i].date \in Int
      BY <1>1, ListTypes
    <3>4. Covers(source, HandledIds, CurrentCheckpoint)
      BY <2>1 DEF RowSound, CurrentCheckpoint
    <3> QED BY <3>1, <3>2, <3>3, <3>4, LimitAssumption DEF Covers, Linked
  <2> QED BY <2>2, <2>3
<1>10. RowsSound'
  <2>1. /\ ValidProgress(collector) => Reaches(collector.progress.window)'
        /\ Matches' /\ ValidProgress(snapshot.row)' => Reaches(snapshot.row.progress.window)'
    BY <1>1, <1>2 DEF RowsSound, Reaches, ValidProgress
  <2> QED BY <1>1, <1>2, <1>4, <1>8, <1>9, <2>1 DEF RowsSound
<1>11. run'.pc = "idle"
  BY <1>1
<1>12. RunContext' /\ RunBounds' /\ RunFounded' /\ ListingSound' /\ ResultSound'
  BY <1>11 DEF RunContext, RunBounds, RunFounded, ListingSound, ResultSound, Reading
<1> QED
  BY <1>3, <1>6, <1>10, <1>12

-----------------------------------------------------------------------------
(* Runs that are created *)

\* What a run begins with.
LEMMA NewRunFields ==
    ASSUME NEW row, NEW retry \in BOOLEAN, NEW batch
    PROVE  LET r == NewRun(row, retry, batch)
               before == IF ValidProgress(row) THEN row.progress ELSE None
               resume == IF retry THEN None ELSE before
           IN  r = [pc |-> IF retry THEN "details" ELSE "listing", retry |-> retry,
                    rule |-> row.rule, policy |-> row.policy, observed |-> row.observed,
                    window |-> WindowStart(row, retry), checkpoint |-> StartCheckpoint(row),
                    before |-> before, resume |-> resume,
                    seeking |-> IF resume = None THEN None ELSE resume.anchor,
                    page |-> IF resume = None THEN 0 ELSE resume.page, read |-> 0,
                    pagesSeen |-> {}, found |-> batch,
                    older |-> IF resume = None THEN 0 ELSE resume.older,
                    watermark |-> IF resume = None THEN NoDate ELSE resume.watermark,
                    oldest |-> NoDate,
                    stop |-> IF retry THEN "not_applicable" ELSE "none",
                    progress |-> None, complete |-> FALSE]
BY DEF NewRun, ResumedPage

\* A run that begins has the type of a run, and keeps to the bounds.
LEMMA NewRunOK ==
    ASSUME TypeOK, NEW row, RowOK(row, today, published, faults),
           NEW retry \in BOOLEAN, NEW batch \in Seq(RecordId),
           NEW r, r = NewRun(row, retry, batch)
    PROVE  /\ r \in RunType
           /\ r.window \in Int /\ r.window <= today
           /\ r.watermark \in Int /\ r.watermark <= today
<1> DEFINE before == IF ValidProgress(row) THEN row.progress ELSE None
           resume == IF retry THEN None ELSE before
<1>1. /\ today \in Nat /\ published \in Int /\ faults \in Int /\ row \in Row
      /\ row.rule \in Context /\ row.policy \in Context /\ row.observed \in BOOLEAN
  BY StateTypes DEF RowOK, Row
<1>2. /\ StartCheckpoint(row) \in Checkpoint \cup {None}
      /\ StartCheckpoint(row) # None => /\ StartCheckpoint(row).watermark \in Int
                                        /\ StartCheckpoint(row).watermark <= today
  BY <1>1, RowFacts
<1>3. /\ before \in Progress \cup {None} /\ resume \in Progress \cup {None}
      /\ ValidProgress(row) => /\ row.progress.window \in Int
                               /\ row.progress.window <= today
      /\ resume # None => resume.watermark \in Day /\ resume.watermark <= today
  <2>1. ValidProgress(row) => /\ row.progress \in Progress
                              /\ row.progress.window \in Int
                              /\ row.progress.window <= today
                              /\ row.progress.watermark <= today
    BY <1>1, RowFacts
  <2>2. ValidProgress(row) => row.progress.watermark \in Day
    BY <2>1 DEF Progress
  <2> QED BY <2>1, <2>2
<1>4. WindowStart(row, retry) \in Int /\ WindowStart(row, retry) <= today
  BY <1>1, <1>2, <1>3, LimitAssumption DEF WindowStart
<1>5. \A p \in Progress : p.anchor \in RecordId /\ p.page \in Nat /\ p.older \in Nat
  BY DEF Progress
<1> HIDE DEF before, resume
<1>6. r = [pc |-> IF retry THEN "details" ELSE "listing", retry |-> retry,
           rule |-> row.rule, policy |-> row.policy, observed |-> row.observed,
           window |-> WindowStart(row, retry), checkpoint |-> StartCheckpoint(row),
           before |-> before, resume |-> resume,
           seeking |-> IF resume = None THEN None ELSE resume.anchor,
           page |-> IF resume = None THEN 0 ELSE resume.page, read |-> 0,
           pagesSeen |-> {}, found |-> batch,
           older |-> IF resume = None THEN 0 ELSE resume.older,
           watermark |-> IF resume = None THEN NoDate ELSE resume.watermark,
           oldest |-> NoDate,
           stop |-> IF retry THEN "not_applicable" ELSE "none",
           progress |-> None, complete |-> FALSE]
  BY NewRunFields DEF before, resume
<1>7. r.window = WindowStart(row, retry)
      /\ r.watermark = IF resume = None THEN NoDate ELSE resume.watermark
  BY <1>6
<1>8. r.watermark \in Int /\ r.watermark <= today /\ r.watermark \in Day
  BY <1>1, <1>3, <1>7, LimitAssumption DEF NoDate, Day
<1>9. /\ r.seeking \in RecordId \cup {None} /\ r.page \in Nat /\ r.older \in Nat
      /\ r.read \in 0..MaxPages /\ r.pagesSeen \in SUBSET Seq(RecordId)
      /\ r.oldest \in Day /\ r.pc \in {"idle", "listing", "details", "finishing"}
      /\ r.stop \in StopReason
  BY <1>3, <1>5, <1>6, LimitAssumption DEF Day, NoDate, StopReason
<1>10. r \in RunType
  BY <1>1, <1>2, <1>3, <1>4, <1>6, <1>8, <1>9 DEF RunType
<1> QED
  BY <1>4, <1>7, <1>8, <1>10

\* More that is handled settles no less.
LEMMA MoreSettles ==
    ASSUME NEW S, NEW H, NEW G, H \subseteq G, NEW fl, NEW p, Continues(S, H, fl, p)
    PROVE  Continues(S, G, fl, p)
BY DEF Continues, Settled

\* More that is handled hides no more.
LEMMA MoreCovers ==
    ASSUME NEW S, NEW H, NEW G, H \subseteq G
    PROVE  /\ \A ck : Covers(S, H, ck) => Covers(S, G, ck)
           /\ \A w, ck : Linked(S, H, w, ck) => Linked(S, G, w, ck)
           /\ \A fl, row : RowSound(S, H, fl, row) => RowSound(S, G, fl, row)
<1>1. \A ck : Covers(S, H, ck) => Covers(S, G, ck)
  BY DEF Covers
<1>2. \A w, ck : Linked(S, H, w, ck) => Linked(S, G, w, ck)
  BY DEF Linked
<1>3. \A fl, p : Continues(S, H, fl, p) => Continues(S, G, fl, p)
  BY MoreSettles
<1> QED
  BY <1>1, <1>2, <1>3 DEF RowSound

\* A window that falls short of the look-back has its days noted.
LEMMA StartReaches ==
    ASSUME TypeOK, NEW row, RowOK(row, today, published, faults),
           ValidProgress(row) => Reaches(row.progress.window),
           NEW day \in Int, day <= today, skipped' = skipped \cup Skips(row, day)
    PROVE  \A d \in Day : today - Lookback <= d /\ d < WindowStart(row, FALSE)
                              => d \in skipped'
<1> SUFFICES ASSUME NEW d \in Day, today - Lookback <= d, d < WindowStart(row, FALSE)
             PROVE  d \in skipped'
  OBVIOUS
<1>1. today \in Int /\ published \in Int /\ faults \in Int /\ d \in Int
  BY StateTypes, LimitAssumption DEF Day
<1>2. CASE ValidProgress(row)
  <2>1. Reaches(row.progress.window) /\ d < row.progress.window
    BY <1>2 DEF WindowStart
  <2>2. d \in skipped
    BY <2>1 DEF Reaches
  <2> QED BY <2>2
<1>3. CASE ~ValidProgress(row) /\ StartCheckpoint(row) # None
  <2>1. PICK wm : wm = StartCheckpoint(row).watermark
    OBVIOUS
  <2>2. wm \in Int /\ wm <= today
    BY <1>1, <1>3, <2>1, RowFacts
  <2>3. d < wm - Lookback /\ today - Lookback <= d
    BY <1>3, <2>1 DEF WindowStart
  <2> QED BY ONLY <1>1, <2>2, <2>3, LimitAssumption
<1>4. CASE ~ValidProgress(row) /\ StartCheckpoint(row) = None
  <2>1. d < today - InitialWindow
    BY <1>4 DEF WindowStart
  <2>2. day - Lookback <= d
    BY <1>1, LimitAssumption
  <2> QED BY <1>4, <2>1, <2>2 DEF Skips
<1> QED
  BY <1>2, <1>3, <1>4

\* With more days noted no less is handled or excused, and no window reaches less far.
LEMMA SkippedGrows ==
    ASSUME UNCHANGED <<today, source, collector, kept>>, skipped \subseteq skipped'
    PROVE  /\ HandledIds \subseteq HandledIds'
           /\ \A i \in DOMAIN source : source[i].date \in skipped' =>
                 (source[i].id \in RecordId => source[i].id \in HandledIds')
           /\ \A w : Reaches(w) =>
                 \A d \in Day : today - Lookback <= d /\ d < w => d \in skipped'
<1>1. HandledIds \subseteq HandledIds'
  BY DEF HandledIds, Handled, Excused
<1>2. ASSUME NEW i \in DOMAIN source, source[i].date \in skipped', source[i].id \in RecordId
      PROVE  source[i].id \in HandledIds'
  BY <1>2 DEF HandledIds, Excused
<1>3. \A w : Reaches(w) =>
         \A d \in Day : today - Lookback <= d /\ d < w => d \in skipped'
  BY DEF Reaches
<1> QED
  BY <1>1, <1>2, <1>3

\* A run that begins on a sound row of the collector is sound.
LEMMA StartSound ==
    ASSUME CoverageInv, NEW row, RowOK(row, today, published, faults),
           row.rule = collector.rule, row.policy = collector.policy,
           row.observed = collector.observed,
           NEW retry \in BOOLEAN, NEW batch \in Seq(RecordId), Len(batch) <= MaxItems,
           ~retry => batch = <<>>,
           run' = NewRun(row, retry, batch),
           UNCHANGED <<today, source, published, collector, kept, faults>>,
           RowSound(source, HandledIds', Floor', row),
           CurrentCheckpoint # None =>
               Linked(source, HandledIds', WindowStart(row, FALSE), CurrentCheckpoint),
           \A d \in Day : today - Lookback <= d /\ d < WindowStart(row, FALSE)
                              => d \in skipped'
    PROVE  /\ RunContext' /\ RunBounds' /\ RunFounded' /\ ListingSound' /\ ResultSound'
           /\ run' \in RunType /\ Len(run'.found) <= MaxItems
<1> USE DEF CoverageInv
<1> DEFINE before == IF ValidProgress(row) THEN row.progress ELSE None
           resume == IF retry THEN None ELSE before
<1>1. /\ today \in Nat /\ published \in Int /\ faults \in Int /\ source \in Seq(Record)
      /\ collector.policy \in Int
  BY StateTypes
<1>2. /\ run' \in RunType
      /\ run'.window \in Int /\ run'.window <= today
      /\ run'.watermark \in Int /\ run'.watermark <= today
  BY NewRunOK
<1> HIDE DEF before, resume
<1>3. run' = [pc |-> IF retry THEN "details" ELSE "listing", retry |-> retry,
             rule |-> row.rule, policy |-> row.policy, observed |-> row.observed,
             window |-> WindowStart(row, retry), checkpoint |-> StartCheckpoint(row),
             before |-> before, resume |-> resume,
             seeking |-> IF resume = None THEN None ELSE resume.anchor,
             page |-> IF resume = None THEN 0 ELSE resume.page, read |-> 0,
             pagesSeen |-> {}, found |-> batch,
             older |-> IF resume = None THEN 0 ELSE resume.older,
             watermark |-> IF resume = None THEN NoDate ELSE resume.watermark,
             oldest |-> NoDate,
             stop |-> IF retry THEN "not_applicable" ELSE "none",
             progress |-> None, complete |-> FALSE]
  BY NewRunFields DEF before, resume
<1>4. /\ run'.pc = IF retry THEN "details" ELSE "listing"
      /\ run'.retry = retry /\ run'.rule = row.rule /\ run'.policy = row.policy
      /\ run'.observed = row.observed /\ run'.window = WindowStart(row, retry)
      /\ run'.checkpoint = StartCheckpoint(row)
      /\ run'.before = before /\ run'.resume = resume
      /\ run'.seeking = IF resume = None THEN None ELSE resume.anchor
      /\ run'.page = IF resume = None THEN 0 ELSE resume.page
      /\ run'.found = batch /\ run'.complete = FALSE /\ run'.progress = None
      /\ run'.watermark = IF resume = None THEN NoDate ELSE resume.watermark
      /\ run'.stop = IF retry THEN "not_applicable" ELSE "none"
  BY <1>3
<1>5. Len(run'.found) <= MaxItems /\ (~retry => Len(run'.found) < MaxItems)
  BY <1>4, LimitAssumption
<1>6. CurrentCheckpoint' = CurrentCheckpoint
  BY DEF CurrentCheckpoint
<1>7. RunContext'
  BY <1>1, <1>4 DEF RunContext
<1>8. RunBounds'
  <2>1. before # None => /\ row.observed /\ ProgressOK(before, today, published)
                         /\ before.rule <= row.rule
    BY DEF before, ValidProgress, RowOK
  <2>2. StartCheckpoint(row) # None => CheckpointOK(StartCheckpoint(row), today)
    BY <1>1, RowFacts
  <2>3. run'.before # None => /\ run'.observed /\ run'.before.rule <= run'.rule
                              /\ ProgressOK(run'.before, today', published')
    BY <1>4, <2>1
  <2>4. run'.checkpoint # None => CheckpointOK(run'.checkpoint, today')
    BY <1>4, <2>2
  <2>5. run'.retry => /\ run'.pc # "listing" /\ run'.watermark = NoDate
                      /\ ~run'.complete
    BY <1>4 DEF resume
  <2>6. run'.pc = "listing" => /\ run'.stop = "none" /\ Len(run'.found) < MaxItems
                               /\ run'.resume # None => run'.resume = run'.before
    BY <1>4, <1>5 DEF resume
  <2>7. run'.window <= today' /\ run'.watermark <= today'
        /\ run'.progress = None
    BY <1>2, <1>4
  <2> QED BY <2>3, <2>4, <2>5, <2>6, <2>7 DEF RunBounds
<1>9. RunFounded'
  <2> SUFFICES ASSUME ~retry PROVE RunFounded'
    BY <1>4 DEF RunFounded, Reading
  <2>1. ASSUME StartCheckpoint(row) # None
        PROVE  /\ Covers(source, HandledIds', StartCheckpoint(row))
               /\ Linked(source, HandledIds', WindowStart(row, FALSE), StartCheckpoint(row))
    <3>1. Covers(source, HandledIds', StartCheckpoint(row))
      BY <2>1 DEF RowSound
    <3>2. CASE ValidProgress(row)
      BY <2>1, <3>1, <3>2 DEF RowSound, WindowStart
    <3>3. CASE ~ValidProgress(row)
      <4>1. WindowStart(row, FALSE) = StartCheckpoint(row).watermark - Lookback
        BY <2>1, <3>3 DEF WindowStart
      <4>2. StartCheckpoint(row).watermark \in Int
        BY <1>1, <2>1, RowFacts
      <4>3. \A i \in DOMAIN source : source[i].date \in Int
        BY <1>1, ListTypes
      <4> DEFINE ck == StartCheckpoint(row)
                 w == WindowStart(row, FALSE)
      <4>4. Covers(source, HandledIds', ck) /\ ck.watermark \in Int
            /\ w = ck.watermark - Lookback
        BY <3>1, <4>1, <4>2
      <4> HIDE DEF ck, w
      <4>5. Linked(source, HandledIds', w, ck)
        BY <4>3, <4>4, LimitAssumption DEF Covers, Linked
      <4> QED BY <3>1, <4>5 DEF ck, w
    <3> QED BY <3>2, <3>3
  <2>2. before # None => /\ Continues(source, HandledIds', Floor', before)
                         /\ before.window = WindowStart(row, FALSE)
    BY DEF before, RowSound, WindowStart
  <2>3. Reaches(run.window)'
    BY <1>4 DEF Reaches
  <2> QED BY <1>4, <1>6, <2>1, <2>2, <2>3 DEF RunFounded
<1>10. ListingSound'
  <2> SUFFICES ASSUME ~retry PROVE ListingSound'
    BY <1>4 DEF ListingSound
  <2>1. resume # None => /\ resume = row.progress /\ resume = before /\ ValidProgress(row)
                         /\ resume.anchor # None /\ WindowStart(row, FALSE) = resume.window
    <3>1. resume # None => resume = row.progress /\ ValidProgress(row) /\ resume = before
      BY DEF resume, before
    <3>2. ValidProgress(row) => row.progress.anchor \in RecordId
      BY <1>1, RowFacts DEF Progress
    <3> QED BY <3>1, <3>2, NoneAssumption DEF RecordId, WindowStart
  <2>2. ASSUME NEW i \in DOMAIN source, i <= run'.page * PageSize,
               run'.seeking # None => Past(i)'
        PROVE  Settled(source, HandledIds' \cup ToSet(run'.found), Floor', run'.window,
                       run'.watermark, i)
    <3>1. CASE resume = None
      <4>1. i >= 1 /\ run'.page = 0 /\ i \in Int
        BY <3>1, <1>1, <1>4, ListTypes
      <4> QED BY <4>1, <2>2, LimitAssumption
    <3>2. CASE resume # None
      <4>1. PICK j \in DOMAIN source : i <= j /\ source[j].id \in Anchors(resume)
        BY <1>4, <2>1, <2>2, <3>2 DEF Past
      <4>2. Continues(source, HandledIds', Floor', resume)
        BY <2>1, <3>2 DEF RowSound
      <4>3. Settled(source, HandledIds', Floor', resume.window, resume.watermark, i)
        BY <4>1, <4>2 DEF Continues
      <4> QED BY <4>3, <1>4, <2>1, <3>2 DEF Settled
    <3> QED BY <3>1, <3>2
  <2>3. run'.seeking # None => run'.resume # None /\ run'.seeking = run'.resume.anchor
    BY <1>4, <2>1 DEF resume
  <2> QED BY <1>6, <2>2, <2>3 DEF ListingSound
<1>11. ResultSound'
  BY <1>4 DEF ResultSound, Reading
<1> QED
  BY <1>2, <1>5, <1>7, <1>8, <1>9, <1>10, <1>11

LEMMA CreateRunStep ==
    ASSUME CoverageInv, CreateRun
    PROVE  CoverageInv'
<1> USE DEF CoverageInv
<1>1. /\ run' = NewRun(collector, FALSE, <<>>)
      /\ skipped' = skipped \cup Skips(collector, today)
      /\ UNCHANGED <<today, source, published, collector, snapshot, kept, backlog, faults>>
  BY DEF CreateRun, Environment
<1>2. /\ Floor' = Floor /\ Matches' = Matches
      /\ LateStart' = LateStart /\ CurrentCheckpoint' = CurrentCheckpoint
  BY <1>1 DEF Floor, Matches, LateStart, CurrentCheckpoint
<1>3. /\ HandledIds \subseteq HandledIds'
      /\ \A w : Reaches(w) =>
            \A d \in Day : today - Lookback <= d /\ d < w => d \in skipped'
  BY <1>1, SkippedGrows
<1>4. RowOK(collector, today, published, faults)
      /\ RowSound(source, HandledIds', Floor', collector)
  <2>1. RowSound(source, HandledIds, Floor', collector)
    BY <1>2 DEF RowsSound
  <2> QED BY <1>3, <2>1, MoreCovers DEF RowsOK
<1>5. RowsOK' /\ ListOK'
  BY <1>1, <1>2 DEF RowsOK, ListOK
<1>6. RowsSound'
  <2>1. Matches => RowSound(source, HandledIds', Floor', snapshot.row)
    <3>1. Matches => RowSound(source, HandledIds, Floor', snapshot.row)
      BY <1>2 DEF RowsSound
    <3> QED BY <1>3, <3>1, MoreCovers
  <2>2. Matches /\ CurrentCheckpoint # None =>
            Linked(source, HandledIds', LateStart, CurrentCheckpoint)
    BY <1>3, MoreCovers DEF RowsSound
  <2>3. /\ ValidProgress(collector) => Reaches(collector.progress.window)'
        /\ Matches /\ ValidProgress(snapshot.row) => Reaches(snapshot.row.progress.window)'
    BY <1>1, <1>3 DEF RowsSound, Reaches
  <2> QED BY <1>1, <1>2, <1>4, <2>1, <2>2, <2>3 DEF RowsSound
<1>7. ASSUME CurrentCheckpoint # None
      PROVE  Linked(source, HandledIds', WindowStart(collector, FALSE), CurrentCheckpoint)
  <2>1. CASE ValidProgress(collector)
    BY <1>4, <1>7, <2>1 DEF RowSound, CurrentCheckpoint, WindowStart
  <2>2. CASE ~ValidProgress(collector)
    <3> DEFINE ck == StartCheckpoint(collector)
               w == WindowStart(collector, FALSE)
    <3>1. w = ck.watermark - Lookback
      BY <1>7, <2>2 DEF WindowStart, CurrentCheckpoint
    <3>2. ck.watermark \in Int
      BY <1>4, <1>7, RowFacts, StateTypes DEF CurrentCheckpoint
    <3>3. Covers(source, HandledIds', ck)
      BY <1>4, <1>7 DEF RowSound, CurrentCheckpoint
    <3>4. \A i \in DOMAIN source : source[i].date \in Int
      BY ListTypes, StateTypes
    <3> HIDE DEF ck, w
    <3>5. Linked(source, HandledIds', w, ck)
      BY <3>1, <3>2, <3>3, <3>4, LimitAssumption DEF Covers, Linked
    <3> QED BY <3>5 DEF ck, w, CurrentCheckpoint
  <2> QED BY <2>1, <2>2
<1>8. <<>> \in Seq(RecordId) /\ Len(<<>>) <= MaxItems
  BY LimitAssumption
<1>9. \A d \in Day : today - Lookback <= d /\ d < WindowStart(collector, FALSE)
                         => d \in skipped'
  <2>1. today \in Int /\ today <= today
    BY StateTypes
  <2>2. ValidProgress(collector) => Reaches(collector.progress.window)
    BY DEF RowsSound
  <2> QED BY <1>1, <1>4, <2>1, <2>2, StartReaches
<1>10. /\ RunContext' /\ RunBounds' /\ RunFounded' /\ ListingSound' /\ ResultSound'
       /\ run' \in RunType /\ Len(run'.found) <= MaxItems
  BY <1>1, <1>4, <1>7, <1>8, <1>9, StartSound
<1>11. TypeOK'
  BY <1>1, <1>10 DEF TypeOK, Skips
<1> QED
  BY <1>5, <1>6, <1>10, <1>11

LEMMA CreateLateRunStep ==
    ASSUME CoverageInv, CreateLateRun
    PROVE  CoverageInv'
<1> USE DEF CoverageInv
<1>1. /\ run.pc = "idle" /\ snapshot # None /\ snapshot' = None
      /\ IF Matches THEN /\ run' = NewRun(snapshot.row, FALSE, <<>>)
                         /\ skipped' = skipped \cup Skips(snapshot.row, snapshot.day)
                    ELSE run' = run /\ skipped' = skipped
      /\ UNCHANGED <<today, source, published, collector, kept, backlog, faults>>
  BY DEF CreateLateRun, Environment, Matches
<1>2. Floor' = NoDate /\ ~Matches' /\ CurrentCheckpoint' = CurrentCheckpoint
  BY <1>1 DEF Floor, Matches, CurrentCheckpoint
<1>3. /\ today \in Int /\ published \in Int /\ faults \in Int /\ source \in Seq(Record)
      /\ Floor \in Int /\ NoDate \in Int
      /\ snapshot \in [day : Day, row : Row]
      /\ snapshot.day \in Int /\ snapshot.day <= today
      /\ RowOK(collector, today, published, faults)
      /\ RowOK(snapshot.row, today, published, faults)
  BY <1>1, StateTypes, FloorFacts, LimitAssumption DEF RowsOK, Day, NoDate
<1>4. /\ skipped \subseteq skipped' /\ HandledIds \subseteq HandledIds'
      /\ \A i \in DOMAIN source : source[i].date \in skipped' =>
            (source[i].id \in RecordId => source[i].id \in HandledIds')
      /\ \A w : Reaches(w) =>
            \A d \in Day : today - Lookback <= d /\ d < w => d \in skipped'
  <2>1. skipped \subseteq skipped'
    BY <1>1
  <2> QED BY <1>1, <2>1, SkippedGrows
<1>5. ASSUME NEW row, RowOK(row, today, published, faults),
             RowSound(source, HandledIds, Floor, row)
      PROVE  RowSound(source, HandledIds', NoDate, row)
  <2> DEFINE f == [i \in DOMAIN source |-> i]
  <2>1. Follows(source, source, f, published + 1, today, HandledIds, HandledIds')
    BY <1>3, <1>4, FollowsItself
  <2>2. today - Lookback <= today /\ published < published + 1
        /\ published + 1 \in Int
    BY <1>3, LimitAssumption
  <2>3. ValidProgress(row) => row.progress.window <= today
    BY <1>3, <1>5, RowFacts
  <2> HIDE DEF f
  <2> QED BY <1>3, <1>5, <2>1, <2>2, <2>3, RowKept
<1>6. RowsSound'
  <2>1. RowSound(source, HandledIds', NoDate, collector)
    BY <1>3, <1>5 DEF RowsSound
  <2>2. ValidProgress(collector) => Reaches(collector.progress.window)'
    BY <1>1, <1>4 DEF RowsSound, Reaches
  <2> QED BY <1>1, <1>2, <2>1, <2>2 DEF RowsSound
<1>7. RowsOK' /\ ListOK'
  BY <1>1, <1>2, <1>3 DEF RowsOK, ListOK
<1>8. CASE Matches
  <2> DEFINE row == snapshot.row
  <2>1. row.rule = collector.rule /\ row.policy = collector.policy
        /\ row.observed = collector.observed
        /\ RowOK(row, today, published, faults)
    BY <1>3, <1>1, <1>8 DEF Matches, RowsOK
  <2>2. RowSound(source, HandledIds', Floor', row)
    BY <1>2, <1>3, <1>5, <1>8 DEF RowsSound
  <2>3. ASSUME CurrentCheckpoint # None
        PROVE  Linked(source, HandledIds', WindowStart(row, FALSE), CurrentCheckpoint)
    <3> DEFINE w == WindowStart(row, FALSE)
    <3>1. Linked(source, HandledIds', LateStart, CurrentCheckpoint) /\ LateStart \in Int
      BY <1>4, <1>8, <2>3, MoreCovers, FloorFacts DEF RowsSound
    <3>2. CASE ValidProgress(row) \/ StartCheckpoint(row) # None
      <4>1. w = LateStart
        BY <3>2 DEF WindowStart, LateStart
      <4> QED BY <3>1, <4>1
    <3>3. CASE ~ValidProgress(row) /\ StartCheckpoint(row) = None
      <4>1. w = today - InitialWindow /\ LateStart = snapshot.day - Lookback
        BY <3>3 DEF WindowStart, LateStart
      <4>2. \A d \in Day : LateStart <= d /\ d < w => d \in skipped'
        BY <3>3, <4>1, <1>1, <1>8 DEF Skips
      <4>3. ASSUME NEW i \in DOMAIN source, source[i].date < w
            PROVE  source[i].id \in HandledIds' \/ source[i].date < CurrentCheckpoint.since
        <5>1. /\ source[i].date \in Int /\ source[i].date \in Day
              /\ source[i].id \in RecordId
          BY <1>3, ListTypes
        <5>2. CASE source[i].date < LateStart
          BY <5>2, <3>1 DEF Linked
        <5>3. CASE ~(source[i].date < LateStart)
          <6>1. LateStart <= source[i].date
            BY <3>1, <5>1, <5>3
          <6>2. source[i].date \in skipped'
            BY <4>2, <4>3, <5>1, <6>1
          <6> QED BY <1>4, <5>1, <6>2
        <5> QED BY <5>2, <5>3
      <4> QED BY <4>3 DEF Linked
    <3> QED BY <3>2, <3>3
  <2>4. <<>> \in Seq(RecordId) /\ Len(<<>>) <= MaxItems
    BY LimitAssumption
  <2>5. run' = NewRun(row, FALSE, <<>>)
    BY <1>1, <1>8
  <2>6. \A d \in Day : today - Lookback <= d /\ d < WindowStart(row, FALSE)
                           => d \in skipped'
    <3>1. ValidProgress(row) => Reaches(row.progress.window)
      BY <1>8 DEF RowsSound
    <3>2. skipped' = skipped \cup Skips(row, snapshot.day)
      BY <1>1, <1>8
    <3> HIDE DEF row
    <3> QED BY <1>3, <2>1, <3>1, <3>2, StartReaches
  <2> HIDE DEF row
  <2>7. /\ RunContext' /\ RunBounds' /\ RunFounded' /\ ListingSound' /\ ResultSound'
        /\ run' \in RunType /\ Len(run'.found) <= MaxItems
    BY <1>1, <2>1, <2>2, <2>3, <2>4, <2>5, <2>6, StartSound
  <2>8. skipped' \subseteq Day
    BY <1>1, <1>8 DEF TypeOK, Skips
  <2>9. TypeOK'
    BY <1>1, <2>7, <2>8 DEF TypeOK
  <2> QED BY <1>6, <1>7, <2>7, <2>9
<1>9. CASE ~Matches
  <2>1. run'.pc = "idle" /\ run' = run /\ skipped' = skipped
    BY <1>1, <1>9
  <2>2. RunContext' /\ RunBounds' /\ RunFounded' /\ ListingSound' /\ ResultSound'
    BY <2>1 DEF RunContext, RunBounds, RunFounded, ListingSound, ResultSound, Reading
  <2>3. TypeOK'
    BY <1>1, <2>1 DEF TypeOK
  <2> QED BY <1>6, <1>7, <2>2, <2>3
<1> QED
  BY <1>8, <1>9

\* Records in some order.
LEMMA SetToSeqFacts ==
    ASSUME NEW S \in SUBSET RecordId
    PROVE  /\ IsFiniteSet(S) /\ Cardinality(S) \in Nat
           /\ SetToSeq(S) \in Seq(RecordId) /\ Len(SetToSeq(S)) = Cardinality(S)
<1>1. IsFiniteSet(RecordId)
  BY FS_Interval, LimitAssumption DEF RecordId
<1>2. IsFiniteSet(S) /\ Cardinality(S) \in Nat /\ ExistsBijection(1..Cardinality(S), S)
  BY <1>1, FS_Subset, FS_CardinalityType
<1>3. \E f \in [1..Cardinality(S) -> S] : IsInjective(f)
  BY <1>2 DEF ExistsBijection, Bijection, Injection
<1>4. SetToSeq(S) \in [1..Cardinality(S) -> S]
  BY <1>3 DEF SetToSeq
<1>5. SetToSeq(S) \in [1..Cardinality(S) -> RecordId]
  BY <1>4
<1> QED
  BY <1>2, <1>5

LEMMA RetryRejectedStep ==
    ASSUME CoverageInv, RetryRejected
    PROVE  CoverageInv'
<1> USE DEF CoverageInv
<1>1. UNCHANGED <<today, source, published, collector, snapshot, kept, backlog, faults,
                 skipped>>
  BY DEF RetryRejected, Environment
<1> DEFINE n == Min({Cardinality(backlog), MaxItems})
<1>2. PICK batch \in kSubset(n, backlog) : run' = NewRun(collector, TRUE, SetToSeq(batch))
  BY DEF RetryRejected
<1>3. /\ batch \in SUBSET RecordId /\ Cardinality(batch) <= MaxItems
  <2>1. Cardinality(backlog) \in Nat
    BY SetToSeqFacts DEF TypeOK
  <2>2. n <= MaxItems
    BY <2>1, LimitAssumption DEF Min
  <2> HIDE DEF n
  <2>3. batch \in SUBSET backlog /\ Cardinality(batch) = n
    BY DEF kSubset
  <2> QED BY <2>2, <2>3 DEF TypeOK
<1>4. SetToSeq(batch) \in Seq(RecordId) /\ Len(SetToSeq(batch)) <= MaxItems
  BY <1>3, SetToSeqFacts
<1>5. /\ Floor' = Floor /\ HandledIds' = HandledIds /\ Matches' = Matches
      /\ LateStart' = LateStart /\ CurrentCheckpoint' = CurrentCheckpoint
  BY <1>1 DEF Floor, HandledIds, Handled, Excused, Matches, LateStart, CurrentCheckpoint
<1>6. RowsOK' /\ RowsSound' /\ ListOK'
  BY <1>1, <1>5 DEF RowsOK, RowsSound, ListOK, Reaches
<1>7. /\ run'.pc = "details" /\ run'.retry = TRUE /\ run'.complete = FALSE
      /\ run'.rule = collector.rule /\ run'.policy = collector.policy
      /\ run'.observed = collector.observed /\ run'.found = SetToSeq(batch)
      /\ run'.watermark = NoDate /\ run'.progress = None
      /\ run'.checkpoint = StartCheckpoint(collector)
      /\ run'.before = IF ValidProgress(collector) THEN collector.progress ELSE None
  BY <1>2 DEF NewRun
<1>8. RowOK(collector, today, published, faults)
  BY DEF RowsOK
<1>9. /\ run' \in RunType
      /\ run'.window \in Int /\ run'.window <= today
      /\ run'.watermark \in Int /\ run'.watermark <= today
  BY <1>2, <1>4, <1>8, NewRunOK
<1>10. TypeOK'
  BY <1>1, <1>4, <1>7, <1>9 DEF TypeOK
<1>11. RunContext'
  BY <1>1, <1>7, StateTypes DEF RunContext
<1>12. RunBounds'
  <2>1. run'.before # None => /\ run'.observed /\ run'.before.rule <= run'.rule
                              /\ ProgressOK(run'.before, today', published')
    BY <1>1, <1>7, <1>8 DEF RowOK, ValidProgress
  <2>2. run'.checkpoint # None => CheckpointOK(run'.checkpoint, today')
    BY <1>1, <1>7, <1>8, RowFacts, StateTypes
  <2> QED BY <1>1, <1>7, <1>9, <2>1, <2>2 DEF RunBounds
<1>13. RunFounded' /\ ListingSound' /\ ResultSound'
  BY <1>7 DEF RunFounded, ListingSound, ResultSound, Reading
<1> QED
  BY <1>6, <1>10, <1>11, <1>12, <1>13

-----------------------------------------------------------------------------
(* The runtime *)

\* What a run is from its beginning to its end.
SameRun == /\ run'.rule = run.rule /\ run'.policy = run.policy
           /\ run'.observed = run.observed /\ run'.retry = run.retry
           /\ run'.window = run.window /\ run'.checkpoint = run.checkpoint
           /\ run'.before = run.before

\* A step of the runtime leaves everything else as it was.
LEMMA RuntimeStep ==
    ASSUME CoverageInv, run.pc # "idle", SameRun, faults' \in Int, faults <= faults',
           UNCHANGED <<today, source, published, collector, snapshot, kept, skipped>>
    PROVE  /\ ListOK' /\ RowsOK' /\ RowsSound' /\ RunContext' /\ RunFounded'
           /\ Floor' = Floor /\ HandledIds' = HandledIds
           /\ Reading' => Reading
<1> USE DEF CoverageInv
<1>1. /\ Floor' = Floor /\ HandledIds' = HandledIds /\ Matches' = Matches
      /\ LateStart' = LateStart /\ CurrentCheckpoint' = CurrentCheckpoint
  BY DEF Floor, HandledIds, Handled, Excused, Matches, LateStart, CurrentCheckpoint
<1>2. Reading' => Reading
  BY DEF Reading, SameRun
<1>3. ListOK' /\ RowsSound'
  BY <1>1 DEF ListOK, RowsSound, Reaches
<1>4. RowsOK'
  <2>1. /\ today \in Int /\ published \in Int /\ faults \in Int
        /\ today <= today /\ published <= published
    BY StateTypes
  <2>2. \A row : RowOK(row, today, published, faults)
                     => RowOK(row, today, published, faults')
    BY <2>1, OKKept
  <2> QED BY <1>1, <2>2 DEF RowsOK
<1>5. RunContext'
  BY DEF RunContext, SameRun
<1>6. RunFounded'
  BY <1>1, <1>2 DEF RunFounded, SameRun, Reaches
<1> QED
  BY <1>1, <1>2, <1>3, <1>4, <1>5, <1>6

LEMMA EmptyPageStep ==
    ASSUME CoverageInv, EmptyPage
    PROVE  CoverageInv'
<1> USE DEF CoverageInv
<1>1. /\ run.pc = "listing" /\ run \in RunType
      /\ run' = [run EXCEPT !.pc = "finishing", !.stop = "source_structure_mismatch",
                            !.found = <<>>, !.progress = run.before, !.complete = FALSE]
      /\ UNCHANGED <<today, source, published, collector, snapshot, kept, backlog, faults,
                     skipped>>
  BY DEF EmptyPage, Environment, TypeOK
<1>2. /\ run'.pc = "finishing" /\ run'.stop = "source_structure_mismatch"
      /\ run'.found = <<>> /\ run'.progress = run.before /\ run'.complete = FALSE
      /\ run'.watermark = run.watermark /\ SameRun
  BY <1>1 DEF RunType, SameRun
<1>3. faults' \in Int /\ faults <= faults'
  BY <1>1, StateTypes
<1>4. /\ ListOK' /\ RowsOK' /\ RowsSound' /\ RunContext' /\ RunFounded'
      /\ Floor' = Floor /\ HandledIds' = HandledIds /\ (Reading' => Reading)
  BY <1>1, <1>2, <1>3, RuntimeStep
<1>5. TypeOK'
  <2>1. run' \in RunType
    <3>1. <<>> \in Seq(RecordId) /\ "source_structure_mismatch" \in StopReason
      BY DEF StopReason
    <3>2. /\ run.before \in Progress \cup {None}
          /\ "finishing" \in {"idle", "listing", "details", "finishing"}
      BY <1>1 DEF RunType
    <3> QED BY <1>1, <3>1, <3>2 DEF RunType
  <2> QED BY <1>1, <1>2, <2>1, LimitAssumption DEF TypeOK
<1>6. RunBounds'
  BY <1>1, <1>2 DEF RunBounds, SameRun
<1>7. ListingSound'
  BY <1>2 DEF ListingSound
<1>8. ResultSound'
  <2>1. ASSUME Reading, run.before # None
        PROVE  /\ Continues(source, HandledIds \cup ToSet(run'.found), Floor, run.before)
               /\ run.before.window = run.window
    BY <2>1, MoreSettles DEF RunFounded
  <2> QED BY <1>1, <1>2, <1>4, <2>1 DEF ResultSound, Whole, SameRun
<1> QED
  BY <1>4, <1>5, <1>6, <1>7, <1>8

LEMMA DisorderedPageStep ==
    ASSUME CoverageInv, DisorderedPage
    PROVE  CoverageInv'
<1> USE DEF CoverageInv
<1>1. /\ run.pc = "listing" /\ run \in RunType
      /\ run' = [run EXCEPT !.pc = "details", !.stop = "coverage_order_unverified",
                            !.progress = None, !.complete = FALSE]
      /\ UNCHANGED <<today, source, published, collector, snapshot, kept, backlog, faults,
                     skipped>>
  BY DEF DisorderedPage, Environment, TypeOK
<1>2. /\ run'.pc = "details" /\ run'.stop = "coverage_order_unverified"
      /\ run'.found = run.found /\ run'.progress = None /\ run'.complete = FALSE
      /\ run'.watermark = run.watermark /\ SameRun
  BY <1>1 DEF RunType, SameRun
<1>3. faults' \in Int /\ faults <= faults'
  BY <1>1, StateTypes
<1>4. /\ ListOK' /\ RowsOK' /\ RowsSound' /\ RunContext' /\ RunFounded'
  BY <1>1, <1>2, <1>3, RuntimeStep
<1>5. TypeOK'
  <2>1. run' \in RunType
    BY <1>1 DEF RunType, StopReason
  <2> QED BY <1>1, <1>2, <2>1 DEF TypeOK
<1>6. RunBounds'
  BY <1>1, <1>2 DEF RunBounds, SameRun
<1>7. ListingSound' /\ ResultSound'
  BY <1>2 DEF ListingSound, ResultSound, Whole
<1> QED
  BY <1>4, <1>5, <1>6, <1>7

LEMMA FetchDetailsStep ==
    ASSUME CoverageInv, FetchDetails
    PROVE  CoverageInv'
<1> USE DEF CoverageInv
<1>1. /\ run.pc = "details" /\ run \in RunType
      /\ run' = [run EXCEPT !.pc = "finishing"]
      /\ UNCHANGED <<today, source, published, collector, snapshot, kept, backlog, faults,
                     skipped>>
  BY DEF FetchDetails, Environment, TypeOK
<1>2. /\ run'.pc = "finishing" /\ run'.stop = run.stop
      /\ run'.found = run.found /\ run'.progress = run.progress
      /\ run'.complete = run.complete
      /\ run'.watermark = run.watermark /\ SameRun
  BY <1>1 DEF RunType, SameRun
<1>3. faults' \in Int /\ faults <= faults'
  BY <1>1, StateTypes
<1>4. /\ ListOK' /\ RowsOK' /\ RowsSound' /\ RunContext' /\ RunFounded'
      /\ Floor' = Floor /\ HandledIds' = HandledIds /\ (Reading' => Reading)
  BY <1>1, <1>2, <1>3, RuntimeStep
<1>5. TypeOK'
  <2>1. run' \in RunType
    BY <1>1 DEF RunType
  <2> QED BY <1>1, <1>2, <2>1 DEF TypeOK
<1>6. RunBounds'
  BY <1>1, <1>2 DEF RunBounds, SameRun
<1>7. ListingSound'
  BY <1>2 DEF ListingSound
<1>8. ResultSound'
  BY <1>1, <1>2, <1>4 DEF ResultSound, SameRun
<1> QED
  BY <1>4, <1>5, <1>6, <1>7, <1>8

LEMMA LoseDetailsStep ==
    ASSUME CoverageInv, LoseDetails
    PROVE  CoverageInv'
<1> USE DEF CoverageInv
<1>1. /\ run.pc = "details" /\ run \in RunType /\ run.found \in Seq(RecordId)
      /\ faults < MaxFaults /\ faults' = faults + 1
      /\ UNCHANGED <<today, source, published, collector, snapshot, kept, backlog, skipped>>
  BY DEF LoseDetails, Environment, TypeOK, RunType
<1>2. PICK i \in DOMAIN run.found :
        run' = [run EXCEPT !.pc = "finishing", !.found = RemoveAt(@, i),
                           !.stop = "detail_fetch_incomplete",
                           !.progress = None, !.complete = FALSE]
  BY DEF LoseDetails
<1>3. /\ run'.pc = "finishing" /\ run'.stop = "detail_fetch_incomplete"
      /\ run'.found = RemoveAt(run.found, i) /\ run'.progress = None
      /\ run'.complete = FALSE
      /\ run'.watermark = run.watermark /\ SameRun
  BY <1>1, <1>2 DEF RunType, SameRun
<1>4. RemoveAt(run.found, i) \in Seq(RecordId) /\ Len(RemoveAt(run.found, i)) <= MaxItems
  <2> DEFINE s == run.found
  <2>1. s \in Seq(RecordId) /\ Len(s) \in Nat /\ i \in 1..Len(s) /\ Len(s) <= MaxItems
    BY <1>1, LenProperties DEF TypeOK
  <2> HIDE DEF s
  <2>2. \A j \in 1..Len(s) : s[j] \in RecordId
    BY <2>1, ElementOfSeq
  <2>3. SubSeq(s, 1, i - 1) \in Seq(RecordId) /\ Len(SubSeq(s, 1, i - 1)) = i - 1
    BY <2>1, <2>2, SubSeqProperties
  <2>4. /\ SubSeq(s, i + 1, Len(s)) \in Seq(RecordId)
        /\ Len(SubSeq(s, i + 1, Len(s))) = Len(s) - i
    <3>1. i + 1 \in Int /\ Len(s) \in Int /\ \A j \in (i + 1)..Len(s) : s[j] \in RecordId
      BY <2>1, <2>2
    <3>2. IF i + 1 <= Len(s) THEN Len(s) - (i + 1) + 1 = Len(s) - i ELSE Len(s) - i = 0
      BY <2>1
    <3>3. /\ SubSeq(s, i + 1, Len(s)) \in Seq(RecordId)
          /\ Len(SubSeq(s, i + 1, Len(s))) = IF i + 1 <= Len(s)
                                             THEN Len(s) - (i + 1) + 1 ELSE 0
      BY <3>1, SubSeqProperties
    <3> QED BY <3>2, <3>3
  <2>5. /\ RemoveAt(s, i) \in Seq(RecordId)
        /\ Len(RemoveAt(s, i)) = (i - 1) + (Len(s) - i)
    BY <2>3, <2>4, ConcatProperties DEF RemoveAt
  <2>6. (i - 1) + (Len(s) - i) <= MaxItems
    BY <2>1, LimitAssumption
  <2> QED BY <2>5, <2>6 DEF s
<1>5. faults' \in Int /\ faults <= faults' /\ faults' \in 0..MaxFaults
  BY <1>1, StateTypes, LimitAssumption
<1>6. /\ ListOK' /\ RowsOK' /\ RowsSound' /\ RunContext' /\ RunFounded'
  BY <1>1, <1>3, <1>5, RuntimeStep
<1>7. TypeOK'
  <2>1. run' \in RunType
    BY <1>1, <1>2, <1>4 DEF RunType, StopReason
  <2> QED BY <1>1, <1>3, <1>4, <1>5, <2>1 DEF TypeOK
<1>8. RunBounds'
  BY <1>1, <1>3 DEF RunBounds, SameRun
<1>9. ListingSound' /\ ResultSound'
  BY <1>3 DEF ListingSound, ResultSound, Whole
<1> QED
  BY <1>6, <1>7, <1>8, <1>9

LEMMA RateLimitedStep ==
    ASSUME CoverageInv, RateLimited
    PROVE  CoverageInv'
<1> USE DEF CoverageInv
<1>1. /\ run.pc \in {"listing", "details"} /\ run \in RunType
      /\ faults < MaxFaults /\ faults' = faults + 1
      /\ run' = [run EXCEPT !.pc = "finishing", !.found = <<>>, !.watermark = NoDate,
                            !.stop = "source_rate_limited",
                            !.progress = run.before, !.complete = FALSE]
      /\ UNCHANGED <<today, source, published, collector, snapshot, kept, backlog, skipped>>
  BY DEF RateLimited, Environment, TypeOK
<1>2. /\ run'.pc = "finishing" /\ run'.stop = "source_rate_limited"
      /\ run'.found = <<>> /\ run'.progress = run.before /\ run'.complete = FALSE
      /\ run'.watermark = NoDate /\ SameRun
  BY <1>1 DEF RunType, SameRun
<1>3. faults' \in Int /\ faults <= faults' /\ faults' \in 0..MaxFaults
  <2>1. faults \in Nat /\ faults < MaxFaults /\ faults' = faults + 1
    BY <1>1, StateTypes
  <2> QED BY ONLY <2>1, LimitAssumption
<1>4. /\ ListOK' /\ RowsOK' /\ RowsSound' /\ RunContext' /\ RunFounded'
      /\ Floor' = Floor /\ HandledIds' = HandledIds /\ (Reading' => Reading)
  BY <1>1, <1>2, <1>3, RuntimeStep
<1>5. TypeOK'
  <2>1. run' \in RunType
    <3>1. <<>> \in Seq(RecordId) /\ "source_rate_limited" \in StopReason
      BY DEF StopReason
    <3>2. /\ run.before \in Progress \cup {None}
          /\ "finishing" \in {"idle", "listing", "details", "finishing"}
      BY <1>1 DEF RunType
    <3>3. NoDate \in Day
      BY LimitAssumption DEF NoDate, Day
    <3> QED BY <1>1, <3>1, <3>2, <3>3 DEF RunType
  <2> QED BY <1>1, <1>2, <1>3, <2>1, LimitAssumption DEF TypeOK
<1>6. RunBounds'
  <2>1. NoDate <= today
    BY StateTypes DEF NoDate
  <2> QED BY <1>1, <1>2, <2>1 DEF RunBounds, SameRun
<1>7. ListingSound'
  BY <1>2 DEF ListingSound
<1>8. ResultSound'
  <2>1. ASSUME Reading, run.before # None
        PROVE  /\ Continues(source, HandledIds \cup ToSet(run'.found), Floor, run.before)
               /\ run.before.window = run.window
    BY <2>1, MoreSettles DEF RunFounded
  <2> QED BY <1>1, <1>2, <1>4, <2>1 DEF ResultSound, Whole, SameRun
<1> QED
  BY <1>4, <1>5, <1>6, <1>7, <1>8

-----------------------------------------------------------------------------
(* Reading a page *)

\* What stands on a page, and whether anything follows it.
LEMMA PageFacts ==
    ASSUME TypeOK, NEW k \in Nat
    PROVE  /\ k * PageSize \in Nat /\ (k + 1) * PageSize = k * PageSize + PageSize
           /\ Page(k) \in Seq(Record) /\ Len(Page(k)) \in Nat
           /\ DOMAIN Page(k) = 1..Len(Page(k))
           /\ \A i \in 1..Len(Page(k)) : /\ k * PageSize + i \in DOMAIN source
                                         /\ Page(k)[i] = source[k * PageSize + i]
           /\ \A i \in DOMAIN source : k * PageSize < i /\ i <= k * PageSize + PageSize =>
                  i - k * PageSize \in 1..Len(Page(k))
           /\ Len(Page(k)) <= PageSize
           /\ ~HasNext(k) => \A i \in DOMAIN source : i <= k * PageSize + PageSize
<1> DEFINE lo == k * PageSize
           hi == IF (k + 1) * PageSize < Len(source) THEN (k + 1) * PageSize ELSE Len(source)
           P == Page(k)
<1>1. lo \in Nat /\ PageSize \in Nat \ {0}
  BY LimitAssumption
<1>2. (k + 1) * PageSize = lo + PageSize
  BY LimitAssumption
<1>3. Len(source) \in Nat /\ DOMAIN source = 1..Len(source) /\ source \in Seq(Record)
  BY StateTypes
<1>4. P = SubSeq(source, lo + 1, hi)
  BY DEF Page
<1>5. hi = IF lo + PageSize < Len(source) THEN lo + PageSize ELSE Len(source)
  BY <1>2
<1>6. HasNext(k) <=> lo + PageSize < Len(source)
  BY <1>2 DEF HasNext
<1> DEFINE L == Len(source)
<1>7. L \in Nat /\ L = Len(source)
  BY <1>3
<1> HIDE DEF lo, hi, P, L
<1>8. hi = IF lo + PageSize < L THEN lo + PageSize ELSE L
  BY <1>5 DEF L
<1>9. hi \in Int /\ lo + 1 \in Int /\ hi <= L /\ hi <= lo + PageSize
      /\ \A i \in 1..L : lo < i /\ i <= lo + PageSize => lo < hi /\ i <= hi
  BY ONLY <1>1, <1>7, <1>8
<1>10. hi \in Int /\ lo + 1 \in Int /\ hi <= Len(source) /\ hi <= lo + PageSize
  BY <1>7, <1>9
<1>11. \A i \in (lo + 1)..hi : source[i] \in Record
  <2>1. \A i \in (lo + 1)..hi : i \in 1..Len(source)
    BY <1>1, <1>3, <1>10
  <2> QED BY <2>1, <1>3, ElementOfSeq
<1>12. /\ P \in Seq(Record)
       /\ Len(P) = IF lo + 1 <= hi THEN hi - (lo + 1) + 1 ELSE 0
       /\ \A i \in 1..(hi - (lo + 1) + 1) : P[i] = source[(lo + 1) + i - 1]
  BY <1>4, <1>10, <1>11, SubSeqProperties
<1>13. Len(P) = IF lo < hi THEN hi - lo ELSE 0
  BY <1>1, <1>10, <1>12
<1>14. DOMAIN P = 1..Len(P)
  BY <1>12, LenProperties
<1>15. \A i \in 1..Len(P) : lo + i \in DOMAIN source /\ P[i] = source[lo + i]
  <2> SUFFICES ASSUME NEW i \in 1..Len(P)
               PROVE  lo + i \in DOMAIN source /\ P[i] = source[lo + i]
    OBVIOUS
  <2>1. i \in 1..(hi - (lo + 1) + 1) /\ (lo + 1) + i - 1 = lo + i
    BY <1>1, <1>10, <1>13
  <2>2. lo + i \in 1..Len(source)
    BY <1>1, <1>3, <1>10, <1>13
  <2> QED BY <1>3, <1>12, <2>1, <2>2
<1>16. \A i \in DOMAIN source : lo < i /\ i <= lo + PageSize => i - lo \in 1..Len(P)
  <2> SUFFICES ASSUME NEW i \in 1..Len(source), lo < i, i <= lo + PageSize
               PROVE  i - lo \in 1..Len(P)
    BY <1>3
  <2>1. lo < hi /\ i <= hi
    BY <1>7, <1>9
  <2>2. Len(P) = hi - lo
    BY <2>1, <1>13
  <2> QED BY <2>1, <2>2, <1>1, <1>10
<1>17. Len(P) \in Nat /\ Len(P) <= PageSize
  BY <1>1, <1>10, <1>13
<1>18. ~HasNext(k) => \A i \in DOMAIN source : i <= lo + PageSize
  BY <1>1, <1>3, <1>6
<1> QED
  BY <1>1, <1>2, <1>12, <1>14, <1>15, <1>16, <1>17, <1>18 DEF lo, P

\* A page is read to its end, or up to the record that leaves no room.
CutAt(n, W, room) ==
    IF Cardinality(W) < room THEN n
    ELSE CHOOSE i \in W : Cardinality({j \in W : j <= i}) = room

LEMMA CutFacts ==
    ASSUME NEW n \in Nat \ {0}, NEW W \in SUBSET (1..n), NEW room \in Nat \ {0},
           NEW c, c = CutAt(n, W, room)
    PROVE  /\ c \in 1..n
           /\ Rank(W, c) \in 0..room
           /\ Rank(W, c) < room => c = n
<1>1. /\ Cardinality(W) \in 0..n
      /\ \A k \in 1..Cardinality(W) : \E i \in W : Rank(W, i) = k
  BY RankFacts
<1>2. CASE Cardinality(W) < room
  <2>1. c = n
    BY <1>2 DEF CutAt
  <2>2. {i \in W : i <= c} = W
    <3>1. \A i \in W : i \in 1..n
      OBVIOUS
    <3>2. \A i \in W : i <= c
      BY ONLY <2>1, <3>1, n \in Nat
    <3> QED BY <3>2
  <2> QED BY <1>1, <1>2, <2>1, <2>2 DEF Rank
<1>3. CASE ~(Cardinality(W) < room)
  <2>1. room \in 1..Cardinality(W)
    BY <1>1, <1>3
  <2>2. c = CHOOSE i \in W : Rank(W, i) = room
    BY <1>3 DEF Rank, CutAt
  <2>3. c \in W /\ Rank(W, c) = room
    BY <1>1, <2>1, <2>2
  <2>5. c \in 1..n
    BY <2>3
  <2> QED BY <2>3, <2>5
<1> QED
  BY <1>2, <1>3

\* What is found on a page: the wanted records of it up to the cut, for which
\* there is room.
FoundOn(page) == Ids(Picked(page, {i \in Wanted(page) : i <= Cut(page)}))

LEMMA FoundFacts ==
    ASSUME TypeOK, Len(run.found) < MaxItems, NEW page \in Seq(Record), page # <<>>
    PROVE  /\ Cut(page) \in 1..Len(page)
           /\ FoundOn(page) \in Seq(RecordId)
           /\ Len(FoundOn(page)) = Len(Picked(page, {i \in Wanted(page) : i <= Cut(page)}))
           /\ Len(FoundOn(page)) \in Nat
           /\ Len(run.found) + Len(FoundOn(page)) <= MaxItems
           /\ Len(run.found) + Len(FoundOn(page)) < MaxItems => Cut(page) = Len(page)
           /\ ToSet(FoundOn(page)) = {page[i].id : i \in {j \in Wanted(page) : j <= Cut(page)}}
<1> DEFINE n == Len(page)
           W == Wanted(page)
           room == MaxItems - Len(run.found)
           c == Cut(page)
           U == {i \in W : i <= c}
           P == Picked(page, U)
<1>1. n \in Nat \ {0} /\ DOMAIN page = 1..n
  <2>1. n \in Nat /\ DOMAIN page = 1..n
    BY LenProperties
  <2>2. n # 0
    BY EmptySeq
  <2> QED BY <2>1, <2>2
<1>2. W \in SUBSET (1..n)
  BY <1>1 DEF Wanted
<1>3. Len(run.found) \in Nat /\ room \in Nat \ {0}
  <2>1. run.found \in Seq(RecordId)
    BY DEF TypeOK, RunType
  <2>2. Len(run.found) \in Nat
    BY <2>1, LenProperties
  <2> QED BY ONLY <2>2, LimitAssumption, Len(run.found) < MaxItems
<1>4. c = CutAt(n, W, room)
  BY DEF Cut, CutAt
<1> HIDE DEF n, W, room, c
<1>5. /\ c \in 1..n /\ Cardinality(U) \in 0..room
      /\ Cardinality(U) < room => c = n
  <2>1. c \in 1..n /\ Rank(W, c) \in 0..room /\ (Rank(W, c) < room => c = n)
    BY <1>1, <1>2, <1>3, <1>4, CutFacts
  <2> QED BY <2>1 DEF Rank
<1>6. U \in SUBSET DOMAIN page
  BY <1>1, <1>2
<1> HIDE DEF U
<1>7. /\ P \in Seq(Record) /\ Len(P) = Cardinality(U) /\ DOMAIN P = 1..Cardinality(U)
      /\ Cardinality(U) \in Nat
      /\ \A k \in 1..Cardinality(U) : PlaceOf(U, k) \in U /\ P[k] = page[PlaceOf(U, k)]
      /\ \A i \in U : \E k \in 1..Cardinality(U) : PlaceOf(U, k) = i
  BY <1>6, PickedFacts
<1> HIDE DEF P
<1>8. FoundOn(page) = [k \in 1..Cardinality(U) |-> P[k].id]
  BY <1>7 DEF FoundOn, Ids, P, U, W, c
<1>9. /\ FoundOn(page) \in Seq(RecordId) /\ Len(FoundOn(page)) = Cardinality(U)
      /\ DOMAIN FoundOn(page) = 1..Cardinality(U)
  <2>1. \A k \in 1..Cardinality(U) : P[k].id \in RecordId
    BY <1>7, ListTypes
  <2>2. FoundOn(page) \in [1..Cardinality(U) -> RecordId]
    BY <1>8, <2>1
  <2> QED BY <2>2, <1>7
<1>10. ToSet(FoundOn(page)) = {page[i].id : i \in U}
  <2>1. \A k \in DOMAIN FoundOn(page) : \E i \in U : FoundOn(page)[k] = page[i].id
    BY <1>7, <1>8, <1>9
  <2>2. \A i \in U : \E k \in DOMAIN FoundOn(page) : FoundOn(page)[k] = page[i].id
    BY <1>7, <1>8, <1>9
  <2> QED BY <2>1, <2>2 DEF ToSet
<1>11. /\ Len(run.found) + Cardinality(U) <= MaxItems
       /\ Len(run.found) + Cardinality(U) < MaxItems => c = n
  <2>1. room = MaxItems - Len(run.found) /\ MaxItems \in Nat
    BY LimitAssumption DEF room
  <2> QED BY ONLY <2>1, <1>3, <1>5, <1>7
<1> QED
  BY <1>5, <1>7, <1>9, <1>10, <1>11 DEF P, U, W, c, n

\* The part of a page that is read.
ReadOf(page) == SubSeq(page, 1, Cut(page))

Newest(page) == Max({run.watermark} \cup DaysOf({r \in ToSet(ReadOf(page)) : InWindow(r)}))

LEMMA ReadFacts ==
    ASSUME NEW page \in Seq(Record), Cut(page) \in 1..Len(page)
    PROVE  /\ ReadOf(page) \in Seq(Record)
           /\ Last(ReadOf(page)) = page[Cut(page)]
           /\ ToSet(ReadOf(page)) = {page[i] : i \in 1..Cut(page)}
           /\ IdSet(ReadOf(page)) = {page[i].id : i \in 1..Cut(page)}
<1> DEFINE c == Cut(page)
           R == ReadOf(page)
<1>1. Len(page) \in Nat /\ c \in 1..Len(page) /\ 1 \in Int /\ c \in Int
      /\ \A i \in 1..c : page[i] \in Record
  <2>1. Len(page) \in Nat /\ c \in 1..Len(page)
    BY LenProperties
  <2>2. \A i \in 1..c : i \in 1..Len(page)
    BY <2>1
  <2> QED BY <2>1, <2>2, ElementOfSeq
<1> HIDE DEF c
<1>2. /\ R \in Seq(Record) /\ Len(R) = c
      /\ \A i \in 1..c : R[i] = page[i]
  <2>1. R = SubSeq(page, 1, c)
    BY DEF ReadOf, c
  <2>2. /\ SubSeq(page, 1, c) \in Seq(Record)
        /\ Len(SubSeq(page, 1, c)) = IF 1 <= c THEN c - 1 + 1 ELSE 0
        /\ \A i \in 1..(c - 1 + 1) : SubSeq(page, 1, c)[i] = page[1 + i - 1]
    BY <1>1, SubSeqProperties
  <2>3. 1 <= c /\ c - 1 + 1 = c /\ \A i \in 1..c : 1 + i - 1 = i
    BY <1>1
  <2> QED BY <2>1, <2>2, <2>3
<1> HIDE DEF R
<1>3. DOMAIN R = 1..c
  BY <1>2, LenProperties
<1>4. Last(R) = page[c]
  BY <1>1, <1>2 DEF Last
<1>5. ToSet(R) = {page[i] : i \in 1..c}
  BY <1>2, <1>3 DEF ToSet
<1>6. IdSet(R) = {page[i].id : i \in 1..c}
  <2>1. Ids(R) = [i \in 1..c |-> page[i].id]
    BY <1>2, <1>3 DEF Ids
  <2> QED BY <2>1 DEF IdSet, ToSet
<1> QED
  BY <1>2, <1>4, <1>5, <1>6 DEF R, c

\* The newest day seen is that of a record read now, or the one of before.
LEMMA NewestFacts ==
    ASSUME TypeOK, run.watermark <= today,
           NEW page \in Seq(Record), Cut(page) \in 1..Len(page),
           \A i \in 1..Len(page) : page[i].date <= today
    PROVE  /\ Newest(page) \in Day /\ Newest(page) \in Int
           /\ Newest(page) >= run.watermark /\ Newest(page) <= today
           /\ Newest(page) = run.watermark
                 \/ \E x \in 1..Cut(page) : page[x].date = Newest(page)
<1> DEFINE N == DaysOf({r \in ToSet(ReadOf(page)) : InWindow(r)})
           S == {run.watermark} \cup N
<1>1. \A d \in N : \E x \in 1..Cut(page) : page[x].date = d
  BY ReadFacts DEF DaysOf
<1>2. Len(page) \in Nat /\ \A x \in 1..Cut(page) : x \in 1..Len(page)
  BY LenProperties
<1>3. \A x \in 1..Len(page) : page[x].date \in Day /\ page[x].date \in Int
  BY ListTypes
<1> HIDE DEF N
<1>4. \A d \in N : d \in Day /\ d \in Int /\ d <= today
  BY <1>1, <1>2, <1>3
<1>5. run.watermark \in Day /\ run.watermark \in Int /\ today \in Int
  BY StateTypes DEF TypeOK, RunType
<1>6. S \in SUBSET Int /\ S # {} /\ \A x \in S : x <= today
  BY <1>4, <1>5
<1> HIDE DEF S
<1>7. Max(S) \in S /\ \A x \in S : Max(S) >= x
  BY <1>5, <1>6, MaxFacts
<1>8. Newest(page) = Max(S)
  BY DEF Newest, S, N
<1>9. run.watermark \in S /\ \A x \in S : x = run.watermark \/ x \in N
  BY DEF S
<1> QED
  BY <1>1, <1>4, <1>5, <1>6, <1>7, <1>8, <1>9

\* The traversal has come to the anchor it looks for, or has none to look for.
Anchored(page) == run.seeking = None \/ AnchorFound(page)

Full(page) == Len(run.found) + Len(FoundOn(page)) >= MaxItems

OlderBefore(page) == IF Anchored(page) THEN run.older ELSE 0

\* The last records of a page, by which a continuation recognises it.
TailOf(page) == ToSet(SubSeq(Ids(page), Max({1, Len(page) - 2}), Len(page)))

ProgressAt(page) ==
    [rule |-> run.rule, policy |-> run.policy, window |-> run.window,
     page |-> run.page, anchor |-> Last(ReadOf(page)).id,
     processed |-> Processed0 \cup IdSet(ReadOf(page)), older |-> OlderBefore(page),
     watermark |-> Newest(page), complete |-> ~Full(page), overlap |-> TailOf(page)]

LEMMA TailFacts ==
    ASSUME NEW page \in Seq(Record), page # <<>>
    PROVE  /\ Ids(page) \in Seq(RecordId)
           /\ \A x \in TailOf(page) : \E i \in 1..Len(page) : x = page[i].id
           /\ \A x \in IdSet(page) : \E i \in 1..Len(page) : x = page[i].id
<1> DEFINE n == Len(page)
           s == Ids(page)
           m == Max({1, n - 2})
<1>1. n \in Nat /\ DOMAIN page = 1..n /\ n # 0
  BY LenProperties, EmptySeq
<1>2. \A i \in 1..n : page[i].id \in RecordId
  BY <1>1, ListTypes
<1>3. s = [i \in 1..n |-> page[i].id]
  BY <1>1 DEF Ids
<1> HIDE DEF n, s
<1>4. s \in Seq(RecordId) /\ Len(s) = n /\ DOMAIN s = 1..n
  <2>1. s \in [1..n -> RecordId]
    BY <1>2, <1>3
  <2> QED BY <2>1, <1>1
<1>5. m \in Int /\ m >= 1 /\ m <= n
  <2> DEFINE S == {1, n - 2}
  <2>1. S \in SUBSET Int /\ S # {} /\ n \in Int /\ \A x \in S : x <= n
    BY <1>1
  <2>2. 1 \in S /\ \A x \in S : x \in Int /\ x <= n
    BY <2>1
  <2> HIDE DEF S
  <2>3. Max(S) \in S /\ \A x \in S : Max(S) >= x
    BY <2>1, MaxFacts
  <2> QED BY <2>2, <2>3 DEF S
<1> HIDE DEF m
<1> DEFINE t == SubSeq(s, m, n)
<1>6. /\ t \in Seq(RecordId) /\ Len(t) = n - m + 1
      /\ \A i \in 1..(n - m + 1) : t[i] = s[m + i - 1]
  <2>1. \A i \in m..n : i \in 1..n
    BY <1>1, <1>5
  <2>2. m \in Int /\ n \in Int /\ \A i \in m..n : s[i] \in RecordId
    BY <1>1, <1>2, <1>3, <1>5, <2>1
  <2>3. /\ SubSeq(s, m, n) \in Seq(RecordId)
        /\ Len(SubSeq(s, m, n)) = IF m <= n THEN n - m + 1 ELSE 0
        /\ \A i \in 1..(n - m + 1) : SubSeq(s, m, n)[i] = s[m + i - 1]
    BY <2>2, SubSeqProperties
  <2> QED BY <2>3, <1>5
<1>7. TailOf(page) = ToSet(t)
  BY DEF TailOf, t, s, m, n
<1> HIDE DEF t
<1>8. ASSUME NEW x \in ToSet(t) PROVE \E i \in 1..n : x = page[i].id
  <2>1. PICK j \in 1..(n - m + 1) : x = t[j]
    BY <1>6, LenProperties DEF ToSet
  <2>2. m + j - 1 \in 1..n
    BY <1>1, <1>5
  <2> QED BY <2>1, <2>2, <1>3, <1>6
<1>9. \A x \in ToSet(s) : \E i \in 1..n : x = page[i].id
  BY <1>3, <1>4 DEF ToSet
<1> QED
  BY <1>4, <1>7, <1>8, <1>9 DEF IdSet, n, s

\* The run after a page, field by field.
LEMMA AfterPageFields ==
    ASSUME TypeOK, run.watermark <= today,
           run.pc = "listing", run.read < MaxPages, Len(run.found) < MaxItems,
           run.resume # None => run.resume \in Progress,
           NEW page \in Seq(Record), page # <<>>,
           \A i \in 1..Len(page) : page[i].date <= today
    PROVE  LET r == AfterPage(page)
           IN  /\ r \in RunType /\ Len(r.found) <= MaxItems
               /\ (~Full(page) => Len(r.found) < MaxItems)
               /\ r.pc = "listing" /\ r.retry = run.retry /\ r.rule = run.rule
               /\ r.policy = run.policy /\ r.observed = run.observed
               /\ r.window = run.window /\ r.checkpoint = run.checkpoint
               /\ r.before = run.before /\ r.complete = run.complete
               /\ r.found = run.found \o FoundOn(page)
               /\ r.watermark = Newest(page)
               /\ r.seeking = (IF Anchored(page) THEN None ELSE run.seeking)
               /\ r.resume = (IF Anchored(page) THEN None ELSE run.resume)
               /\ r.page = run.page + 1
               /\ r.stop = (IF Full(page) THEN "max_items" ELSE "none")
               /\ (r.older # 0 => \A i \in 1..Len(page) : ~InWindow(page[i]))
               /\ r.progress = (IF Traversing THEN ProgressAt(page) ELSE None)
               /\ (Traversing => ProgressAt(page) \in Progress)
<1> DEFINE older == IF \A i \in DOMAIN page : ~InWindow(page[i])
                    THEN OlderBefore(page) + 1 ELSE 0
           oldest == IF Traversing THEN Last(page).date ELSE NoDate
           seen == IF Traversing THEN run.pagesSeen \cup {Ids(page)} ELSE run.pagesSeen
           progress == IF Traversing THEN ProgressAt(page) ELSE None
           found == run.found \o FoundOn(page)
           newest == Newest(page)
           seeking == IF Anchored(page) THEN None ELSE run.seeking
           resume == IF Anchored(page) THEN None ELSE run.resume
           stop == IF Full(page) THEN "max_items" ELSE "none"
           r == AfterPage(page)
<1>1. /\ Cut(page) \in 1..Len(page)
      /\ FoundOn(page) \in Seq(RecordId) /\ Len(FoundOn(page)) \in Nat
      /\ Len(FoundOn(page)) = Len(Picked(page, {i \in Wanted(page) : i <= Cut(page)}))
      /\ Len(run.found) + Len(FoundOn(page)) <= MaxItems
  BY FoundFacts
<1>2. run \in RunType /\ run.found \in Seq(RecordId) /\ Len(run.found) \in Nat
      /\ run.read \in 0..MaxPages /\ run.page \in Nat /\ run.older \in Nat
  BY LenProperties DEF TypeOK, RunType
<1>3. Len(page) \in Nat \ {0} /\ DOMAIN page = 1..Len(page)
      /\ \A i \in 1..Len(page) : page[i].id \in RecordId /\ page[i].date \in Day
  BY ListTypes, EmptySeq
<1>4. r = [run EXCEPT !.found = found, !.watermark = newest, !.seeking = seeking,
                      !.resume = resume, !.older = older, !.oldest = oldest,
                      !.pagesSeen = seen, !.page = run.page + 1, !.read = run.read + 1,
                      !.stop = stop, !.progress = progress]
  BY <1>1, <1>2 DEF AfterPage, FoundOn, Newest, ReadOf, Anchored, Full, OlderBefore,
                    ProgressAt, TailOf
<1>5. found \in Seq(RecordId) /\ Len(found) = Len(run.found) + Len(FoundOn(page))
  BY <1>1, <1>2, ConcatProperties
<1>6. newest \in Day
  BY <1>1, NewestFacts
<1>7. OlderBefore(page) \in Nat
  BY <1>2 DEF OlderBefore
<1>8. ASSUME Traversing PROVE progress \in Progress
  <2>1. Last(ReadOf(page)).id \in RecordId
    <3>1. Last(ReadOf(page)) = page[Cut(page)]
      BY <1>1, ReadFacts
    <3> QED BY <1>1, <1>3, <3>1
  <2>2. IdSet(ReadOf(page)) \in SUBSET RecordId
    <3>1. IdSet(ReadOf(page)) = {page[i].id : i \in 1..Cut(page)}
      BY <1>1, ReadFacts
    <3>2. \A i \in 1..Cut(page) : i \in 1..Len(page)
      BY <1>1, <1>3
    <3> QED BY <1>3, <3>1, <3>2
  <2>3. Processed0 \in SUBSET RecordId
    BY DEF Processed0, Progress
  <2>4. TailOf(page) \in SUBSET RecordId
    BY <1>3, TailFacts
  <2>5. /\ run.rule \in Context /\ run.policy \in Context /\ run.window \in Int
        /\ Full(page) \in BOOLEAN
    BY <1>2 DEF RunType, Full
  <2> QED BY <1>2, <1>6, <1>7, <1>8, <2>1, <2>2, <2>3, <2>4, <2>5 DEF ProgressAt, Progress
<1>9. /\ older \in Nat /\ oldest \in Day /\ seen \in SUBSET Seq(RecordId)
      /\ progress \in Progress \cup {None}
      /\ seeking \in RecordId \cup {None} /\ resume \in Progress \cup {None}
      /\ stop \in StopReason /\ run.page + 1 \in Nat /\ run.read + 1 \in 0..MaxPages
  <2>1. older \in Nat
    BY <1>7
  <2>2. oldest \in Day
    <3>1. Last(page) = page[Len(page)]
      BY DEF Last
    <3> QED BY <1>3, <3>1, LimitAssumption DEF Day, NoDate
  <2>3. seen \in SUBSET Seq(RecordId)
    BY <1>2, TailFacts DEF RunType
  <2>4. seeking \in RecordId \cup {None} /\ resume \in Progress \cup {None}
    BY <1>2 DEF RunType
  <2>5. run.page + 1 \in Nat /\ run.read + 1 \in 0..MaxPages
    BY <1>2, LimitAssumption
  <2>6. stop \in StopReason
    BY DEF StopReason
  <2> QED BY <1>8, <2>1, <2>2, <2>3, <2>4, <2>5, <2>6
<1>10. older # 0 => \A i \in 1..Len(page) : ~InWindow(page[i])
  BY <1>3
<1>11. Len(found) <= MaxItems /\ (~Full(page) => Len(found) < MaxItems)
  <2>1. MaxItems \in Nat
    BY LimitAssumption
  <2> QED BY <1>1, <1>2, <1>5, <2>1 DEF Full
<1> HIDE DEF older, oldest, seen, progress, found, newest, seeking, resume, stop, r
<1>12. r \in RunType
  BY <1>2, <1>4, <1>5, <1>6, <1>9 DEF RunType
<1>13. /\ r.pc = "listing" /\ r.retry = run.retry /\ r.rule = run.rule
       /\ r.policy = run.policy /\ r.observed = run.observed
       /\ r.window = run.window /\ r.checkpoint = run.checkpoint
       /\ r.before = run.before /\ r.complete = run.complete
       /\ r.found = found /\ r.watermark = newest /\ r.seeking = seeking
       /\ r.resume = resume /\ r.page = run.page + 1 /\ r.stop = stop
       /\ r.older = older /\ r.progress = progress
  BY <1>2, <1>4 DEF RunType
<1> QED
  BY <1>8, <1>10, <1>11, <1>12, <1>13
     DEF older, progress, found, newest, seeking, resume, stop, r

\* A page of the list, as the run finds it.
LEMMA PageContext ==
    ASSUME CoverageInv, run.pc = "listing", Page(run.page) # <<>>,
           NEW page, page = Page(run.page), NEW lo, lo = run.page * PageSize
    PROVE  /\ page \in Seq(Record) /\ Len(page) \in Nat \ {0} /\ page # <<>>
           /\ lo \in Nat /\ lo + Len(page) \in Nat
           /\ \A i \in 1..Len(page) : /\ lo + i \in DOMAIN source
                                      /\ page[i] = source[lo + i]
                                      /\ page[i].date <= today /\ page[i].id <= published
           /\ \A i \in DOMAIN source : lo < i /\ i <= lo + PageSize => i - lo \in 1..Len(page)
           /\ (run.page + 1) * PageSize = lo + PageSize
           /\ ~HasNext(run.page) => \A i \in DOMAIN source : i <= lo + PageSize
           /\ run.watermark <= today /\ Len(run.found) < MaxItems /\ ~run.retry
           /\ (run.resume # None => run.resume \in Progress)
           /\ run \in RunType
<1> USE DEF CoverageInv
<1>1. run \in RunType /\ run.page \in Nat /\ run.resume \in Progress \cup {None}
      /\ run.retry \in BOOLEAN
  BY DEF TypeOK, RunType
<1>2. run.watermark <= today /\ Len(run.found) < MaxItems /\ ~run.retry
  BY <1>1 DEF RunBounds
<1>3. /\ lo \in Nat /\ (run.page + 1) * PageSize = lo + PageSize
      /\ page \in Seq(Record) /\ Len(page) \in Nat
      /\ \A i \in 1..Len(page) : lo + i \in DOMAIN source /\ page[i] = source[lo + i]
      /\ \A i \in DOMAIN source : lo < i /\ i <= lo + PageSize => i - lo \in 1..Len(page)
      /\ ~HasNext(run.page) => \A i \in DOMAIN source : i <= lo + PageSize
  BY <1>1, PageFacts
<1>4. Len(page) # 0
  BY <1>3, EmptySeq
<1>5. \A i \in 1..Len(page) : page[i].date <= today /\ page[i].id <= published
  BY <1>3 DEF ListOK
<1> QED
  BY <1>1, <1>2, <1>3, <1>4, <1>5

\* The run after the page: what AfterPageFields says of it, in the invariant.
LEMMA PageFields ==
    ASSUME CoverageInv, run.pc = "listing", run.read < MaxPages, Page(run.page) # <<>>,
           NEW page, page = Page(run.page), NEW r, r = AfterPage(page)
    PROVE  /\ r \in RunType /\ Len(r.found) <= MaxItems
           /\ (~Full(page) => Len(r.found) < MaxItems)
           /\ r.pc = "listing" /\ r.retry = run.retry /\ r.rule = run.rule
           /\ r.policy = run.policy /\ r.observed = run.observed
           /\ r.window = run.window /\ r.checkpoint = run.checkpoint
           /\ r.before = run.before /\ r.complete = run.complete
           /\ r.found = run.found \o FoundOn(page)
           /\ r.watermark = Newest(page)
           /\ r.seeking = (IF Anchored(page) THEN None ELSE run.seeking)
           /\ r.resume = (IF Anchored(page) THEN None ELSE run.resume)
           /\ r.page = run.page + 1
           /\ r.stop = (IF Full(page) THEN "max_items" ELSE "none")
           /\ (r.older # 0 => \A i \in 1..Len(page) : ~InWindow(page[i]))
           /\ r.progress = (IF Traversing THEN ProgressAt(page) ELSE None)
           /\ (Traversing => ProgressAt(page) \in Progress)
<1>1. /\ page \in Seq(Record) /\ page # <<>> /\ \A i \in 1..Len(page) : page[i].date <= today
      /\ run.watermark <= today /\ Len(run.found) < MaxItems
      /\ (run.resume # None => run.resume \in Progress)
  BY PageContext
<1> QED
  BY <1>1, AfterPageFields DEF CoverageInv

\* How far the page is read, and what of it is found.
LEMMA PageFound ==
    ASSUME CoverageInv, run.pc = "listing", Page(run.page) # <<>>,
           NEW page, page = Page(run.page)
    PROVE  /\ Cut(page) \in 1..Len(page) /\ Cut(page) \in Int
           /\ ~Full(page) => Cut(page) = Len(page)
           /\ LET F == ToSet(run.found \o FoundOn(page))
              IN  /\ ToSet(run.found) \subseteq F
                  /\ \A i \in 1..Cut(page) : \/ page[i].date < run.window
                                             \/ page[i].id \in Processed0
                                             \/ page[i].id \in F
           /\ Newest(page) \in Int /\ Newest(page) \in Day /\ Newest(page) <= today
           /\ Newest(page) >= run.watermark
           /\ \/ Newest(page) = run.watermark
              \/ \E x \in 1..Cut(page) : page[x].date = Newest(page)
           /\ Last(ReadOf(page)) = page[Cut(page)]
           /\ IdSet(ReadOf(page)) = {page[i].id : i \in 1..Cut(page)}
<1>1. /\ TypeOK /\ page \in Seq(Record) /\ page # <<>> /\ Len(page) \in Nat
      /\ \A i \in 1..Len(page) : page[i].date <= today
      /\ run.watermark <= today /\ Len(run.found) < MaxItems
  BY PageContext DEF CoverageInv
<1>2. /\ Cut(page) \in 1..Len(page)
      /\ FoundOn(page) \in Seq(RecordId) /\ Len(FoundOn(page)) \in Nat
      /\ Len(run.found) + Len(FoundOn(page)) <= MaxItems
      /\ Len(run.found) + Len(FoundOn(page)) < MaxItems => Cut(page) = Len(page)
      /\ ToSet(FoundOn(page)) = {page[i].id : i \in {j \in Wanted(page) : j <= Cut(page)}}
  BY <1>1, FoundFacts
<1>3. run.found \in Seq(RecordId) /\ Len(run.found) \in Nat /\ run.window \in Int
  BY <1>1, LenProperties DEF TypeOK, RunType
<1>4. ~Full(page) => Cut(page) = Len(page)
  <2>1. MaxItems \in Int
    BY LimitAssumption
  <2> QED BY ONLY <2>1, <1>2, <1>3 DEF Full
<1>5. ToSet(run.found \o FoundOn(page)) = ToSet(run.found) \cup ToSet(FoundOn(page))
  <2> DEFINE s == run.found
             t == FoundOn(page)
  <2>1. s \in Seq(RecordId) /\ t \in Seq(RecordId) /\ Len(s) \in Nat /\ Len(t) \in Nat
        /\ DOMAIN s = 1..Len(s) /\ DOMAIN t = 1..Len(t)
    BY <1>2, <1>3, LenProperties
  <2> HIDE DEF s, t
  <2>2. /\ Len(s \o t) = Len(s) + Len(t) /\ DOMAIN (s \o t) = 1..(Len(s) + Len(t))
        /\ \A i \in 1..(Len(s) + Len(t)) :
              (s \o t)[i] = IF i <= Len(s) THEN s[i] ELSE t[i - Len(s)]
    BY <2>1, ConcatProperties, LenProperties
  <2>3. ASSUME NEW k \in DOMAIN (s \o t) PROVE (s \o t)[k] \in ToSet(s) \cup ToSet(t)
    <3>1. CASE k <= Len(s)
      BY <2>1, <2>2, <3>1 DEF ToSet
    <3>2. CASE ~(k <= Len(s))
      <4>1. k - Len(s) \in 1..Len(t)
        BY <2>1, <2>2, <3>2
      <4> QED BY <2>1, <2>2, <3>2, <4>1 DEF ToSet
    <3> QED BY <3>1, <3>2
  <2>4. ASSUME NEW k \in 1..Len(s) PROVE \E m \in DOMAIN (s \o t) : (s \o t)[m] = s[k]
    <3>1. k \in 1..(Len(s) + Len(t)) /\ k <= Len(s)
      BY <2>1
    <3> QED BY <2>2, <3>1
  <2>5. ASSUME NEW k \in 1..Len(t) PROVE \E m \in DOMAIN (s \o t) : (s \o t)[m] = t[k]
    <3>1. /\ Len(s) + k \in 1..(Len(s) + Len(t)) /\ ~(Len(s) + k <= Len(s))
          /\ (Len(s) + k) - Len(s) = k
      BY <2>1
    <3> QED BY <2>2, <3>1
  <2>6. ASSUME NEW x \in ToSet(s) \cup ToSet(t) PROVE x \in ToSet(s \o t)
    BY <2>1, <2>4, <2>5 DEF ToSet
  <2>7. ASSUME NEW x \in ToSet(s \o t) PROVE x \in ToSet(s) \cup ToSet(t)
    <3>1. PICK k \in DOMAIN (s \o t) : x = (s \o t)[k]
      BY DEF ToSet
    <3> QED BY <3>1, <2>3
  <2> QED BY <2>6, <2>7 DEF s, t
<1>6. ASSUME NEW i \in 1..Cut(page)
      PROVE  \/ page[i].date < run.window
             \/ page[i].id \in Processed0
             \/ page[i].id \in ToSet(run.found) \cup ToSet(FoundOn(page))
  <2>1. i \in DOMAIN page /\ i <= Cut(page) /\ page[i].date \in Int
    BY <1>1, <1>2, ListTypes
  <2>2. i \in Wanted(page) => page[i].id \in ToSet(FoundOn(page))
    BY <1>2, <2>1
  <2>3. InWindow(page[i]) \/ page[i].date < run.window
    BY <1>3, <2>1 DEF InWindow
  <2> QED BY <2>1, <2>2, <2>3 DEF Wanted
<1>7. /\ Newest(page) \in Int /\ Newest(page) \in Day /\ Newest(page) <= today
      /\ Newest(page) >= run.watermark
      /\ Newest(page) = run.watermark \/ \E x \in 1..Cut(page) : page[x].date = Newest(page)
  BY <1>1, <1>2, NewestFacts
<1>8. Last(ReadOf(page)) = page[Cut(page)]
      /\ IdSet(ReadOf(page)) = {page[i].id : i \in 1..Cut(page)}
  BY <1>1, <1>2, ReadFacts
<1> QED
  BY <1>2, <1>4, <1>5, <1>6, <1>7, <1>8

\* Whoever comes to the anchor has left everything before this page behind it.
LEMMA AnchorPassed ==
    ASSUME CoverageInv, run.pc = "listing", Reading, Page(run.page) # <<>>,
           NEW page, page = Page(run.page), Anchored(page), run.seeking # None,
           NEW i \in DOMAIN source, i <= run.page * PageSize
    PROVE  Past(i)
<1> DEFINE lo == run.page * PageSize
<1>1. /\ page \in Seq(Record) /\ page # <<>> /\ lo \in Nat
      /\ \A k \in 1..Len(page) : lo + k \in DOMAIN source /\ page[k] = source[lo + k]
  BY PageContext
<1>2. run.seeking = run.resume.anchor
  BY DEF CoverageInv, ListingSound
<1>3. \E x \in IdSet(page) \cup TailOf(page) : x \in Anchors(run.resume) /\ x \in IdSet(page)
  <2>1. CASE run.seeking \in IdSet(page)
    BY <1>2, <2>1 DEF Anchors
  <2>2. CASE /\ run.resume.complete
             /\ Cardinality(IdSet(page) \cap run.resume.overlap) >= 2
    <3>1. IdSet(page) \cap run.resume.overlap # {}
      BY <2>2, FS_EmptySet
    <3> QED BY <2>2, <3>1 DEF Anchors
  <2> QED BY <2>1, <2>2 DEF Anchored, AnchorFound
<1>4. PICK k \in 1..Len(page) : page[k].id \in Anchors(run.resume)
  BY <1>1, <1>3, TailFacts
<1> HIDE DEF lo
<1>5. i <= lo + k /\ lo + k \in DOMAIN source /\ source[lo + k].id \in Anchors(run.resume)
  <2>1. i \in Int /\ k \in Int /\ k >= 1 /\ i <= lo
    BY StateTypes, <1>1 DEF lo, CoverageInv
  <2>2. i <= lo + k
    BY ONLY <1>1, <2>1
  <2> QED BY <1>1, <1>4, <2>2
<1> QED
  BY <1>5 DEF Past

\* The pages behind the run, this one included as far as it is read, are settled.
LEMMA PageSettles ==
    ASSUME CoverageInv, run.pc = "listing", Reading, run.read < MaxPages,
           Page(run.page) # <<>>,
           NEW page, page = Page(run.page), NEW r, r = AfterPage(page),
           NEW i \in DOMAIN source, i <= run.page * PageSize + Cut(page),
           r.seeking # None =>
               \E j \in DOMAIN source : i <= j /\ source[j].id \in Anchors(r.resume)
    PROVE  Settled(source, HandledIds \cup ToSet(r.found), Floor, run.window, r.watermark, i)
<1> DEFINE lo == run.page * PageSize
           c == Cut(page)
           F == ToSet(r.found)
<1>1. /\ r.found = run.found \o FoundOn(page) /\ r.watermark = Newest(page)
      /\ r.seeking = (IF Anchored(page) THEN None ELSE run.seeking)
      /\ r.resume = (IF Anchored(page) THEN None ELSE run.resume)
  BY PageFields
<1>2. /\ c \in 1..Len(page) /\ c \in Int
      /\ ToSet(run.found) \subseteq F
      /\ \A k \in 1..c : \/ page[k].date < run.window
                         \/ page[k].id \in Processed0
                         \/ page[k].id \in F
      /\ r.watermark \in Int
      /\ r.watermark = run.watermark \/ \E x \in 1..c : page[x].date = r.watermark
  BY <1>1, PageFound
<1>3. /\ lo \in Nat /\ Len(page) \in Nat
      /\ \A k \in 1..Len(page) : lo + k \in DOMAIN source /\ page[k] = source[lo + k]
  BY PageContext
<1>4. i \in Int /\ source[i].date \in Int /\ i >= 1 /\ i <= lo + c
  BY StateTypes, ListTypes DEF CoverageInv
<1> HIDE DEF lo, c, F
<1>5. CASE i <= lo
  <2>1. run.seeking # None => Past(i)
    <3>1. CASE Anchored(page)
      BY <1>5, <3>1, AnchorPassed DEF lo
    <3>2. CASE ~Anchored(page)
      BY <1>1, <3>2 DEF Past
    <3> QED BY <3>1, <3>2
  <2>2. Settled(source, HandledIds \cup ToSet(run.found), Floor,
                run.window, run.watermark, i)
    BY <1>5, <2>1 DEF CoverageInv, ListingSound, lo
  <2>3. source[i].date >= run.watermark - Lookback => source[i].date >= r.watermark - Lookback
    <3>1. CASE r.watermark = run.watermark
      BY <3>1
    <3>2. CASE \E x \in 1..c : page[x].date = r.watermark
      <4>1. PICK x \in 1..c : page[x].date = r.watermark
        BY <3>2
      <4>2. x \in 1..Len(page) /\ i <= lo + x
        BY ONLY <1>2, <1>3, <1>4, <1>5, x \in 1..c
      <4>3. lo + x \in DOMAIN source /\ source[i].date >= source[lo + x].date
        BY <1>3, <4>2 DEF CoverageInv, ListOK
      <4>4. source[i].date >= r.watermark
        BY <1>3, <4>1, <4>2, <4>3
      <4> QED BY <1>2, <1>4, <4>4, LimitAssumption
    <3> QED BY <1>2, <3>1, <3>2
  <2> QED BY <1>2, <2>2, <2>3 DEF Settled, F
<1>6. CASE lo < i
  <2>1. i - lo \in 1..c /\ i - lo \in 1..Len(page) /\ lo + (i - lo) = i
    BY ONLY <1>2, <1>3, <1>4, <1>6
  <2>2. page[i - lo] = source[i]
    BY <1>3, <2>1
  <2>3. \/ source[i].date < run.window
        \/ source[i].id \in Processed0
        \/ source[i].id \in F
    BY <1>2, <2>1, <2>2
  <2>4. source[i].id \in Processed0 => source[i].id \in HandledIds \/ source[i].date < run.window
    <3> SUFFICES ASSUME source[i].id \in Processed0
                 PROVE  source[i].id \in HandledIds \/ source[i].date < run.window
      OBVIOUS
    <3>1. run.resume # None /\ source[i].id \in run.resume.processed
      BY DEF Processed0
    <3>2. run.before # None /\ run.resume = run.before
      BY <3>1 DEF CoverageInv, RunBounds
    <3>3. Continues(source, HandledIds, Floor, run.before) /\ run.before.window = run.window
      BY <3>2 DEF CoverageInv, RunFounded
    <3> QED BY <3>1, <3>2, <3>3 DEF Continues
  <2> QED BY <2>3, <2>4 DEF Settled, F
<1> QED
  BY <1>3, <1>4, <1>5, <1>6

\* The progress noted after a page keeps to the bounds.
LEMMA ProgressAtOK ==
    ASSUME CoverageInv, run.pc = "listing", run.read < MaxPages, Page(run.page) # <<>>,
           NEW page, page = Page(run.page), Traversing
    PROVE  ProgressOK(ProgressAt(page), today, published) /\ ProgressAt(page).rule = run.rule
<1> USE DEF CoverageInv
<1>1. ProgressAt(page) \in Progress
  <2>1. Traversing => ProgressAt(page) \in Progress
    BY PageFields
  <2> QED BY <2>1
<1>2. /\ page \in Seq(Record) /\ page # <<>>
      /\ \A i \in 1..Len(page) : page[i].id <= published
      /\ Len(page) \in Nat
  BY PageContext
<1>3. /\ Cut(page) \in 1..Len(page) /\ Newest(page) <= today
      /\ Last(ReadOf(page)) = page[Cut(page)]
      /\ IdSet(ReadOf(page)) = {page[i].id : i \in 1..Cut(page)}
  BY PageFound
<1>4. run.window <= today
  BY DEF RunBounds
<1>5. \A x \in Processed0 : x <= published
  BY DEF Processed0, RunBounds, ProgressOK
<1>6. \A x \in TailOf(page) : x <= published
  BY <1>2, TailFacts
<1>7. \A x \in IdSet(ReadOf(page)) : x <= published
  <2>1. \A i \in 1..Cut(page) : i \in 1..Len(page)
    BY <1>2, <1>3
  <2> QED BY <1>2, <1>3, <2>1
<1>8. Last(ReadOf(page)).id <= published
  BY <1>2, <1>3
<1>9. /\ ProgressAt(page).window = run.window /\ ProgressAt(page).watermark = Newest(page)
      /\ ProgressAt(page).processed = Processed0 \cup IdSet(ReadOf(page))
      /\ ProgressAt(page).overlap = TailOf(page)
      /\ ProgressAt(page).anchor = Last(ReadOf(page)).id
      /\ ProgressAt(page).rule = run.rule
  BY DEF ProgressAt
<1> HIDE DEF CoverageInv
<1> QED
  BY <1>1, <1>3, <1>4, <1>5, <1>6, <1>7, <1>8, <1>9 DEF ProgressOK

\* And a continuation can go on from it.
LEMMA PageContinues ==
    ASSUME CoverageInv, run.pc = "listing", Reading, Traversing, run.read < MaxPages,
           Page(run.page) # <<>>,
           NEW page, page = Page(run.page), NEW r, r = AfterPage(page), r.seeking = None
    PROVE  /\ Continues(source, HandledIds \cup ToSet(r.found), Floor, ProgressAt(page))
           /\ ProgressAt(page).window = run.window
<1> DEFINE lo == run.page * PageSize
           c == Cut(page)
           H == HandledIds \cup ToSet(r.found)
           p == ProgressAt(page)
<1>1. r.found = run.found \o FoundOn(page) /\ r.watermark = Newest(page)
  BY PageFields
<1>2. /\ c \in 1..Len(page) /\ c \in Int
      /\ ~Full(page) => c = Len(page)
      /\ \A k \in 1..c : \/ page[k].date < run.window
                         \/ page[k].id \in Processed0
                         \/ page[k].id \in ToSet(r.found)
      /\ Last(ReadOf(page)) = page[c]
      /\ IdSet(ReadOf(page)) = {page[k].id : k \in 1..c}
  BY <1>1, PageFound
<1>3. /\ lo \in Nat /\ Len(page) \in Nat /\ page \in Seq(Record) /\ page # <<>>
      /\ \A k \in 1..Len(page) : lo + k \in DOMAIN source /\ page[k] = source[lo + k]
  BY PageContext
<1>4. /\ p.window = run.window /\ p.watermark = r.watermark
      /\ p.processed = Processed0 \cup IdSet(ReadOf(page)) /\ p.overlap = TailOf(page)
      /\ p.anchor = page[c].id /\ p.complete = ~Full(page)
  BY <1>1, <1>2 DEF ProgressAt
<1>5. \A i, j \in DOMAIN source : source[i].id = source[j].id => i = j
  BY DEF CoverageInv, ListOK
<1>6. \A i \in DOMAIN source : i \in Int
  BY ListTypes, StateTypes DEF CoverageInv
<1>7. ASSUME NEW i \in DOMAIN source, source[i].id \in Processed0
      PROVE  source[i].id \in H \/ source[i].date < run.window
  <2>1. run.resume # None /\ source[i].id \in run.resume.processed
    BY <1>7 DEF Processed0
  <2>2. run.before # None /\ run.resume = run.before
    BY <2>1 DEF CoverageInv, RunBounds
  <2>3. Continues(source, HandledIds, Floor, run.before) /\ run.before.window = run.window
    BY <2>2 DEF CoverageInv, RunFounded
  <2> QED BY <2>1, <2>2, <2>3 DEF Continues
<1>8. ASSUME NEW i \in DOMAIN source, i <= lo + c
      PROVE  Settled(source, H, Floor, run.window, r.watermark, i)
  BY <1>8, PageSettles
<1> HIDE DEF lo, c, H, p
<1>9. \A k \in 1..c : k \in 1..Len(page)
  BY <1>2, <1>3
<1>10. ASSUME NEW i \in DOMAIN source, source[i].id \in p.processed
       PROVE  source[i].id \in H \/ source[i].date < p.window
  <2>1. CASE source[i].id \in Processed0
    BY <2>1, <1>4, <1>7
  <2>2. CASE source[i].id \in IdSet(ReadOf(page))
    <3>1. PICK k \in 1..c : source[i].id = page[k].id
      BY <2>2, <1>2
    <3>2. i = lo + k /\ page[k] = source[i]
      BY <3>1, <1>3, <1>5, <1>9
    <3> QED BY <3>1, <3>2, <1>2, <1>4, <1>7 DEF H
  <2> QED BY <1>4, <1>10, <2>1, <2>2
<1>11. ASSUME NEW j \in DOMAIN source, source[j].id \in Anchors(p)
       PROVE  j <= lo + c
  <2>1. PICK k \in 1..Len(page) : source[j].id = page[k].id /\ k <= c
    <3>1. CASE source[j].id = p.anchor
      BY <3>1, <1>2, <1>4
    <3>2. CASE p.complete /\ source[j].id \in p.overlap
      <4>1. PICK k \in 1..Len(page) : source[j].id = page[k].id
        BY <3>2, <1>3, <1>4, TailFacts
      <4>2. c = Len(page)
        BY <3>2, <1>2, <1>4
      <4>3. k <= c
        BY ONLY <4>1, <4>2, <1>3
      <4> QED BY <4>1, <4>3
    <3> QED BY <1>11, <3>1, <3>2 DEF Anchors
  <2>2. j = lo + k
    BY <2>1, <1>3, <1>5
  <2> QED BY ONLY <2>1, <2>2, <1>2, <1>3
<1>12. ASSUME NEW i \in DOMAIN source, NEW j \in DOMAIN source, i <= j,
              source[j].id \in Anchors(p)
       PROVE  Settled(source, H, Floor, p.window, p.watermark, i)
  <2>1. j <= lo + c /\ i \in Int /\ j \in Int
    BY <1>6, <1>11, <1>12
  <2>2. i <= lo + c
    BY ONLY <2>1, <1>12, <1>2, <1>3
  <2> QED BY <2>2, <1>4, <1>8
<1>13. Continues(source, H, Floor, p)
  BY <1>10, <1>12 DEF Continues
<1> QED
  BY <1>4, <1>13 DEF H, p

\* The list is at its end, and everything on it settled.
LEMMA WholeList ==
    ASSUME CoverageInv, run.pc = "listing", Reading, run.read < MaxPages,
           Page(run.page) # <<>>,
           NEW page, page = Page(run.page), NEW r, r = AfterPage(page), r.seeking = None,
           Whole(StopAfter(r, run.page)), NEW i \in DOMAIN source
    PROVE  Settled(source, HandledIds \cup ToSet(r.found), Floor, run.window, r.watermark, i)
<1> DEFINE lo == run.page * PageSize
           n == Len(page)
<1>1. /\ r \in RunType
      /\ r.stop = (IF Full(page) THEN "max_items" ELSE "none")
      /\ (r.older # 0 => \A k \in 1..n : ~InWindow(page[k]))
  BY PageFields
<1>2. Cut(page) \in 1..n /\ (~Full(page) => Cut(page) = n)
  BY PageFound
<1>3. /\ lo \in Nat /\ n \in Nat \ {0} /\ page \in Seq(Record)
      /\ \A k \in 1..n : lo + k \in DOMAIN source /\ page[k] = source[lo + k]
      /\ \A k \in DOMAIN source : lo < k /\ k <= lo + PageSize => k - lo \in 1..n
      /\ ~HasNext(run.page) => \A k \in DOMAIN source : k <= lo + PageSize
  BY PageContext
<1>4. i \in Int /\ source[i].date \in Int /\ source[i].date \in Int
      /\ \A k \in 1..n : page[k].date \in Int
  BY <1>3, ListTypes, StateTypes DEF CoverageInv
<1>5. i <= lo + Cut(page) =>
          Settled(source, HandledIds \cup ToSet(r.found), Floor, run.window, r.watermark, i)
  BY PageSettles
<1>6. ~Full(page) /\ (r.older >= OlderPages \/ ~HasNext(run.page))
  BY <1>1 DEF Whole, StopAfter
<1>7. Cut(page) = n
  BY <1>2, <1>6
<1> HIDE DEF lo, n
<1>8. CASE i <= lo + n
  BY <1>5, <1>7, <1>8
<1>9. CASE ~(i <= lo + n)
  <2>1. HasNext(run.page)
    <3> SUFFICES ASSUME ~HasNext(run.page) PROVE FALSE
      OBVIOUS
    <3>1. i <= lo + PageSize
      BY <1>3
    <3>2. lo < i
      BY ONLY <1>3, <1>4, <1>9
    <3>3. i - lo \in 1..n
      BY <1>3, <3>1, <3>2
    <3> QED BY ONLY <1>3, <1>4, <1>9, <3>3
  <2>2. r.older # 0
    BY <1>6, <2>1, LimitAssumption
  <2>3. 1 \in 1..n /\ lo + 1 <= i
    BY ONLY <1>3, <1>4, <1>9
  <2>4. page[1].date < run.window
    <3>1. run.window \in Int
      BY StateTypes DEF CoverageInv
    <3> QED BY <1>1, <1>4, <2>2, <2>3, <3>1 DEF InWindow, n
  <2>5. lo + 1 \in DOMAIN source /\ page[1] = source[lo + 1]
    BY <1>3, <2>3
  <2>6. source[lo + 1].date >= source[i].date
    BY <2>3, <2>5 DEF CoverageInv, ListOK
  <2>7. source[i].date < run.window
    <3>1. run.window \in Int
      BY StateTypes DEF CoverageInv
    <3> QED BY <1>4, <2>3, <2>4, <2>5, <2>6, <3>1
  <2> QED BY <2>7 DEF Settled
<1> QED
  BY <1>8, <1>9

LEMMA ReadPageStep ==
    ASSUME CoverageInv, ReadPage
    PROVE  CoverageInv'
<1> USE DEF CoverageInv
<1> DEFINE page == Page(run.page)
           r == AfterPage(page)
           reason == StopAfter(r, run.page)
<1>1. /\ run.pc = "listing" /\ run.read < MaxPages /\ Page(run.page) # <<>>
      /\ run' = IF reason = "none" THEN r ELSE EndListing(r, reason)
      /\ UNCHANGED <<today, source, published, collector, snapshot, kept, backlog, faults,
                     skipped>>
  BY DEF ReadPage, Environment
<1>2. /\ r \in RunType /\ Len(r.found) <= MaxItems
      /\ (~Full(page) => Len(r.found) < MaxItems)
      /\ r.pc = "listing" /\ r.retry = run.retry /\ r.rule = run.rule
      /\ r.policy = run.policy /\ r.observed = run.observed
      /\ r.window = run.window /\ r.checkpoint = run.checkpoint
      /\ r.before = run.before /\ r.complete = run.complete
      /\ r.watermark = Newest(page)
      /\ r.seeking = (IF Anchored(page) THEN None ELSE run.seeking)
      /\ r.resume = (IF Anchored(page) THEN None ELSE run.resume)
      /\ r.page = run.page + 1
      /\ r.stop = (IF Full(page) THEN "max_items" ELSE "none")
      /\ r.progress = (IF Traversing THEN ProgressAt(page) ELSE None)
  BY <1>1, PageFields
<1>3. /\ Newest(page) <= today /\ (~Full(page) => Cut(page) = Len(page))
  BY <1>1, PageFound
<1>4. Traversing => /\ ProgressOK(ProgressAt(page), today, published)
                    /\ ProgressAt(page).rule = run.rule
  BY <1>1, ProgressAtOK
<1>5. ~run.retry
  BY <1>1, PageContext
<1>6. Reading /\ Traversing /\ r.seeking = None =>
          /\ Continues(source, HandledIds \cup ToSet(r.found), Floor, ProgressAt(page))
          /\ ProgressAt(page).window = run.window
  BY <1>1, PageContinues
<1>7. Reading /\ r.seeking = None /\ Whole(reason) =>
          \A i \in DOMAIN source :
              Settled(source, HandledIds \cup ToSet(r.found), Floor, run.window,
                      r.watermark, i)
  BY <1>1, WholeList
<1>8. Reading => \A i \in DOMAIN source :
          i <= run.page * PageSize + Cut(page)
          /\ (r.seeking # None =>
                  \E j \in DOMAIN source : i <= j /\ source[j].id \in Anchors(r.resume)) =>
              Settled(source, HandledIds \cup ToSet(r.found), Floor, run.window,
                      r.watermark, i)
  BY <1>1, PageSettles
<1>9. reason \in {"none", "max_items", "time_window_reached", "checkpoint_reached",
                  "next_link_exhausted", "max_pages"}
      /\ (reason = "none" => ~Full(page) /\ HasNext(run.page))
  <2>1. reason \in {"none", "max_items", "time_window_reached", "checkpoint_reached",
                    "next_link_exhausted", "max_pages"}
    BY DEF StopAfter
  <2>2. reason = "none" => r.stop # "max_items" /\ HasNext(run.page)
    BY DEF StopAfter
  <2> QED BY <1>2, <2>1, <2>2
<1>10. /\ run \in RunType /\ run.page \in Nat
       /\ run.resume # None => run.resume = run.before
       /\ run.before # None => run.observed
       /\ Reading /\ run.seeking # None => /\ run.resume # None
                                           /\ run.seeking = run.resume.anchor
  <2>1. run \in RunType /\ run.page \in Nat
    BY DEF TypeOK, RunType
  <2>2. /\ run.resume # None => run.resume = run.before
        /\ run.before # None => run.observed
    BY <1>1 DEF RunBounds
  <2>3. Reading /\ run.seeking # None => run.resume # None /\ run.seeking = run.resume.anchor
    BY <1>1 DEF ListingSound
  <2> QED BY <2>1, <2>2, <2>3
<1>11. /\ (run.page + 1) * PageSize = run.page * PageSize + PageSize
       /\ \A i \in DOMAIN source :
             run.page * PageSize < i /\ i <= run.page * PageSize + PageSize =>
                 i - run.page * PageSize \in 1..Len(page)
       /\ run.page * PageSize \in Nat /\ Len(page) \in Nat
       /\ \A i \in DOMAIN source : i \in Int
  <2>1. \A i \in DOMAIN source : i \in Int
    BY StateTypes
  <2> QED BY <1>1, <2>1, PageContext
<1> HIDE DEF page, reason, r
\* What holds of the run however the loop goes on.
<1>12. /\ run' \in RunType /\ run'.found = r.found /\ run'.watermark = r.watermark
       /\ SameRun
       /\ run'.progress = None \/ (Traversing /\ run'.progress = ProgressAt(page))
  <2>1. CASE reason = "none"
    BY <1>1, <1>2, <2>1 DEF SameRun
  <2>2. CASE reason # "none"
    <3> DEFINE stop == IF r.seeking # None /\ Traversing THEN "coverage_order_unverified"
                       ELSE reason
               done == Traversing /\ Whole(stop)
               note == IF Traversing /\ stop \in {"max_items", "max_pages"}
                       THEN r.progress ELSE None
    <3>1. run' = [r EXCEPT !.pc = "details", !.stop = stop, !.complete = done,
                           !.progress = note]
      BY <1>1, <2>2 DEF EndListing
    <3>2. stop \in StopReason /\ done \in BOOLEAN /\ note \in Progress \cup {None}
      <4>1. stop \in StopReason
        BY <1>9 DEF StopReason
      <4>2. done \in BOOLEAN
        BY <1>10 DEF Whole
      <4>3. note \in Progress \cup {None}
        BY <1>2 DEF RunType
      <4> QED BY <4>1, <4>2, <4>3
    <3> HIDE DEF stop, done
    <3>3. note = None \/ (Traversing /\ note = ProgressAt(page))
      BY <1>2
    <3> HIDE DEF note
    <3>4. run' \in RunType
      BY <1>2, <3>1, <3>2 DEF RunType
    <3>5. /\ run'.found = r.found /\ run'.watermark = r.watermark
          /\ run'.progress = note
          /\ run'.rule = r.rule /\ run'.policy = r.policy /\ run'.observed = r.observed
          /\ run'.retry = r.retry /\ run'.window = r.window
          /\ run'.checkpoint = r.checkpoint /\ run'.before = r.before
      BY <1>2, <3>1 DEF RunType
    <3> QED BY <1>2, <3>3, <3>4, <3>5 DEF SameRun
  <2> QED BY <2>1, <2>2
<1>13. faults' \in Int /\ faults <= faults'
  BY <1>1, StateTypes
<1>14. /\ ListOK' /\ RowsOK' /\ RowsSound' /\ RunContext' /\ RunFounded'
       /\ Floor' = Floor /\ HandledIds' = HandledIds /\ (Reading' => Reading)
  BY <1>1, <1>12, <1>13, RuntimeStep
<1>15. TypeOK'
  BY <1>1, <1>2, <1>12 DEF TypeOK
<1>16. /\ (reason = "none" => run' = r)
       /\ (reason # "none" =>
             /\ run'.pc = "details"
             /\ run'.stop = (IF r.seeking # None /\ Traversing
                             THEN "coverage_order_unverified" ELSE reason)
             /\ run'.complete = (Traversing /\ Whole(run'.stop))
             /\ (run'.progress # None => run'.stop \in {"max_items", "max_pages"}))
  <2>1. ASSUME reason # "none"
        PROVE  /\ run'.pc = "details"
               /\ run'.stop = (IF r.seeking # None /\ Traversing
                               THEN "coverage_order_unverified" ELSE reason)
               /\ run'.complete = (Traversing /\ Whole(run'.stop))
               /\ (run'.progress # None => run'.stop \in {"max_items", "max_pages"})
    <3> DEFINE stop == IF r.seeking # None /\ Traversing THEN "coverage_order_unverified"
                       ELSE reason
               done == Traversing /\ Whole(stop)
               note == IF Traversing /\ stop \in {"max_items", "max_pages"}
                       THEN r.progress ELSE None
    <3>1. run' = [r EXCEPT !.pc = "details", !.stop = stop, !.complete = done,
                           !.progress = note]
      BY <1>1, <2>1 DEF EndListing
    <3>2. note # None => stop \in {"max_items", "max_pages"}
      OBVIOUS
    <3> HIDE DEF stop, done, note
    <3>3. run'.pc = "details" /\ run'.stop = stop /\ run'.complete = done
          /\ run'.progress = note
      BY <1>2, <3>1 DEF RunType
    <3>4. done = (Traversing /\ Whole(run'.stop))
      BY <3>3 DEF done
    <3> QED BY <3>2, <3>3, <3>4 DEF stop
  <2> QED BY <1>1, <2>1
<1>17. RunBounds'
  <2>1. run'.window <= today' /\ run'.watermark <= today'
    BY <1>1, <1>2, <1>3, <1>12 DEF RunBounds, SameRun
  <2>2. /\ run'.checkpoint # None => CheckpointOK(run'.checkpoint, today')
        /\ run'.before # None => /\ run'.observed
                                 /\ ProgressOK(run'.before, today', published')
                                 /\ run'.before.rule <= run'.rule
    BY <1>1, <1>12 DEF RunBounds, SameRun
  <2>3. run'.progress # None => /\ ProgressOK(run'.progress, today', published')
                                /\ run'.progress.rule <= run'.rule
    <3>1. run.rule <= run.rule
      BY <1>10, LimitAssumption DEF RunType, Context
    <3> QED BY <1>1, <1>4, <1>12, <3>1 DEF SameRun
  <2>4. ~run'.retry
    BY <1>5, <1>12 DEF SameRun
  <2>5. run'.pc = "listing" => /\ run'.stop = "none" /\ Len(run'.found) < MaxItems
                               /\ run'.resume # None => run'.resume = run'.before
    BY <1>2, <1>9, <1>10, <1>16
  <2> QED BY <2>1, <2>2, <2>3, <2>4, <2>5 DEF RunBounds
<1>18. ListingSound'
  <2> SUFFICES ASSUME Reading, reason = "none" PROVE ListingSound'
    BY <1>14, <1>16 DEF ListingSound
  <2>1. run' = r /\ Cut(page) = Len(page)
    BY <1>3, <1>9, <1>16
  <2>2. run'.seeking # None => run'.resume # None /\ run'.seeking = run'.resume.anchor
    BY <1>2, <1>10, <2>1
  <2>3. ASSUME NEW i \in DOMAIN source, i <= run'.page * PageSize,
               run'.seeking # None => Past(i)'
        PROVE  Settled(source, HandledIds \cup ToSet(run'.found), Floor,
                       run'.window, run'.watermark, i)
    <3>1. i <= run.page * PageSize + Cut(page)
      <4> DEFINE lo == run.page * PageSize
      <4>1. i <= lo + PageSize
        BY <1>2, <1>11, <2>1, <2>3
      <4>2. lo < i => i - lo \in 1..Len(page)
        BY <1>11, <4>1
      <4>3. lo \in Nat /\ Len(page) \in Nat /\ i \in Int
        <5>1. i \in Int
          <6>1. i \in DOMAIN source
            BY <1>1, <2>3
          <6> QED BY <1>11, <6>1
        <5>2. lo \in Nat
          BY <1>11
        <5>3. Len(page) \in Nat
          BY <1>11
        <5> QED BY <5>1, <5>2, <5>3
      <4> HIDE DEF lo
      <4>4. i <= lo + Len(page)
        BY ONLY <4>2, <4>3
      <4> QED BY <2>1, <4>4 DEF lo
    <3>2. r.seeking # None =>
              \E j \in DOMAIN source : i <= j /\ source[j].id \in Anchors(r.resume)
      BY <1>1, <2>1, <2>3 DEF Past
    <3>3. Settled(source, HandledIds \cup ToSet(r.found), Floor, run.window, r.watermark, i)
      BY <1>8, <3>1, <3>2
    <3> QED BY <1>2, <2>1, <3>3
  <2> QED BY <1>1, <1>14, <2>2, <2>3 DEF ListingSound
<1>19. ResultSound'
  <2> SUFFICES ASSUME Reading, reason # "none" PROVE ResultSound'
    BY <1>2, <1>14, <1>16 DEF ResultSound
  <2>1. run'.stop # "coverage_order_unverified" => r.seeking = None
    <3>1. CASE Traversing
      BY <1>16, <3>1
    <3>2. CASE ~Traversing
      <4>1. ~run.observed
        BY <1>5, <3>2 DEF Traversing
      <4>2. run.seeking = None
        BY <1>10, <4>1
      <4> QED BY <1>2, <4>2
    <3> QED BY <3>1, <3>2
  <2>2. Whole(run'.stop) => /\ r.seeking = None /\ Whole(reason)
                            /\ ~(run'.stop \in {"max_items", "max_pages"})
    BY <1>16, <2>1 DEF Whole
  <2>3. Whole(run'.stop) =>
            \A i \in DOMAIN source :
                Settled(source, HandledIds \cup ToSet(run'.found), Floor,
                        run'.window, run'.watermark, i)
    BY <1>7, <1>12, <2>2 DEF SameRun
  <2>4. run'.progress # None =>
            /\ Continues(source, HandledIds \cup ToSet(run'.found), Floor, run'.progress)
            /\ run'.progress.window = run'.window
    BY <1>6, <1>12, <1>16, <2>1 DEF SameRun
  <2>5. run'.complete => run'.progress = None /\ Whole(run'.stop)
    BY <1>16, <2>2
  <2>6. run'.stop # "not_applicable"
    BY <1>9, <1>16
  <2> QED BY <1>1, <1>14, <2>3, <2>4, <2>5, <2>6 DEF ResultSound
<1> HIDE DEF CoverageInv
<1> QED
  BY <1>14, <1>15, <1>17, <1>18, <1>19 DEF CoverageInv

-----------------------------------------------------------------------------
(* The end of a run *)

\* Without a run there is nothing to be said of it.
LEMMA IdleRun ==
    ASSUME run' = NoRun
    PROVE  /\ run' \in RunType /\ Len(run'.found) <= MaxItems
           /\ RunContext' /\ RunBounds' /\ RunFounded' /\ ListingSound' /\ ResultSound'
<1>1. run'.pc = "idle" /\ run'.found = <<>>
  BY DEF NoRun
<1>2. NoRun \in RunType
  <2>1. /\ 1 \in Context /\ 0 \in 0..MaxPages /\ NoDate \in Day
        /\ {} \in SUBSET Seq(RecordId) /\ <<>> \in Seq(RecordId) /\ "none" \in StopReason
    BY LimitAssumption DEF Context, NoDate, Day, StopReason
  <2> QED BY <2>1 DEF NoRun, RunType
<1>3. Len(run'.found) <= MaxItems
  BY <1>1, EmptySeq, LimitAssumption
<1> QED
  BY <1>1, <1>2, <1>3
     DEF RunContext, RunBounds, RunFounded, ListingSound, ResultSound, Reading

\* A run that ends and leaves nothing.
LEMMA EndedRun ==
    ASSUME CoverageInv, run' = NoRun, faults' \in 0..MaxFaults, faults <= faults',
           UNCHANGED <<today, source, published, collector, snapshot, kept, backlog, skipped>>
    PROVE  CoverageInv'
<1> USE DEF CoverageInv
<1>1. /\ run' \in RunType /\ Len(run'.found) <= MaxItems
      /\ RunContext' /\ RunBounds' /\ RunFounded' /\ ListingSound' /\ ResultSound'
  BY IdleRun
<1>2. /\ Floor' = Floor /\ HandledIds' = HandledIds /\ Matches' = Matches
      /\ LateStart' = LateStart /\ CurrentCheckpoint' = CurrentCheckpoint
  BY DEF Floor, HandledIds, Handled, Excused, Matches, LateStart, CurrentCheckpoint
<1>3. TypeOK' /\ ListOK' /\ RowsSound'
  BY <1>1, <1>2 DEF TypeOK, ListOK, RowsSound, Reaches
<1>4. RowsOK'
  <2>1. /\ today \in Int /\ published \in Int /\ faults \in Int
        /\ faults' \in Int /\ today <= today /\ published <= published
    BY StateTypes, LimitAssumption
  <2>2. \A row : RowOK(row, today, published, faults)
                     => RowOK(row, today, published, faults')
    BY <2>1, OKKept
  <2> QED BY <1>2, <2>2 DEF RowsOK
<1> QED
  BY <1>1, <1>3, <1>4

LEMMA RefuseCommitStep ==
    ASSUME CoverageInv, RefuseCommit
    PROVE  CoverageInv'
<1>1. /\ run' = NoRun
      /\ UNCHANGED <<today, source, published, collector, snapshot, kept, backlog, faults,
                     skipped>>
  BY DEF RefuseCommit, Environment
<1>2. faults \in 0..MaxFaults /\ faults <= faults
  BY StateTypes DEF CoverageInv, TypeOK
<1> QED
  BY <1>1, <1>2, EndedRun

LEMMA FailStep ==
    ASSUME CoverageInv, Fail
    PROVE  CoverageInv'
<1>1. /\ run' = NoRun
      /\ faults' = faults \/ (faults' = faults + 1 /\ faults < MaxFaults)
      /\ UNCHANGED <<today, source, published, collector, snapshot, kept, backlog, skipped>>
  BY DEF Fail, Environment
<1>2. faults \in 0..MaxFaults /\ faults \in Nat
  BY StateTypes DEF CoverageInv, TypeOK
<1>3. faults' \in 0..MaxFaults /\ faults <= faults'
  BY ONLY <1>1, <1>2, LimitAssumption
<1> QED
  BY <1>1, <1>3, EndedRun

-----------------------------------------------------------------------------
(* The transaction that ends a run *)

\* The checkpoint the transaction writes.
NewCheckpoint ==
    [rule |-> run.rule, policy |-> run.policy, watermark |-> NextWatermark,
     since |-> IF run.checkpoint = None THEN run.window ELSE run.checkpoint.since]

\* Its watermark is that of the run, of the checkpoint before, or the window.
LEMMA WatermarkFacts ==
    ASSUME CoverageInv, run.pc # "idle"
    PROVE  /\ NextWatermark \in Int /\ NextWatermark <= today
           /\ \/ NextWatermark = run.watermark
              \/ run.checkpoint # None /\ NextWatermark = run.checkpoint.watermark
              \/ NextWatermark = run.window
           /\ NewCheckpoint \in Checkpoint
<1> USE DEF CoverageInv
<1> DEFINE S == {run.watermark}
                \cup (IF run.checkpoint = None THEN {} ELSE {run.checkpoint.watermark})
                \cup (IF run.observed THEN {run.window} ELSE {})
<1>1. /\ run.watermark \in Int /\ run.watermark <= today
      /\ run.window \in Int /\ run.window <= today /\ today \in Int
  BY StateTypes DEF RunBounds
<1>2. run.checkpoint # None => /\ run.checkpoint.watermark \in Int
                               /\ run.checkpoint.watermark <= today
                               /\ run.checkpoint.since \in Int
  BY DEF RunBounds, CheckpointOK, Checkpoint
<1>3. \A x \in S : /\ x \in Int /\ x <= today
                   /\ \/ x = run.watermark
                      \/ run.checkpoint # None /\ x = run.checkpoint.watermark
                      \/ x = run.window
  BY <1>1, <1>2
<1>4. S \in SUBSET Int /\ S # {}
  BY <1>1, <1>3
<1>5. NextWatermark = Max(S)
  BY DEF NextWatermark
<1> HIDE DEF S
<1>6. NextWatermark \in S
  BY <1>1, <1>3, <1>4, <1>5, MaxFacts
<1>7. run.rule \in Context /\ run.policy \in Context
  BY DEF TypeOK, RunType
<1>8. NextWatermark \in Int /\ NextWatermark <= today
      /\ \/ NextWatermark = run.watermark
         \/ run.checkpoint # None /\ NextWatermark = run.checkpoint.watermark
         \/ NextWatermark = run.window
  BY <1>3, <1>6
<1>9. NewCheckpoint \in Checkpoint
  BY <1>1, <1>2, <1>7, <1>8 DEF NewCheckpoint, Checkpoint
<1> QED
  BY <1>8, <1>9

\* What the whole list of a run leaves to the checkpoint that is written for it.
LEMMA CheckpointWritten ==
    ASSUME CoverageInv, Reading, run.pc # "idle",
           NEW G, HandledIds \subseteq G,
           \A i \in DOMAIN source : Settled(source, G, Floor, run.window, run.watermark, i)
    PROVE  /\ Covers(source, G, NewCheckpoint)
           /\ Floor = LateStart => Linked(source, G, LateStart, NewCheckpoint)
<1> USE DEF CoverageInv
<1> DEFINE ck == NewCheckpoint
<1>1. /\ ck.watermark \in Int
      /\ \/ ck.watermark = run.watermark
         \/ run.checkpoint # None /\ ck.watermark = run.checkpoint.watermark
         \/ ck.watermark = run.window
      /\ ck.since = IF run.checkpoint = None THEN run.window ELSE run.checkpoint.since
  BY WatermarkFacts DEF NewCheckpoint
<1>2. /\ run.window \in Int /\ Floor \in Int
      /\ \A i \in DOMAIN source : source[i].date \in Int
  BY StateTypes, ListTypes, FloorFacts
<1> HIDE DEF ck
<1>3. ASSUME NEW i \in DOMAIN source, source[i].date < run.window
      PROVE  source[i].id \in G \/ source[i].date < ck.since
  <2>1. CASE run.checkpoint = None
    BY <1>1, <1>3, <2>1
  <2>2. CASE run.checkpoint # None
    <3>1. Linked(source, HandledIds, run.window, run.checkpoint)
      BY <2>2 DEF RunFounded
    <3> QED BY <1>1, <1>3, <2>2, <3>1 DEF Linked
  <2> QED BY <2>1, <2>2
<1>4. ASSUME NEW i \in DOMAIN source
      PROVE  \/ source[i].id \in G
             \/ source[i].date < ck.since
             \/ source[i].date >= ck.watermark - Lookback
  <2>1. \/ source[i].id \in G
        \/ source[i].date < run.window
        \/ source[i].date >= run.watermark - Lookback
    BY DEF Settled
  <2>2. CASE ck.watermark = run.watermark
    BY <1>3, <2>1, <2>2
  <2>3. CASE run.checkpoint # None /\ ck.watermark = run.checkpoint.watermark
    <3>1. Covers(source, HandledIds, run.checkpoint)
      BY <2>3 DEF RunFounded
    <3> QED BY <1>1, <2>3, <3>1 DEF Covers
  <2>4. CASE ck.watermark = run.window
    <3>1. source[i].date < run.window \/ source[i].date >= ck.watermark - Lookback
      BY <1>2, <2>4, LimitAssumption
    <3> QED BY <1>3, <3>1
  <2> QED BY <1>1, <2>2, <2>3, <2>4
<1>5. ASSUME Floor = LateStart, NEW i \in DOMAIN source, source[i].date < LateStart
      PROVE  source[i].id \in G \/ source[i].date < ck.since
  <2>1. Settled(source, G, Floor, run.window, run.watermark, i)
    OBVIOUS
  <2>2. ~(source[i].date >= Floor)
    BY <1>2, <1>5
  <2>3. source[i].id \in G \/ source[i].date < run.window
    BY <2>1, <2>2 DEF Settled
  <2> QED BY <1>3, <2>3
<1>6. Covers(source, G, ck)
  BY <1>4 DEF Covers
<1>7. Floor = LateStart => Linked(source, G, LateStart, ck)
  BY <1>5 DEF Linked
<1> QED
  BY <1>6, <1>7 DEF ck

LEMMA CommitStep ==
    ASSUME CoverageInv, Commit
    PROVE  CoverageInv'
<1> USE DEF CoverageInv
<1>1. /\ run.pc = "finishing" /\ ~ContextLost /\ run' = NoRun
      /\ UNCHANGED <<today, source, published, snapshot, skipped>>
  BY DEF Commit, Environment
<1>2. PICK rejected \in SUBSET ToSet(run.found) :
        LET found == ToSet(run.found)
            good  == IF run.observed THEN found ELSE found \ rejected
        IN  /\ faults + Cardinality(rejected) <= MaxFaults
            /\ faults' = faults + Cardinality(rejected)
            /\ kept' = [r \in RecordId |-> IF r \notin good THEN kept[r] ELSE
                            kept[r] \cup {[policy |-> run.policy, rule |-> run.rule]}]
            /\ backlog' = (backlog \ found) \cup rejected
            /\ collector' = [collector EXCEPT
                 !.progress = IF run.observed /\ ~run.retry THEN run.progress ELSE @,
                 !.checkpoint = IF ~Advances(rejected) THEN @ ELSE NewCheckpoint]
  BY DEF Commit, NewCheckpoint
<1> DEFINE found == ToSet(run.found)
           good == IF run.observed THEN found ELSE found \ rejected
           progress == IF run.observed /\ ~run.retry THEN run.progress ELSE collector.progress
           checkpoint == IF ~Advances(rejected) THEN collector.checkpoint ELSE NewCheckpoint
<1>3. /\ run \in RunType /\ run.policy \in Context /\ run.rule \in Context
      /\ run.found \in Seq(RecordId) /\ collector \in Row
      /\ run.observed \in BOOLEAN /\ run.retry \in BOOLEAN
      /\ run.rule \in Int /\ run.policy \in Int
  BY LimitAssumption DEF TypeOK, RunType, Context
<1>4. found \in SUBSET RecordId
  BY <1>3, ElementOfSeq, LenProperties DEF ToSet
<1>5. faults' \in 0..MaxFaults /\ faults <= faults'
  <2>1. IsFiniteSet(RecordId)
    BY LimitAssumption, FS_Interval DEF RecordId
  <2>2. rejected \in SUBSET RecordId
    BY <1>4
  <2>3. Cardinality(rejected) \in Nat
    BY <2>1, <2>2, FS_Subset, FS_CardinalityType
  <2>4. faults \in Nat /\ faults + Cardinality(rejected) <= MaxFaults
        /\ faults' = faults + Cardinality(rejected)
    BY <1>2, StateTypes
  <2> QED BY ONLY <2>3, <2>4, LimitAssumption
<1>6. /\ collector' = [collector EXCEPT !.progress = progress, !.checkpoint = checkpoint]
      /\ kept' = [r \in RecordId |-> IF r \notin good THEN kept[r] ELSE
                      kept[r] \cup {[policy |-> run.policy, rule |-> run.rule]}]
      /\ backlog' = (backlog \ found) \cup rejected
  BY <1>2
<1>7. good \in SUBSET found /\ (run.observed => good = found)
      /\ (rejected = {} => good = found)
  OBVIOUS
<1>8. NewCheckpoint \in Checkpoint /\ NextWatermark <= today
  BY <1>1, WatermarkFacts
<1> HIDE DEF good
<1>9. /\ checkpoint \in Checkpoint \cup {None} /\ progress \in Progress \cup {None}
  BY <1>3, <1>8 DEF RunType, Row
<1>10. /\ collector' \in Row /\ collector'.progress = progress
       /\ collector'.checkpoint = checkpoint
       /\ collector'.rule = collector.rule /\ collector'.policy = collector.policy
       /\ collector'.observed = collector.observed
  <2> HIDE DEF progress, checkpoint
  <2> QED BY <1>3, <1>6, <1>9 DEF Row
<1>11. /\ run' \in RunType /\ Len(run'.found) <= MaxItems
       /\ RunContext' /\ RunBounds' /\ RunFounded' /\ ListingSound' /\ ResultSound'
  BY <1>1, IdleRun
<1>12. kept' \in [RecordId -> SUBSET [policy : Context, rule : Context]]
  <2>1. [policy |-> run.policy, rule |-> run.rule] \in [policy : Context, rule : Context]
    BY <1>3
  <2>2. \A r \in RecordId : kept[r] \in SUBSET [policy : Context, rule : Context]
    BY DEF TypeOK
  <2> QED BY <1>6, <2>1, <2>2
<1>13. TypeOK'
  <2>1. backlog' \subseteq RecordId
    BY <1>2, <1>4, <1>6 DEF TypeOK
  <2> QED BY <1>1, <1>5, <1>10, <1>11, <1>12, <2>1 DEF TypeOK
<1>14. ListOK'
  BY <1>1 DEF ListOK
<1>15. HandledIds \subseteq HandledIds'
  <2>1. \A r \in RecordId : kept[r] \subseteq kept'[r]
    BY <1>6
  <2> QED BY <1>1, <1>10, <2>1 DEF HandledIds, Handled, Excused
<1>16. run.policy = collector.policy => good \subseteq HandledIds'
  <2> SUFFICES ASSUME run.policy = collector.policy, NEW x \in good
               PROVE  x \in HandledIds'
    OBVIOUS
  <2>1. x \in RecordId /\ run.rule = collector.rule
    BY <1>1, <1>4, <1>7 DEF RunContext
  <2>2. [policy |-> run.policy, rule |-> run.rule] \in kept'[x]
    BY <1>6, <2>1
  <2> QED BY <1>10, <2>1, <2>2 DEF HandledIds, Handled
<1>17. /\ Matches' = Matches /\ LateStart' = LateStart /\ Floor' = Floor
  BY <1>1, <1>10 DEF Matches, LateStart, Floor
<1>18. RowsOK'
  <2>1. /\ today \in Int /\ published \in Int /\ faults \in Int
        /\ faults' \in Int /\ today <= today /\ published <= published
    BY <1>5, StateTypes
  <2>2. \A row : RowOK(row, today, published, faults)
                     => RowOK(row, today, published, faults')
    BY <1>5, <2>1, OKKept
  <2>3. RowOK(collector, today, published, faults')
    BY <2>2 DEF RowsOK
  <2>4. progress # None => /\ ProgressOK(progress, today, published)
                           /\ progress.rule <= collector.rule
    BY <1>1, <2>3 DEF RowOK, RunBounds, RunContext
  <2>5. checkpoint # None => /\ CheckpointOK(checkpoint, today)
                             /\ checkpoint.rule <= collector.rule
    <3>1. CASE Advances(rejected)
      <4>1. NewCheckpoint.rule = collector.rule /\ NewCheckpoint.watermark = NextWatermark
        BY <1>1 DEF NewCheckpoint, RunContext
      <4>2. collector.rule <= collector.rule
        BY StateTypes
      <4> QED BY <3>1, <4>1, <4>2, <1>8 DEF CheckpointOK
    <3>2. CASE ~Advances(rejected)
      BY <2>3, <3>2 DEF RowOK
    <3> QED BY <3>1, <3>2
  <2>6. RowOK(collector', today, published, faults')
    BY <1>10, <2>3, <2>4, <2>5 DEF RowOK
  <2> QED BY <1>1, <1>10, <1>17, <2>2, <2>6 DEF RowsOK
\* A run that moves the checkpoint has read the whole list, and handled it.
<1>19. ASSUME Advances(rejected), run.policy = collector.policy
       PROVE  /\ Reading
              /\ run.observed => run.complete
              /\ \A i \in DOMAIN source :
                    Settled(source, HandledIds', Floor, run.window, run.watermark, i)
  <2>1. ~run.retry /\ (run.observed => run.complete)
    BY <1>1, <1>19 DEF Advances, RunBounds
  <2>2. Reading
    BY <1>1, <1>19, <2>1 DEF Reading
  <2>3. Whole(run.stop)
    <3>1. CASE run.observed
      BY <1>1, <2>1, <2>2, <3>1 DEF ResultSound
    <3>2. CASE ~run.observed
      <4>1. run.stop # "not_applicable"
        BY <1>1, <2>2 DEF ResultSound
      <4> QED BY <1>19, <3>2, <4>1 DEF Advances, Succeeded, Whole
    <3> QED BY <3>1, <3>2
  <2>4. \A i \in DOMAIN source :
           Settled(source, HandledIds \cup found, Floor, run.window, run.watermark, i)
    BY <1>1, <2>1, <2>2, <2>3 DEF ResultSound
  <2>5. good = found
    BY <1>7, <1>19 DEF Advances, Succeeded
  <2>6. HandledIds \cup found \subseteq HandledIds'
    BY <1>15, <1>16, <1>19, <2>5
  <2> QED BY <2>1, <2>2, <2>4, <2>6 DEF Settled
<1>20. ASSUME Advances(rejected), run.policy = collector.policy
       PROVE  /\ Covers(source, HandledIds', NewCheckpoint)
              /\ Floor = LateStart => Linked(source, HandledIds', LateStart, NewCheckpoint)
  <2> DEFINE G == HandledIds'
  <2>1. Reading /\ HandledIds \subseteq G /\ run.pc # "idle"
    BY <1>1, <1>15, <1>19, <1>20
  <2>2. \A i \in DOMAIN source : Settled(source, G, Floor, run.window, run.watermark, i)
    BY <1>19, <1>20
  <2> HIDE DEF G
  <2>3. /\ Covers(source, G, NewCheckpoint)
        /\ Floor = LateStart => Linked(source, G, LateStart, NewCheckpoint)
    BY <2>1, <2>2, CheckpointWritten
  <2> QED BY <2>3 DEF G
<1>21. ASSUME Advances(rejected), run.policy # collector.policy
       PROVE  StartCheckpoint(collector') = None
  BY <1>10, <1>21 DEF StartCheckpoint, NewCheckpoint
<1>22. ~Advances(rejected) => StartCheckpoint(collector') = CurrentCheckpoint
  BY <1>10 DEF StartCheckpoint, CurrentCheckpoint
<1>23. Advances(rejected) => StartCheckpoint(collector') \in {NewCheckpoint, None}
  BY <1>10 DEF StartCheckpoint
<1>24. /\ \A ck : Covers(source, HandledIds, ck) => Covers(source, HandledIds', ck)
       /\ \A w, ck : Linked(source, HandledIds, w, ck) => Linked(source, HandledIds', w, ck)
       /\ \A fl, row : RowSound(source, HandledIds, fl, row)
                           => RowSound(source, HandledIds', fl, row)
  BY <1>15, MoreCovers
<1>25. RowSound(source, HandledIds, Floor, collector)
  BY DEF RowsSound
<1>26. StartCheckpoint(collector') # None =>
           Covers(source, HandledIds', StartCheckpoint(collector'))
  BY <1>20, <1>21, <1>22, <1>23, <1>24, <1>25 DEF RowSound, CurrentCheckpoint
\* Progress that is written is that of a run of the policy.
<1>27. ASSUME run.observed, ~run.retry
       PROVE  Reading /\ run.policy = collector.policy /\ found \subseteq HandledIds'
  BY <1>1, <1>7, <1>16, <1>27 DEF ContextLost, Reading
<1>28. ASSUME ValidProgress(collector')
       PROVE  Continues(source, HandledIds', Floor, progress)
  <2>1. CASE run.observed /\ ~run.retry
    <3>1. run.progress # None
      BY <1>10, <1>28, <2>1 DEF ValidProgress
    <3>2. Continues(source, HandledIds \cup found, Floor, run.progress)
      BY <1>1, <1>27, <2>1, <3>1 DEF ResultSound
    <3>3. HandledIds \cup found \subseteq HandledIds'
      BY <1>15, <1>27, <2>1
    <3> HIDE DEF found
    <3>4. Continues(source, HandledIds', Floor, run.progress)
      BY <3>2, <3>3, MoreSettles
    <3> QED BY <2>1, <3>4
  <2>2. CASE ~(run.observed /\ ~run.retry)
    <3>1. ValidProgress(collector)
      BY <1>10, <1>28, <2>2 DEF ValidProgress
    <3> QED BY <2>2, <3>1, <1>15, <1>25, MoreSettles DEF RowSound
  <2> QED BY <2>1, <2>2
<1>29. ASSUME ValidProgress(collector'), StartCheckpoint(collector') # None
       PROVE  Linked(source, HandledIds', progress.window, StartCheckpoint(collector'))
  <2>1. CASE run.observed /\ ~run.retry
    <3>1. run.progress # None /\ Reading
      BY <1>10, <1>27, <1>29, <2>1 DEF ValidProgress
    <3>2. run.progress.window = run.window /\ ~run.complete
      BY <1>1, <3>1 DEF ResultSound
    <3>3. ~Advances(rejected)
      BY <2>1, <3>2 DEF Advances
    <3>4. Linked(source, HandledIds, run.window, CurrentCheckpoint)
      BY <1>22, <1>29, <3>1, <3>3 DEF RunFounded
    <3> QED BY <1>22, <1>24, <2>1, <3>2, <3>3, <3>4
  <2>2. CASE ~(run.observed /\ ~run.retry)
    <3>1. ValidProgress(collector) /\ collector.observed
      BY <1>10, <1>29, <2>2 DEF ValidProgress
    <3>2. ~Advances(rejected)
      <4> SUFFICES ASSUME Advances(rejected) PROVE FALSE
        OBVIOUS
      <4>1. run.policy = collector.policy
        BY <1>21, <1>29
      <4>2. Reading /\ ~run.retry
        BY <1>19, <4>1 DEF Reading
      <4>3. run.observed = collector.observed
        BY <1>1, <4>1 DEF RunContext
      <4> QED BY <2>2, <3>1, <4>2, <4>3
    <3>3. Linked(source, HandledIds, collector.progress.window, CurrentCheckpoint)
      BY <1>22, <1>25, <1>29, <3>1, <3>2 DEF RowSound, CurrentCheckpoint
    <3> QED BY <1>22, <1>24, <2>2, <3>2, <3>3
  <2> QED BY <2>1, <2>2
<1>30. RowSound(source, HandledIds', Floor, collector')
  BY <1>10, <1>26, <1>28, <1>29 DEF RowSound
<1>31. Matches => RowSound(source, HandledIds', Floor, snapshot.row)
  BY <1>24 DEF RowsSound
<1>32. ASSUME Matches, StartCheckpoint(collector') # None
       PROVE  Linked(source, HandledIds', LateStart, StartCheckpoint(collector'))
  <2>1. CASE Advances(rejected)
    <3>1. run.policy = collector.policy
      BY <1>21, <1>32, <2>1
    <3>2. Floor = LateStart
      BY <1>32, FloorFacts
    <3> QED BY <1>20, <1>23, <1>32, <2>1, <3>1, <3>2
  <2>2. CASE ~Advances(rejected)
    <3>1. Linked(source, HandledIds, LateStart, CurrentCheckpoint)
      BY <1>22, <1>32, <2>2 DEF RowsSound
    <3> QED BY <1>22, <1>24, <2>2, <3>1
  <2> QED BY <2>1, <2>2
<1>33. ASSUME ValidProgress(collector')
       PROVE  Reaches(collector'.progress.window)
  <2>1. CASE run.observed /\ ~run.retry
    <3>1. run.progress # None /\ Reading
      BY <1>10, <1>27, <1>33, <2>1 DEF ValidProgress
    <3>2. run.progress.window = run.window
      BY <1>1, <3>1 DEF ResultSound
    <3> QED BY <1>10, <2>1, <3>1, <3>2 DEF RunFounded
  <2>2. CASE ~(run.observed /\ ~run.retry)
    <3>1. ValidProgress(collector)
      BY <1>10, <1>33, <2>2 DEF ValidProgress
    <3> QED BY <1>10, <2>2, <3>1 DEF RowsSound
  <2> QED BY <2>1, <2>2
<1>34. /\ ValidProgress(collector)' => Reaches(collector.progress.window)'
       /\ Matches /\ ValidProgress(snapshot.row) => Reaches(snapshot.row.progress.window)'
  <2>1. ValidProgress(collector)' <=> ValidProgress(collector')
    BY DEF ValidProgress
  <2>2. Reaches(collector'.progress.window) => Reaches(collector.progress.window)'
    BY <1>1 DEF Reaches
  <2>3. Matches /\ ValidProgress(snapshot.row) => Reaches(snapshot.row.progress.window)'
    BY <1>1 DEF RowsSound, Reaches
  <2> QED BY <1>33, <2>1, <2>2, <2>3
<1>35. RowsSound'
  BY <1>1, <1>17, <1>30, <1>31, <1>32, <1>34 DEF RowsSound, CurrentCheckpoint
<1> HIDE DEF CoverageInv
<1> QED
  BY <1>11, <1>13, <1>14, <1>18, <1>35 DEF CoverageInv

-----------------------------------------------------------------------------
(* The theorems *)

LEMMA CoverageInit ==
    ASSUME Init
    PROVE  CoverageInv
<1> USE DEF Init
<1> DEFINE n == Len(FirstDates)
<1>1. /\ n \in Nat \ {0} /\ n <= MaxPublished /\ DOMAIN FirstDates = 1..n
      /\ \A i \in 1..n : FirstDates[i] \in 1..MaxDay /\ FirstDates[i] \in Int
      /\ \A i, j \in 1..n : i <= j => FirstDates[i] >= FirstDates[j]
  <2>1. FirstDates \in Seq(1..MaxDay) /\ n \in Nat /\ DOMAIN FirstDates = 1..n
    BY FirstAssumption, LenProperties
  <2>2. \A i \in 1..n : FirstDates[i] \in 1..MaxDay
    BY <2>1, ElementOfSeq
  <2> QED BY <2>1, <2>2, FirstAssumption, LimitAssumption
<1> HIDE DEF n
<1>2. today \in Day /\ today \in Int /\ \A i \in 1..n : FirstDates[i] <= today
  <2> DEFINE S == ToSet(FirstDates)
  <2>1. S = {FirstDates[i] : i \in 1..n}
    BY <1>1 DEF ToSet
  <2>2. S \in SUBSET Int /\ S # {} /\ MaxDay \in Int
        /\ \A x \in S : x \in 1..MaxDay /\ x <= MaxDay
    <3>1. 1 \in 1..n
      BY <1>1
    <3> QED BY <1>1, <2>1, <3>1, LimitAssumption
  <2>3. \A i \in 1..n : FirstDates[i] \in S
    BY <2>1
  <2>4. today = Max(S)
    OBVIOUS
  <2> HIDE DEF S
  <2>5. Max(S) \in S /\ \A x \in S : Max(S) >= x
    BY <2>2, MaxFacts
  <2>6. today \in 1..MaxDay
    BY <2>2, <2>4, <2>5
  <2> QED BY <1>1, <2>3, <2>4, <2>5, <2>6, LimitAssumption DEF Day
<1>3. source = [i \in 1..n |-> [id |-> i, date |-> FirstDates[i]]]
      /\ published = n
  BY <1>1 DEF n
<1>4. source \in Seq(Record) /\ DOMAIN source = 1..n
      /\ \A i \in 1..n : source[i].id = i /\ source[i].date = FirstDates[i]
  <2>1. \A i \in 1..n : [id |-> i, date |-> FirstDates[i]] \in Record
    <3>1. \A i \in 1..n : i \in RecordId /\ FirstDates[i] \in Day
      BY <1>1, LimitAssumption DEF RecordId, Day
    <3> QED BY <3>1 DEF Record
  <2>2. source \in [1..n -> Record]
    BY <1>3, <2>1
  <2> QED BY <1>1, <1>3, <2>2
<1>5. ListOK
  <2>1. \A i \in 1..n : i <= published
    BY <1>1, <1>3
  <2> QED BY <1>1, <1>2, <1>4, <2>1 DEF ListOK
<1>6. run = NoRun /\ run \in RunType /\ Len(run.found) <= MaxItems
  <2>1. NoRun \in RunType
    <3>1. /\ 1 \in Context /\ 0 \in 0..MaxPages /\ NoDate \in Day
          /\ {} \in SUBSET Seq(RecordId) /\ <<>> \in Seq(RecordId) /\ "none" \in StopReason
      BY LimitAssumption DEF Context, NoDate, Day, StopReason
    <3> QED BY <3>1 DEF NoRun, RunType
  <2>2. run.found = <<>>
    BY DEF NoRun
  <2>3. Len(run.found) <= MaxItems
    BY <2>2, EmptySeq, LimitAssumption
  <2> QED BY <2>1, <2>3
<1>7. collector \in Row /\ faults \in 0..MaxFaults
  BY LimitAssumption, FirstAssumption DEF Row, Context
<1>8. TypeOK
  <2>1. published \in 0..MaxPublished
    BY <1>1, <1>3, LimitAssumption
  <2> QED BY <1>2, <1>4, <1>6, <1>7, <2>1 DEF TypeOK
<1>9. RowsOK
  BY <1>7 DEF RowsOK, RowOK, Matches
<1>10. RowsSound
  BY DEF RowsSound, RowSound, Matches, StartCheckpoint, ValidProgress
<1>11. RunContext /\ RunBounds /\ RunFounded /\ ListingSound /\ ResultSound
  BY DEF NoRun, RunContext, RunBounds, RunFounded, ListingSound, ResultSound, Reading
<1> QED
  BY <1>5, <1>8, <1>9, <1>10, <1>11 DEF CoverageInv

\* A step that changes nothing.
LEMMA CoverageStutter ==
    ASSUME CoverageInv, UNCHANGED vars
    PROVE  CoverageInv'
<1>1. /\ HandledIds' = HandledIds /\ Matches' = Matches /\ LateStart' = LateStart
      /\ CurrentCheckpoint' = CurrentCheckpoint /\ Reading' = Reading
  BY DEF vars, HandledIds, Handled, Excused, Matches, LateStart, CurrentCheckpoint, Reading
<1>2. Floor' = Floor
  BY <1>1 DEF Floor
<1>3. TypeOK' /\ ListOK' /\ RowsOK' /\ RowsSound'
  BY <1>1, <1>2 DEF CoverageInv, vars, TypeOK, ListOK, RowsOK, RowsSound, Reaches
<1>4. RunContext' /\ RunBounds' /\ RunFounded'
  BY <1>1, <1>2 DEF CoverageInv, vars, RunContext, RunBounds, RunFounded, Reaches
<1>5. ListingSound' /\ ResultSound'
  BY <1>1, <1>2 DEF CoverageInv, vars, ListingSound, ResultSound, Past
<1> QED
  BY <1>3, <1>4, <1>5 DEF CoverageInv

\* Every step of the source, of the control plane, of the runtime and of the
\* worker.
LEMMA CoverageStep ==
    ASSUME CoverageInv, [Next]_vars
    PROVE  CoverageInv'
<1>1. CASE Publish
  BY <1>1, PublishStep
<1>2. CASE Withdraw
  BY <1>2, WithdrawStep
<1>3. CASE NextDay
  BY <1>3, NextDayStep
<1>4. CASE PublishRule
  BY <1>4, PublishRuleStep
<1>5. CASE ChangePolicy
  BY <1>5, ChangePolicyStep
<1>6. CASE ReadCollector
  BY <1>6, ReadCollectorStep
<1>7. CASE CreateRun
  BY <1>7, CreateRunStep
<1>8. CASE CreateLateRun
  BY <1>8, CreateLateRunStep
<1>9. CASE RetryRejected
  BY <1>9, RetryRejectedStep
<1>10. CASE EmptyPage
  BY <1>10, EmptyPageStep
<1>11. CASE DisorderedPage
  BY <1>11, DisorderedPageStep
<1>12. CASE ReadPage
  BY <1>12, ReadPageStep
<1>13. CASE FetchDetails
  BY <1>13, FetchDetailsStep
<1>14. CASE Commit
  BY <1>14, CommitStep
<1>15. CASE RefuseCommit
  BY <1>15, RefuseCommitStep
<1>16. CASE LoseDetails
  BY <1>16, LoseDetailsStep
<1>17. CASE RateLimited
  BY <1>17, RateLimitedStep
<1>18. CASE Fail
  BY <1>18, FailStep
<1>19. CASE UNCHANGED vars
  BY <1>19, CoverageStutter
<1> QED
  BY <1>1, <1>2, <1>3, <1>4, <1>5, <1>6, <1>7, <1>8, <1>9, <1>10, <1>11, <1>12, <1>13,
     <1>14, <1>15, <1>16, <1>17, <1>18, <1>19 DEF Next, Proceed

\* The invariant: a run that ends may leave a checkpoint or a progress, and
\* whoever starts from either has nothing behind it that nobody will read, but for the
\* days an initial window fell short of.
THEOREM CoverageInvariant == Spec => []CoverageInv
<1>1. Init => CoverageInv
  BY CoverageInit
<1>2. CoverageInv /\ [Next]_vars => CoverageInv'
  BY CoverageStep
<1> QED
  BY <1>1, <1>2, PTL DEF Spec

\* The types and the limits of a run: at most maxPages pages are read and
\* maxItems details fetched, whatever the list does meanwhile.
THEOREM CoverageTypes == Spec => []TypeOK
<1>1. CoverageInv => TypeOK
  BY DEF CoverageInv
<1> QED
  BY <1>1, CoverageInvariant, PTL

\* A checkpoint hides nothing, whatever window and look-back the policy has: what is on
\* the list, within the window it was built up from, is handled, stands in the window of
\* the next run or is of a day an initial window fell short of (runtime:
\* coverage_progress; store: checkpoint_after).
THEOREM CheckpointsCover == Spec => []CheckpointCovers
<1>1. CoverageInv => CheckpointCovers
  <2> SUFFICES ASSUME CoverageInv, CurrentCheckpoint # None, NEW i \in DOMAIN source
               PROVE  \/ Handled(source[i].id)
                      \/ source[i].date < CurrentCheckpoint.since
                      \/ source[i].date >= CurrentCheckpoint.watermark - Lookback
                      \/ source[i].date \in skipped
    BY DEF CheckpointCovers
  <2>1. Covers(source, HandledIds, CurrentCheckpoint)
    BY DEF CoverageInv, RowsSound, RowSound, CurrentCheckpoint
  <2>2. source[i].id \in HandledIds => Handled(source[i].id) \/ source[i].date \in skipped
    BY DEF CoverageInv, ListOK, HandledIds, Excused
  <2> QED BY <2>1, <2>2 DEF Covers
<1> QED
  BY <1>1, CoverageInvariant, PTL

-----------------------------------------------------------------------------
(* The rows of Items *)

\* The variables with their whole types.
RunRow == [status : {"absent", "live", "done", "failed", "cancelled"}, collector : Collector,
           targets : SUBSET Url, claim : 0..MaxClaims, found : [I!Claim -> Seq(I!Item)]]

Cursor == {<<>>} \cup (Nat \X Nat \X Nat)

ReaderRow == [state : {"none", "reading", "done"}, view : {"observations", "entities"},
              at : Cursor, seen : Seq(Nat), first : SUBSET Nat]

RowTypes ==
    /\ now \in I!Minute
    /\ runs \in [I!Run -> RunRow]
    /\ items \in Seq(I!Item)
    /\ events \in Seq(Nat)
    /\ reader \in ReaderRow

\* A collector has one live run.
RunsAlone == \A r, q \in I!Run :
    runs[r].status = "live" /\ runs[q].status = "live" /\ runs[r].collector = runs[q].collector
        => r = q

\* The rows are those of runs that are done, one for each entity of a run, and those
\* of a collector were observed in the order they stand in.
RowsKept ==
    /\ \A i \in I!Row : runs[items[i].run].status = "done" /\ items[i].observed <= now
    /\ \A i, j \in I!Row : i # j /\ items[i].run = items[j].run => items[i].key # items[j].key
    /\ \A i, j \in I!Row : i < j /\ items[i].collector = items[j].collector =>
                               items[i].observed <= items[j].observed

\* An item is what there is to say of it after the accepted rows of its entity.
Revises(list, item, before) ==
    /\ item.decision = "rejected" => item.change = "none" /\ item.revision = 0
    /\ item.decision = "accepted" =>
          /\ before = {} => item.change = "new" /\ item.revision = 1
          /\ \A last \in before : (\A i \in before : i <= last) =>
                IF item.value = list[last].value
                THEN item.change = "unchanged" /\ item.revision = list[last].revision
                ELSE item.change = "updated" /\ item.revision = list[last].revision + 1

\* The accepted rows of an entity before row n.
AcceptedIn(list, c, k, n) ==
    {i \in 1..Len(list) : /\ i < n /\ list[i].collector = c /\ list[i].key = k
                          /\ list[i].decision = "accepted"}

RowsChained == \A i \in I!Row :
    Revises(items, items[i], AcceptedIn(items, items[i].collector, items[i].key, i))

\* What the current claim of a live run has read still follows what is written.
Fresh(c, r, item) ==
    /\ item.run = r /\ item.collector = c /\ item.observed <= now
    /\ \A i \in I!Row : items[i].collector = c => items[i].observed <= item.observed
    /\ Revises(items, item, AcceptedIn(items, c, item.key, Len(items) + 1))

BatchesFresh == \A r \in I!Run, n \in I!Claim :
    runs[r].status = "live" /\ runs[r].claim = n =>
        LET batch == runs[r].found[n]
        IN  /\ \A k \in DOMAIN batch : Fresh(runs[r].collector, r, batch[k])
            /\ \A k, l \in DOMAIN batch : batch[k].observed = batch[l].observed

-----------------------------------------------------------------------------
(* The deliveries *)

\* Each deliverable row is delivered, in the order of the rows.
EventsExact ==
    /\ \A e \in DOMAIN events : events[e] \in I!Row /\ I!Deliverable(items[events[e]])
    /\ \A e, f \in DOMAIN events : e < f => events[e] < events[f]
    /\ \A i \in I!Row : I!Deliverable(items[i]) => \E e \in DOMAIN events : events[e] = i

\* The deliverable rows of an entity up to row n.
ToldIn(list, c, k, n) ==
    {i \in 1..Len(list) : /\ i <= n /\ list[i].collector = c /\ list[i].key = k
                          /\ I!Deliverable(list[i])}

\* Of an accepted row's entity as many rows were delivered as it has revisions, the
\* last of them with its value.
RowsCounted == \A i \in I!Row : items[i].decision = "accepted" =>
    LET told == ToldIn(items, items[i].collector, items[i].key, i)
    IN  /\ Cardinality(told) = items[i].revision
        /\ \E last \in told : /\ \A j \in told : j <= last
                              /\ items[last].value = items[i].value

-----------------------------------------------------------------------------
(* The reader *)

\* Where it is, and what it has left behind.
ReaderOnWay ==
    /\ reader.state = "none" => reader = I!NoReader
    /\ \A n \in DOMAIN reader.seen : reader.seen[n] \in I!Row
    /\ reader.first \subseteq I!Row
    /\ \A n \in 2..Len(reader.seen) :
          I!Behind(I!Position(reader.seen[n]), I!Position(reader.seen[n - 1]))
    /\ reader.state = "reading" =>
          /\ reader.at = <<>> => reader.seen = <<>>
          /\ reader.at # <<>> => /\ reader.seen # <<>>
                                 /\ reader.at = I!Position(reader.seen[Len(reader.seen)])
          /\ \A i \in reader.first \cap I!View(reader.view) :
                I!Before(i, reader.at) \/ \E n \in DOMAIN reader.seen : reader.seen[n] = i
    /\ reader.state = "done" =>
          \A i \in reader.first \cap I!View(reader.view) :
             \E n \in DOMAIN reader.seen : reader.seen[n] = i

ItemsInv == /\ RowTypes /\ RunsAlone /\ RowsKept /\ RowsChained /\ BatchesFresh
            /\ EventsExact /\ RowsCounted /\ ReaderOnWay

\* Cardinality means the same in an instance.
LEMMA SameCount ==
    ASSUME NEW S PROVE I!Cardinality(S) = Cardinality(S)
BY DEF I!Cardinality, Cardinality

\* The members of a finite set S in a total order: below[x] are those before x.
Ordered(S, below) ==
    /\ IsFiniteSet(S) /\ below \in [S -> SUBSET S]
    /\ \A x \in S : x \notin below[x]
    /\ \A x, y \in S : x \in below[y] => below[x] \subseteq below[y]
    /\ \A x, y \in S : x # y => x \in below[y] \/ y \in below[x]

\* They are listed by the number of those before.
Ranked(S, below, s) ==
    /\ s \in [1..Cardinality(S) -> S]
    /\ \A n \in 1..Cardinality(S) : Cardinality(below[s[n]]) = n - 1

\* They are listed in order, and all of them.
Listed(S, below, s) ==
    /\ s \in Seq(S) /\ Len(s) = Cardinality(S) /\ Cardinality(S) \in Nat
    /\ \A m, n \in 1..Len(s) : m < n <=> s[m] \in below[s[n]]
    /\ \A x \in S : \E n \in 1..Len(s) : s[n] = x

\* In a finite total order, below, every number of predecessors up to the size of the
\* set is that of one member, and who has more of them stands above.
LEMMA Ranks ==
    ASSUME NEW S, NEW below, Ordered(S, below)
    PROVE  /\ \A x \in S : Cardinality(below[x]) \in 0..(Cardinality(S) - 1)
           /\ \A x, y \in S : x \in below[y] <=> Cardinality(below[x]) < Cardinality(below[y])
           /\ \A n \in 1..Cardinality(S) : \E x \in S : Cardinality(below[x]) = n - 1
<1> USE FS_CardinalityType DEF Ordered
<1>1. \A x \in S : IsFiniteSet(below[x]) /\ Cardinality(below[x]) \in Nat
  BY FS_Subset
<1>2. ASSUME NEW x \in S PROVE Cardinality(below[x]) \in 0..(Cardinality(S) - 1)
  <2>1. below[x] \subseteq S /\ below[x] # S
    OBVIOUS
  <2>2. Cardinality(below[x]) < Cardinality(S)
    BY <2>1, FS_Subset
  <2> QED BY <2>2, <1>1
<1>3. ASSUME NEW x \in S, NEW y \in S, x \in below[y]
      PROVE  Cardinality(below[x]) < Cardinality(below[y])
  <2>1. below[x] \subseteq below[y] /\ below[x] # below[y]
    BY <1>3
  <2> QED BY <2>1, <1>1, FS_Subset
<1>4. ASSUME NEW x \in S, NEW y \in S, Cardinality(below[x]) < Cardinality(below[y])
      PROVE  x \in below[y]
  <2>1. x # y
    BY <1>4, <1>1
  <2>2. CASE y \in below[x]
    BY <2>2, <1>3, <1>4, <1>1
  <2> QED BY <2>1, <2>2
<1>5. ASSUME NEW n \in 1..Cardinality(S) PROVE \E x \in S : Cardinality(below[x]) = n - 1
  <2> DEFINE rank == [x \in S |-> Cardinality(below[x])]
             T    == 0..(Cardinality(S) - 1)
  <2>1. rank \in [S -> T]
    BY <1>2
  <2>2. \A x, y \in S : rank[x] = rank[y] => x = y
    <3> TAKE x, y \in S
    <3>1. CASE x \in below[y]
      BY <3>1, <1>3, <1>1
    <3>2. CASE y \in below[x]
      BY <3>2, <1>3, <1>1
    <3> QED BY <3>1, <3>2
  <2>3. rank \in Injection(S, T)
    BY <2>1, <2>2, Fun_IsInj
  <2>4. IsFiniteSet(T) /\ Cardinality(T) = Cardinality(S)
    <3> HIDE DEF rank
    <3>1. PICK size \in Nat : size = Cardinality(S)
      OBVIOUS
    <3>2. 0 \in Int /\ size - 1 \in Int /\ (IF 0 > size - 1 THEN 0 ELSE (size - 1) - 0 + 1) = size
      BY ONLY size \in Nat
    <3>3. IsFiniteSet(0..(size - 1)) /\ Cardinality(0..(size - 1)) = size
      BY <3>2, FS_Interval
    <3> QED BY <3>1, <3>3
  <2>5. rank \in Surjection(S, T)
    BY <2>3, <2>4, FS_Injection
  <2>6. n - 1 \in T
    BY FS_CardinalityType
  <2>7. \E x \in S : rank[x] = n - 1
    BY <2>5, <2>6 DEF Surjection
  <2> QED BY <2>7
<1> QED BY <1>2, <1>3, <1>4, <1>5

\* A listing by the number of predecessors is in order and leaves nobody out.
LEMMA Listing ==
    ASSUME NEW S, NEW below, Ordered(S, below),
           NEW s, Ranked(S, below, s)
    PROVE  Listed(S, below, s)
<1>0. Cardinality(S) \in Nat
  BY FS_CardinalityType DEF Ordered
<1>1. /\ \A x \in S : Cardinality(below[x]) \in 0..(Cardinality(S) - 1)
      /\ \A x, y \in S : x \in below[y] <=> Cardinality(below[x]) < Cardinality(below[y])
      /\ \A n \in 1..Cardinality(S) : \E x \in S : Cardinality(below[x]) = n - 1
  BY Ranks
<1>2. \A n \in 1..Cardinality(S) : s[n] \in S /\ Cardinality(below[s[n]]) = n - 1
  BY DEF Ranked
<1>3. s \in Seq(S) /\ Len(s) = Cardinality(S)
  BY <1>0, SeqDef DEF Ranked
<1>4. ASSUME NEW m \in 1..Len(s), NEW n \in 1..Len(s)
      PROVE  m < n <=> s[m] \in below[s[n]]
  <2>1. s[m] \in S /\ s[n] \in S /\ Cardinality(below[s[m]]) = m - 1 /\ Cardinality(below[s[n]]) = n - 1
    BY <1>2, <1>3
  <2>2. s[m] \in below[s[n]] <=> m - 1 < n - 1
    BY <1>1, <2>1
  <2> QED BY <2>2, <1>3, <1>0
<1>5. ASSUME NEW x \in S PROVE \E n \in 1..Len(s) : s[n] = x
  <2>1. PICK m \in 0..(Cardinality(S) - 1) : Cardinality(below[x]) = m
    BY <1>1
  <2>2. m + 1 \in 1..Cardinality(S) /\ (m + 1) - 1 = m
    BY <1>0
  <2>3. s[m + 1] \in S /\ Cardinality(below[s[m + 1]]) = m
    BY <1>2, <2>2
  <2>4. ~(x \in below[s[m + 1]]) /\ ~(s[m + 1] \in below[x])
    BY <1>1, <2>1, <2>3
  <2>5. s[m + 1] = x
    BY <2>3, <2>4 DEF Ordered
  <2> QED BY <2>5, <2>2, <1>3
<1> QED BY <1>0, <1>3, <1>4, <1>5 DEF Listed

\* InOrder lists a set of numbers from the least to the greatest.
LEMMA InOrdered ==
    ASSUME NEW S \in SUBSET Nat, IsFiniteSet(S), NEW s, s = I!InOrder(S)
    PROVE  /\ s \in Seq(S) /\ Len(s) = Cardinality(S) /\ Cardinality(S) \in Nat
           /\ \A m, n \in 1..Len(s) : m < n <=> s[m] < s[n]
           /\ \A x \in S : \E n \in 1..Len(s) : s[n] = x
           /\ \A n \in 1..Len(s) : Cardinality({j \in S : j < s[n]}) = n - 1
<1>1. PICK below \in [S -> SUBSET S] : \A x \in S : below[x] = {j \in S : j < x}
  <2>1. [x \in S |-> {j \in S : j < x}] \in [S -> SUBSET S]
    OBVIOUS
  <2> QED BY <2>1
<1>2. Ordered(S, below)
  <2>1. \A x \in S : x \in Nat
    OBVIOUS
  <2>2. \A x, y \in S : x \in below[y] <=> x < y
    BY <1>1
  <2>3. \A x, y \in S : x # y => x \in below[y] \/ y \in below[x]
    BY ONLY <2>1, <2>2
  <2>4. \A x, y, z \in S : x \in below[y] /\ z \in below[x] => z \in below[y]
    BY ONLY <2>1, <2>2
  <2>5. \A x \in S : x \notin below[x]
    BY ONLY <2>1, <2>2
  <2> QED BY IsFiniteSet(S), <2>3, <2>4, <2>5 DEF Ordered
<1>3. /\ s = [n \in 1..Cardinality(S) |-> s[n]]
      /\ \A n \in 1..Cardinality(S) :
            s[n] = CHOOSE i \in S : I!Cardinality({j \in S : j < i}) = n - 1
  <2>1. s = [n \in 1..I!Cardinality(S) |->
                CHOOSE i \in S : I!Cardinality({j \in S : j < i}) = n - 1]
    BY DEF I!InOrder
  <2>2. PICK size : size = I!Cardinality(S)
    OBVIOUS
  <2>3. size = Cardinality(S)
    BY <2>2, SameCount
  <2>4. s = [n \in 1..size |-> CHOOSE i \in S : I!Cardinality({j \in S : j < i}) = n - 1]
    BY <2>1, <2>2
  <2>5. s = [n \in 1..size |-> s[n]]
    BY <2>4
  <2>6. \A n \in 1..size : s[n] = CHOOSE i \in S : I!Cardinality({j \in S : j < i}) = n - 1
    BY <2>4
  <2> QED BY <2>3, <2>5, <2>6
<1>4. ASSUME NEW n \in 1..Cardinality(S)
      PROVE  s[n] \in S /\ Cardinality(below[s[n]]) = n - 1
  <2>1. s[n] = CHOOSE i \in S : I!Cardinality({j \in S : j < i}) = n - 1
    BY <1>3
  <2>2. PICK x \in S : Cardinality(below[x]) = n - 1
    <3>1. \A m \in 1..Cardinality(S) : \E x \in S : Cardinality(below[x]) = m - 1
      BY <1>2, Ranks
    <3> QED BY <3>1
  <2>3. I!Cardinality({j \in S : j < x}) = n - 1
    BY <2>2, <1>1, SameCount
  <2>4. s[n] \in S /\ I!Cardinality({j \in S : j < s[n]}) = n - 1
    BY <2>1, <2>3
  <2>5. Cardinality({j \in S : j < s[n]}) = n - 1
    <3>1. PICK T : T = {j \in S : j < s[n]}
      OBVIOUS
    <3> QED BY <3>1, <2>4, SameCount
  <2> QED BY <2>4, <2>5, <1>1
<1>5. Listed(S, below, s)
  <2>1. s \in [1..Cardinality(S) -> S]
    BY ONLY <1>3, <1>4
  <2>2. Ranked(S, below, s)
    BY ONLY <2>1, <1>4 DEF Ranked
  <2> QED BY <1>2, <2>2, Listing
<1>6. \A m, n \in 1..Len(s) : s[m] \in S /\ s[n] \in S
  <2> HIDE DEF I!InOrder
  <2> QED BY <1>5, ElementOfSeq DEF Listed
<1>7. \A m, n \in 1..Len(s) : m < n <=> s[m] < s[n]
  <2> TAKE m, n \in 1..Len(s)
  <2>1. s[m] \in S /\ s[n] \in S
    BY <1>6
  <2>2. s[m] \in below[s[n]] <=> s[m] < s[n]
    BY <2>1, <1>1
  <2> QED BY <2>2, <1>5 DEF Listed
<1>8. \A n \in 1..Len(s) : Cardinality({j \in S : j < s[n]}) = n - 1
  <2> TAKE n \in 1..Len(s)
  <2>1. n \in 1..Cardinality(S)
    BY <1>5 DEF Listed
  <2>2. s[n] \in S /\ Cardinality(below[s[n]]) = n - 1
    BY <1>4, <2>1
  <2> QED BY <2>2, <1>1
<1> QED BY <1>5, <1>7, <1>8 DEF Listed

\* Positions of rows: numbers, and no two rows have the same.
LEMMA Positions ==
    ASSUME RowTypes, RowsKept
    PROVE  /\ \A i \in I!Row : I!Position(i) \in Nat \X Nat \X Nat
           /\ \A i, j \in I!Row : i # j => \/ I!Behind(I!Position(i), I!Position(j))
                                           \/ I!Behind(I!Position(j), I!Position(i))
<1>1. ASSUME NEW i \in I!Row
      PROVE  /\ I!Position(i) = <<items[i].observed, items[i].key, items[i].run>>
             /\ items[i].observed \in Nat /\ items[i].key \in Nat /\ items[i].run \in Nat
  <2>1. items[i] \in I!Item
    BY ElementOfSeq DEF RowTypes, I!Row
  <2> QED BY <2>1 DEF I!Item, I!Position, I!Minute, I!Run
<1>2. ASSUME NEW i \in I!Row, NEW j \in I!Row, i # j
      PROVE  \/ I!Behind(I!Position(i), I!Position(j))
             \/ I!Behind(I!Position(j), I!Position(i))
  <2>1. items[i].run # items[j].run \/ items[i].key # items[j].key
    BY <1>2 DEF RowsKept
  <2> QED BY <2>1, <1>1, <1>2 DEF I!Behind
<1> QED BY <1>1, <1>2

\* What is behind a position is behind what that is behind.
LEMMA BehindOrders ==
    /\ \A p \in Nat \X Nat \X Nat : ~I!Behind(p, p)
    /\ \A p, q, t \in Nat \X Nat \X Nat :
          I!Behind(p, q) /\ I!Behind(q, t) => I!Behind(p, t)
<1>1. \A p \in Nat \X Nat \X Nat : p[1] \in Nat /\ p[2] \in Nat /\ p[3] \in Nat
  OBVIOUS
<1> QED BY <1>1 DEF I!Behind

\* Sorted lists rows by their positions, the greatest first.
LEMMA SortedRows ==
    ASSUME RowTypes, RowsKept, NEW rows \in SUBSET I!Row, NEW s, s = I!Sorted(rows)
    PROVE  /\ IsFiniteSet(rows)
           /\ s \in Seq(rows) /\ Len(s) = Cardinality(rows) /\ Cardinality(rows) \in Nat
           /\ \A m, n \in 1..Len(s) :
                 m < n <=> I!Behind(I!Position(s[n]), I!Position(s[m]))
           /\ \A x \in rows : \E n \in 1..Len(s) : s[n] = x
<1>0. IsFiniteSet(rows)
  <2>1. Len(items) \in Nat
    BY LenProperties DEF RowTypes
  <2>2. IsFiniteSet(1..Len(items))
    BY <2>1, FS_Interval
  <2> QED BY <2>2, FS_Subset DEF I!Row
<1>1. PICK below \in [rows -> SUBSET rows] :
          \A x \in rows : below[x] = {j \in rows : I!Behind(I!Position(x), I!Position(j))}
  <2>1. [x \in rows |-> {j \in rows : I!Behind(I!Position(x), I!Position(j))}]
            \in [rows -> SUBSET rows]
    OBVIOUS
  <2> QED BY <2>1
<1>2. Ordered(rows, below)
  <2>1. \A x \in rows : x \notin below[x]
    BY <1>1, Positions, BehindOrders
  <2>2. \A x, y \in rows : x \in below[y] => below[x] \subseteq below[y]
    BY <1>1, Positions, BehindOrders
  <2>3. \A x, y \in rows : x # y => x \in below[y] \/ y \in below[x]
    BY <1>1, Positions
  <2> QED BY <1>0, <2>1, <2>2, <2>3 DEF Ordered
<1>3. /\ s = [n \in 1..Cardinality(rows) |-> s[n]]
      /\ \A n \in 1..Cardinality(rows) :
            s[n] = CHOOSE i \in rows : I!Cardinality(
                       {j \in rows : I!Behind(I!Position(i), I!Position(j))}) = n - 1
  <2>1. s = [n \in 1..I!Cardinality(rows) |->
                CHOOSE i \in rows : I!Cardinality(
                    {j \in rows : I!Behind(I!Position(i), I!Position(j))}) = n - 1]
    BY DEF I!Sorted
  <2>2. PICK size : size = I!Cardinality(rows)
    OBVIOUS
  <2>3. size = Cardinality(rows)
    BY <2>2, SameCount
  <2>4. s = [n \in 1..size |->
                CHOOSE i \in rows : I!Cardinality(
                    {j \in rows : I!Behind(I!Position(i), I!Position(j))}) = n - 1]
    BY <2>1, <2>2
  <2>5. s = [n \in 1..size |-> s[n]]
    BY <2>4
  <2>6. \A n \in 1..size :
            s[n] = CHOOSE i \in rows : I!Cardinality(
                       {j \in rows : I!Behind(I!Position(i), I!Position(j))}) = n - 1
    BY <2>4
  <2> QED BY <2>3, <2>5, <2>6
<1>4. ASSUME NEW n \in 1..Cardinality(rows)
      PROVE  s[n] \in rows /\ Cardinality(below[s[n]]) = n - 1
  <2>1. s[n] = CHOOSE i \in rows : I!Cardinality(
                    {j \in rows : I!Behind(I!Position(i), I!Position(j))}) = n - 1
    BY <1>3
  <2>2. PICK x \in rows : Cardinality(below[x]) = n - 1
    <3>1. \A m \in 1..Cardinality(rows) : \E x \in rows : Cardinality(below[x]) = m - 1
      BY <1>2, Ranks
    <3> QED BY <3>1
  <2>3. I!Cardinality({j \in rows : I!Behind(I!Position(x), I!Position(j))}) = n - 1
    BY <2>2, <1>1, SameCount
  <2>4. /\ s[n] \in rows
        /\ I!Cardinality({j \in rows : I!Behind(I!Position(s[n]), I!Position(j))}) = n - 1
    BY <2>1, <2>3
  <2>5. Cardinality({j \in rows : I!Behind(I!Position(s[n]), I!Position(j))}) = n - 1
    <3>1. PICK T : T = {j \in rows : I!Behind(I!Position(s[n]), I!Position(j))}
      OBVIOUS
    <3> QED BY <3>1, <2>4, SameCount
  <2> QED BY <2>4, <2>5, <1>1
<1>5. Listed(rows, below, s)
  <2>1. s \in [1..Cardinality(rows) -> rows]
    BY ONLY <1>3, <1>4
  <2>2. Ranked(rows, below, s)
    BY ONLY <2>1, <1>4 DEF Ranked
  <2> QED BY <1>2, <2>2, Listing
<1>6. \A n \in 1..Len(s) : s[n] \in rows
  BY ONLY <1>5, ElementOfSeq DEF Listed
<1>7. \A m, n \in 1..Len(s) : m < n <=> I!Behind(I!Position(s[n]), I!Position(s[m]))
  BY <1>1, <1>5, <1>6 DEF Listed
<1> QED BY <1>0, <1>5, <1>7 DEF Listed

-----------------------------------------------------------------------------
(* What the invariant says of the properties *)

\* The rows are finitely many numbers, and each is an item.
LEMMA ItemFacts ==
    ASSUME RowTypes
    PROVE  /\ Len(items) \in Nat /\ I!Row \in SUBSET Nat
           /\ \A rows \in SUBSET I!Row : IsFiniteSet(rows)
           /\ \A i \in I!Row : items[i] \in I!Item
<1>1. Len(items) \in Nat
  BY LenProperties DEF RowTypes
<1>2. IsFiniteSet(1..Len(items))
  BY <1>1, FS_Interval
<1>3. \A rows \in SUBSET I!Row : IsFiniteSet(rows)
  BY <1>2, FS_Subset DEF I!Row
<1>4. \A i \in I!Row : items[i] \in I!Item
  BY ElementOfSeq DEF RowTypes, I!Row
<1> QED BY <1>1, <1>3, <1>4 DEF I!Row

\* The accepted rows of an entity.
AcceptedOf(c, k) == {i \in I!Row : /\ items[i].collector = c /\ items[i].key = k
                                   /\ items[i].decision = "accepted"}

\* They are listed in order.
LEMMA AcceptedListed ==
    ASSUME RowTypes, NEW c, NEW k, NEW seen, seen = I!Accepted(c, k),
           NEW rows, rows = AcceptedOf(c, k)
    PROVE  /\ seen \in Seq(rows) /\ Len(seen) \in Nat
           /\ \A m, n \in 1..Len(seen) : m < n <=> seen[m] < seen[n]
           /\ \A i \in rows : \E n \in 1..Len(seen) : seen[n] = i
           /\ \A n \in 1..Len(seen) : seen[n] \in rows
<1>1. rows \in SUBSET Nat /\ IsFiniteSet(rows)
  BY ItemFacts DEF AcceptedOf
<1>2. seen = I!InOrder(rows)
  <2>1. rows = {i \in I!Of(c, k) : items[i].decision = "accepted"}
    BY DEF I!Of, AcceptedOf
  <2> QED BY <2>1 DEF I!Accepted
<1>3. /\ seen \in Seq(rows) /\ Len(seen) = Cardinality(rows) /\ Cardinality(rows) \in Nat
      /\ \A m, n \in 1..Len(seen) : m < n <=> seen[m] < seen[n]
      /\ \A i \in rows : \E n \in 1..Len(seen) : seen[n] = i
  BY ONLY <1>1, <1>2, InOrdered
<1>4. \A n \in 1..Len(seen) : seen[n] \in rows
  BY ONLY <1>3, ElementOfSeq
<1> QED BY <1>3, <1>4

\* Before the row that is n-th in order stand the n - 1 before it, the last of them
\* right before it.
LEMMA AcceptedBefore ==
    ASSUME RowTypes, NEW c, NEW k, NEW seen, seen = I!Accepted(c, k), NEW n \in 1..Len(seen)
    PROVE  /\ n = 1 => AcceptedIn(items, c, k, seen[n]) = {}
           /\ n # 1 => /\ seen[n - 1] \in AcceptedIn(items, c, k, seen[n])
                       /\ \A i \in AcceptedIn(items, c, k, seen[n]) : i <= seen[n - 1]
<1>1. PICK rows : rows = AcceptedOf(c, k)
  OBVIOUS
<1>2. /\ seen \in Seq(rows) /\ Len(seen) \in Nat
      /\ \A m, l \in 1..Len(seen) : m < l <=> seen[m] < seen[l]
      /\ \A i \in rows : \E l \in 1..Len(seen) : seen[l] = i
      /\ \A l \in 1..Len(seen) : seen[l] \in rows
  BY ONLY RowTypes, seen = I!Accepted(c, k), <1>1, AcceptedListed
<1>3. rows \subseteq Nat
  BY <1>1, ItemFacts DEF AcceptedOf
<1>4. AcceptedIn(items, c, k, seen[n]) = {i \in rows : i < seen[n]}
  BY <1>1 DEF AcceptedIn, I!Row, AcceptedOf
<1>5. ASSUME NEW i \in rows, i < seen[n]
      PROVE  n # 1 /\ i <= seen[n - 1]
  <2>1. PICK m \in 1..Len(seen) : seen[m] = i
    BY <1>2
  <2>2. m < n
    BY <2>1, <1>5, <1>2
  <2>3. n # 1 /\ n - 1 \in 1..Len(seen) /\ (m = n - 1 \/ m < n - 1)
    <3>1. Len(seen) \in Nat
      BY <1>2
    <3> QED BY ONLY <2>2, <3>1, m \in 1..Len(seen), n \in 1..Len(seen)
  <2>4. PICK l \in 1..Len(seen) : l = n - 1
    BY <2>3
  <2>5. seen[l] \in Nat /\ i \in Nat
    BY <1>2, <1>3
  <2>6. m = l => i <= seen[l]
    BY <2>1, <2>5
  <2>7. m < l => i < seen[l]
    BY <2>1, <1>2
  <2> QED BY <2>3, <2>4, <2>5, <2>6, <2>7
<1>6. ASSUME n # 1 PROVE seen[n - 1] \in rows /\ seen[n - 1] < seen[n]
  <2>1. n - 1 \in 1..Len(seen) /\ n - 1 < n
    BY <1>6, <1>2
  <2> QED BY <2>1, <1>2
<1> QED BY <1>4, <1>5, <1>6

\* Items: revisions count the values an entity has had.
LEMMA ChainHolds ==
    ASSUME ItemsInv PROVE RevisionsChain
<1> USE DEF ItemsInv
<1> SUFFICES ASSUME NEW c \in Collector, NEW k \in I!Keys, NEW seen, seen = I!Accepted(c, k),
                    NEW n \in DOMAIN seen
             PROVE  IF n = 1 THEN items[seen[n]].change = "new" /\ items[seen[n]].revision = 1
                    ELSE IF items[seen[n]].value = items[seen[n - 1]].value
                         THEN /\ items[seen[n]].change = "unchanged"
                              /\ items[seen[n]].revision = items[seen[n - 1]].revision
                    ELSE /\ items[seen[n]].change = "updated"
                         /\ items[seen[n]].revision = items[seen[n - 1]].revision + 1
  BY DEF RevisionsChain, I!RevisionsChain
<1>1. PICK rows : rows = AcceptedOf(c, k)
  OBVIOUS
<1>2. seen \in Seq(rows) /\ \A l \in 1..Len(seen) : seen[l] \in rows
  BY <1>1, AcceptedListed
<1>3. n \in 1..Len(seen)
  BY <1>2, LenProperties
<1>4. seen[n] \in I!Row /\ /\ items[seen[n]].collector = c /\ items[seen[n]].key = k
                           /\ items[seen[n]].decision = "accepted"
  BY <1>1, <1>2, <1>3 DEF AcceptedOf
<1>5. Revises(items, items[seen[n]], AcceptedIn(items, c, k, seen[n]))
  BY <1>4 DEF RowsChained
<1>6. /\ n = 1 => AcceptedIn(items, c, k, seen[n]) = {}
      /\ n # 1 => /\ seen[n - 1] \in AcceptedIn(items, c, k, seen[n])
                  /\ \A i \in AcceptedIn(items, c, k, seen[n]) : i <= seen[n - 1]
  <2>1. RowTypes
    OBVIOUS
  <2> HIDE DEF ItemsInv
  <2>2. n = 1 => AcceptedIn(items, c, k, seen[n]) = {}
    BY <2>1, <1>3, AcceptedBefore
  <2>3. n # 1 => /\ seen[n - 1] \in AcceptedIn(items, c, k, seen[n])
                 /\ \A i \in AcceptedIn(items, c, k, seen[n]) : i <= seen[n - 1]
    BY <2>1, <1>3, AcceptedBefore
  <2> QED BY <2>2, <2>3
<1> QED BY <1>4, <1>5, <1>6 DEF Revises

\* Items: a walk is exact.
LEMMA WalkHolds ==
    ASSUME ItemsInv PROVE WalkExact
BY DEF ItemsInv, ReaderOnWay, WalkExact, I!WalkExact, I!Range

\* The rows of an entity that are to be delivered.
DeliverableOf(c, k) == {i \in I!Row : /\ items[i].collector = c /\ items[i].key = k
                                      /\ I!Deliverable(items[i])}

\* They were, in their order, each once.
LEMMA DeliveredListed ==
    ASSUME RowTypes, EventsExact, NEW c, NEW k, NEW told, told = I!Delivered(c, k),
           NEW rows, rows = DeliverableOf(c, k)
    PROVE  /\ told \in Seq(rows) /\ Len(told) \in Nat /\ Len(told) = Cardinality(rows)
           /\ \A m, n \in 1..Len(told) : m < n <=> told[m] < told[n]
           /\ \A i \in rows : \E n \in 1..Len(told) : told[n] = i
           /\ \A n \in 1..Len(told) : told[n] \in rows
<1>1. events \in Seq(Nat) /\ Len(events) \in Nat /\ DOMAIN events = 1..Len(events)
  BY LenProperties DEF RowTypes
<1>2. PICK P : P = {e \in DOMAIN events : events[e] \in I!Of(c, k)}
  OBVIOUS
<1>3. P \in SUBSET Nat /\ P \subseteq 1..Len(events)
  BY <1>1, <1>2
<1>4. IsFiniteSet(P)
  <2>1. PICK size \in Nat : size = Len(events)
    BY <1>1
  <2>2. IsFiniteSet(1..size)
    BY ONLY size \in Nat, FS_Interval
  <2> QED BY <2>1, <2>2, <1>3, FS_Subset
<1>5. PICK places : places = I!InOrder(P)
  OBVIOUS
<1>6. /\ places \in Seq(P) /\ Len(places) = Cardinality(P) /\ Cardinality(P) \in Nat
      /\ \A m, n \in 1..Len(places) : m < n <=> places[m] < places[n]
      /\ \A e \in P : \E n \in 1..Len(places) : places[n] = e
  BY ONLY <1>3, <1>4, <1>5, InOrdered
<1>7. PICK size \in Nat : size = Len(places)
  BY <1>6
<1>8. \A n \in 1..size : places[n] \in P
  BY ONLY <1>6, <1>7, ElementOfSeq
<1>9. told = [n \in 1..size |-> events[places[n]]]
  <2>1. DOMAIN places = 1..size
    BY <1>6, <1>7, LenProperties
  <2> QED BY <2>1, <1>2, <1>5 DEF I!Delivered
<1>10. \A e \in P : events[e] \in rows
  BY <1>2 DEF I!Of, EventsExact, DeliverableOf
<1>11. told \in [1..size -> rows]
  BY ONLY <1>8, <1>9, <1>10
<1>12. told \in Seq(rows) /\ Len(told) = size
  BY ONLY <1>11, size \in Nat, SeqDef, LenProperties
<1>13. rows \subseteq Nat
  BY ItemFacts DEF DeliverableOf
<1>14. \A e, f \in P : e < f <=> events[e] < events[f]
  <2> TAKE e, f \in P
  <2>1. e \in DOMAIN events /\ f \in DOMAIN events /\ e \in Nat /\ f \in Nat
    BY <1>2, <1>3
  <2>2. events[e] \in Nat /\ events[f] \in Nat
    BY <1>10, <1>13
  <2>3. e < f => events[e] < events[f]
    BY <2>1 DEF EventsExact
  <2>4. f < e => events[f] < events[e]
    BY <2>1 DEF EventsExact
  <2>5. e = f => events[e] = events[f]
    OBVIOUS
  <2> QED BY ONLY <2>1, <2>2, <2>3, <2>4, <2>5
<1>15. \A m, n \in 1..size : m < n <=> told[m] < told[n]
  BY ONLY <1>6, <1>7, <1>8, <1>9, <1>14
<1>16. ASSUME NEW i \in rows PROVE \E n \in 1..size : told[n] = i
  <2>1. i \in I!Row /\ I!Deliverable(items[i]) /\ i \in I!Of(c, k)
    BY DEF DeliverableOf, I!Of
  <2>2. PICK e \in DOMAIN events : events[e] = i
    BY <2>1 DEF EventsExact
  <2>3. e \in P
    BY <2>1, <2>2, <1>2
  <2>4. PICK n \in 1..size : places[n] = e
    BY <2>3, <1>6, <1>7
  <2> QED BY <2>2, <2>4, <1>9
<1>17. Cardinality(rows) = size
  <2>1. \A m, n \in 1..size : told[m] = told[n] => m = n
    <3> TAKE m, n \in 1..size
    <3>1. told[m] \in Nat /\ told[n] \in Nat
      BY <1>11, <1>13
    <3>2. m < n <=> told[m] < told[n]
      BY <1>15
    <3>3. n < m <=> told[n] < told[m]
      BY <1>15
    <3> QED BY ONLY <3>1, <3>2, <3>3, m \in 1..size, n \in 1..size, size \in Nat
  <2>2. told \in Injection(1..size, rows)
    BY ONLY <1>11, <2>1, Fun_IsInj
  <2>3. told \in Surjection(1..size, rows)
    BY ONLY <1>11, <1>16, Fun_IsSurj
  <2>4. told \in Bijection(1..size, rows)
    BY <2>2, <2>3 DEF Bijection
  <2>5. IsFiniteSet(1..size) /\ Cardinality(1..size) = size
    BY ONLY size \in Nat, FS_Interval
  <2>6. ExistsBijection(1..size, rows)
    BY <2>4 DEF ExistsBijection
  <2> QED BY ONLY <2>6, size \in Nat, FS_CountingElements
<1>18. \A n \in 1..size : told[n] \in rows
  BY <1>11
<1> QED BY <1>12, <1>15, <1>16, <1>17, <1>18

\* Items: whoever takes the deliveries in order is up to date.
LEMMA FeedHolds ==
    ASSUME ItemsInv PROVE FeedComplete
<1> USE DEF ItemsInv
<1> SUFFICES ASSUME NEW c \in Collector, NEW k \in I!Keys,
                    NEW seen, seen = I!Accepted(c, k), NEW told, told = I!Delivered(c, k)
             PROVE  /\ seen # <<>> => /\ told # <<>>
                                      /\ items[I!Last(told)].value = items[I!Last(seen)].value
                                      /\ Len(told) = items[I!Last(seen)].revision
                    /\ \A n \in 2..Len(told) :
                          items[told[n]].value # items[told[n - 1]].value
  BY DEF FeedComplete, I!FeedComplete
<1>1. PICK rows : rows = AcceptedOf(c, k)
  OBVIOUS
<1>2. PICK news : news = DeliverableOf(c, k)
  OBVIOUS
<1>3. /\ seen \in Seq(rows) /\ Len(seen) \in Nat
      /\ \A m, n \in 1..Len(seen) : m < n <=> seen[m] < seen[n]
      /\ \A i \in rows : \E n \in 1..Len(seen) : seen[n] = i
      /\ \A n \in 1..Len(seen) : seen[n] \in rows
  BY <1>1, AcceptedListed
<1>4. /\ told \in Seq(news) /\ Len(told) \in Nat /\ Len(told) = Cardinality(news)
      /\ \A m, n \in 1..Len(told) : m < n <=> told[m] < told[n]
      /\ \A i \in news : \E n \in 1..Len(told) : told[n] = i
      /\ \A n \in 1..Len(told) : told[n] \in news
  BY <1>2, DeliveredListed
<1>5. news \subseteq rows /\ rows \subseteq Nat
  BY <1>1, <1>2, ItemFacts DEF AcceptedOf, DeliverableOf, I!Deliverable
<1>6. \A i \in rows : /\ i \in I!Row /\ items[i].collector = c /\ items[i].key = k
                      /\ items[i].decision = "accepted"
  BY <1>1 DEF AcceptedOf
<1>7. \A i \in rows : ToldIn(items, c, k, i) = {j \in news : j <= i}
  BY <1>2 DEF ToldIn, I!Row, DeliverableOf
<1>8. \A i \in rows : /\ Cardinality({j \in news : j <= i}) = items[i].revision
                      /\ \E last \in news : /\ last <= i
                                            /\ \A j \in news : j <= i => j <= last
                                            /\ items[last].value = items[i].value
  <2> TAKE i \in rows
  <2>1. LET T == ToldIn(items, c, k, i)
        IN  /\ Cardinality(T) = items[i].revision
            /\ \E last \in T : /\ \A j \in T : j <= last
                               /\ items[last].value = items[i].value
    BY <1>6 DEF RowsCounted
  <2> QED BY <2>1, <1>7
<1>9. ASSUME seen # <<>>
      PROVE  /\ told # <<>>
             /\ items[I!Last(told)].value = items[I!Last(seen)].value
             /\ Len(told) = items[I!Last(seen)].revision
  <2>1. PICK m \in 1..Len(seen) : m = Len(seen)
    BY <1>9, <1>3, EmptySeq
  <2>2. PICK i \in rows : i = seen[m] /\ i = I!Last(seen)
    BY <2>1, <1>3 DEF I!Last
  <2>3. ASSUME NEW j \in rows PROVE j <= i
    <3>1. PICK l \in 1..Len(seen) : seen[l] = j
      BY <1>3
    <3>2. ~(m < l)
      BY <2>1, <1>3, <3>1
    <3>3. ~(i < j)
      <4>1. m < l <=> seen[m] < seen[l]
        BY <1>3
      <4> QED BY <4>1, <3>1, <3>2, <2>2
    <3> QED BY <3>3, <1>5
  <2>4. {j \in news : j <= i} = news
    BY <2>3, <1>5
  <2>5. PICK last \in news : /\ \A j \in news : j <= last
                             /\ items[last].value = items[i].value
    BY <1>8, <2>4
  <2>6. PICK n \in 1..Len(told) : told[n] = last
    BY <1>4
  <2>7. n = Len(told)
    <3>1. PICK size \in Nat : size = Len(told)
      BY <1>4
    <3>2. size \in 1..Len(told) /\ n \in 1..size
      BY <3>1, <2>6
    <3>3. told[size] \in news /\ told[size] <= last
      BY <3>2, <1>4, <2>5
    <3>4. told[size] \in Nat /\ told[n] \in Nat
      BY <3>3, <2>6, <1>5
    <3>5. ~(told[n] < told[size])
      BY ONLY <3>3, <3>4, <2>6
    <3>6. ~(n < size)
      BY <3>5, <3>2, <1>4
    <3> QED BY ONLY <3>6, <3>1, <3>2
  <2>8. I!Last(told) = last /\ told # <<>>
    BY <2>6, <2>7, <1>4 DEF I!Last
  <2> QED BY <2>2, <2>4, <2>5, <2>8, <1>4, <1>8
<1>10. ASSUME NEW n \in 2..Len(told)
       PROVE  items[told[n]].value # items[told[n - 1]].value
  <2>1. PICK m \in 1..Len(told) : m = n - 1
    BY <1>4
  <2>2. n \in 1..Len(told) /\ m < n
    BY <1>4, <2>1
  <2>3. PICK j \in news, p \in news : j = told[n] /\ p = told[m] /\ p < j
    BY <2>2, <1>4
  <2>4. j \in rows /\ p \in rows /\ j \in Nat /\ p \in Nat
    BY <1>5
  <2>5. PICK a \in 1..Len(seen), b \in 1..Len(seen) : seen[a] = j /\ seen[b] = p
    BY <2>4, <1>3
  <2>6. b < a
    BY <2>3, <2>5, <1>3
  <2>7. a # 1 /\ a - 1 \in 1..Len(seen)
    <3>1. PICK size \in Nat : size = Len(seen)
      BY <1>3
    <3>2. a \in 1..size /\ b \in 1..size
      BY <3>1
    <3>3. a # 1 /\ a - 1 \in 1..size
      BY ONLY <3>2, <2>6, size \in Nat
    <3> QED BY <3>1, <3>3
  <2>8. /\ seen[a - 1] \in AcceptedIn(items, c, k, j)
        /\ \A i \in AcceptedIn(items, c, k, j) : i <= seen[a - 1]
    BY <2>5, <2>7, AcceptedBefore
  <2>9. PICK last \in AcceptedIn(items, c, k, j) : \A i \in AcceptedIn(items, c, k, j) : i <= last
    BY <2>8
  <2>10. last \in rows /\ last < j /\ \A i \in rows : i < j => i \in AcceptedIn(items, c, k, j)
    BY <2>9, <1>1 DEF AcceptedIn, I!Row, AcceptedOf
  <2>11. Revises(items, items[j], AcceptedIn(items, c, k, j))
    BY <1>6, <2>4 DEF RowsChained
  <2>12. items[j].change \in {"new", "updated"} /\ items[j].decision = "accepted"
    BY <1>2 DEF DeliverableOf, I!Deliverable
  <2>13. items[j].value # items[last].value
    BY <2>9, <2>11, <2>12 DEF Revises
  <2>14. PICK q \in news : /\ q <= last
                           /\ \A i \in news : i <= last => i <= q
                           /\ items[q].value = items[last].value
    BY <1>8, <2>10
  <2>15. p <= last
    BY <2>3, <2>4, <2>9, <2>10
  <2>16. p <= q /\ q < j /\ q \in Nat
    <3>1. q \in Nat /\ last \in Nat
      BY <1>5, <2>10
    <3>2. p <= q
      BY <2>14, <2>15
    <3> QED BY ONLY <3>1, <3>2, <2>4, <2>10, <2>14
  <2>17. PICK l \in 1..Len(told) : told[l] = q
    BY <1>4
  <2>18. l < n
    BY <2>2, <2>3, <2>16, <2>17, <1>4
  <2>19. ~(m < l)
    BY ONLY <2>1, <2>18, l \in 1..Len(told), m \in 1..Len(told), n \in 2..Len(told), <1>4
  <2>20. ~(p < q)
    BY <2>19, <2>17, <2>3, <1>4
  <2>21. p = q
    BY ONLY <2>20, <2>16, <2>4
  <2> QED BY <2>1, <2>3, <2>13, <2>14, <2>21
<1> QED BY <1>9, <1>10

-----------------------------------------------------------------------------
(* The steps that write no row *)

\* What is said of rows and deliveries alone stays true with them.
LEMMA RowsUnmoved ==
    ASSUME ItemsInv, items' = items, events' = events
    PROVE  RowsChained' /\ EventsExact' /\ RowsCounted' /\ I!Row' = I!Row
<1>1. I!Row' = I!Row
  BY DEF I!Row
<1>2. RowsChained'
  BY <1>1 DEF ItemsInv, RowsChained
<1>3. EventsExact'
  BY <1>1 DEF ItemsInv, EventsExact
<1>4. RowsCounted'
  BY <1>1 DEF ItemsInv, RowsCounted
<1> QED BY <1>1, <1>2, <1>3, <1>4

\* So does what is said of a reader at rest.
LEMMA ReaderUnmoved ==
    ASSUME ItemsInv, items' = items, reader' = reader
    PROVE  ReaderOnWay'
<1>1. I!Row' = I!Row
  BY DEF I!Row
<1>2. \A i : I!Position(i)' = I!Position(i)
  BY DEF I!Position
<1>3. \A v : I!View(v)' = I!View(v)
  BY <1>1 DEF I!View, I!Entities, I!Of, I!Later
<1>4. \A i, at : I!Before(i, at)' <=> I!Before(i, at)
  BY <1>2 DEF I!Before, I!Behind
<1>5. ReaderOnWay
  BY DEF ItemsInv
<1> QED BY <1>1, <1>2, <1>3, <1>4, <1>5 DEF ReaderOnWay, I!Behind

\* A run moves that is not done: to a row that is not live, or alone in its collector
\* and with what follows the rows.
LEMMA RunMoves ==
    ASSUME ItemsInv, NEW r \in I!Run, NEW row \in RunRow, runs[r].status # "done",
           runs' = [runs EXCEPT ![r] = row],
           now' = now, items' = items, events' = events, reader' = reader,
           row.status = "live" => \A q \in I!Run :
               q # r /\ runs[q].status = "live" => runs[q].collector # row.collector,
           \A n \in I!Claim : row.status = "live" /\ row.claim = n =>
               /\ \A k \in DOMAIN row.found[n] : Fresh(row.collector, r, row.found[n][k])
               /\ \A k, l \in DOMAIN row.found[n] :
                     row.found[n][k].observed = row.found[n][l].observed
    PROVE  ItemsInv'
<1> USE DEF ItemsInv
<1>1. /\ DOMAIN runs = I!Run /\ runs'[r] = row
      /\ \A q \in I!Run : q # r => runs'[q] = runs[q]
  BY DEF RowTypes
<1>2. RowTypes'
  BY DEF RowTypes, I!Minute, I!Run, I!Item
<1>3. RunsAlone'
  BY <1>1 DEF RunsAlone, I!Run
<1>4. RowsChained' /\ EventsExact' /\ RowsCounted' /\ I!Row' = I!Row
  BY RowsUnmoved
<1>5. RowsKept'
  <2>1. ASSUME NEW i \in I!Row PROVE runs'[items[i].run].status = "done"
    <3>1. items[i].run \in I!Run
      BY ItemFacts DEF I!Item
    <3> QED BY <3>1, <1>1 DEF RowsKept
  <2> QED BY <2>1, <1>4 DEF RowsKept
<1>6. BatchesFresh'
  <2> SUFFICES ASSUME NEW q \in I!Run, NEW n \in I!Claim,
                      runs'[q].status = "live", runs'[q].claim = n
               PROVE  /\ \A k \in DOMAIN runs'[q].found[n] :
                            Fresh(runs'[q].collector, q, runs'[q].found[n][k])
                      /\ \A k, l \in DOMAIN runs'[q].found[n] :
                            runs'[q].found[n][k].observed = runs'[q].found[n][l].observed
    BY <1>4 DEF BatchesFresh, Fresh, I!Run, I!Claim
  <2>1. CASE q = r
    BY <2>1, <1>1
  <2>2. CASE q # r
    BY <2>2, <1>1 DEF BatchesFresh
  <2> QED BY <2>1, <2>2
<1>7. ReaderOnWay'
  BY ReaderUnmoved
<1> QED BY <1>2, <1>3, <1>4, <1>5, <1>6, <1>7

\* A minute passes.
LEMMA TickStep ==
    ASSUME ItemsInv, I!Tick PROVE ItemsInv'
<1> USE DEF ItemsInv
<1>1. /\ now' = now + 1 /\ now < MaxMinutes /\ runs' = runs /\ items' = items
      /\ events' = events /\ reader' = reader
  BY DEF I!Tick
<1>2. now' \in I!Minute /\ now \in Nat
  BY <1>1, PagesAssumption DEF RowTypes, I!Minute, I!ItemsAssumption
<1>3. RowTypes'
  BY <1>1, <1>2 DEF RowTypes, I!Minute, I!Run, I!Item
<1>4. RunsAlone'
  BY <1>1 DEF RunsAlone, I!Run
<1>5. RowsChained' /\ EventsExact' /\ RowsCounted' /\ I!Row' = I!Row
  BY <1>1, RowsUnmoved
<1>6. RowsKept'
  <2>1. ASSUME NEW i \in I!Row PROVE items[i].observed <= now'
    <3>1. items[i] \in I!Item
      BY ItemFacts
    <3>2. items[i].observed \in Nat
      BY ONLY <3>1 DEF I!Item, I!Minute
    <3> QED BY <3>2, <1>1, <1>2 DEF RowsKept
  <2> QED BY <1>1, <1>5, <2>1 DEF RowsKept
<1>7. BatchesFresh'
  <2>1. ASSUME NEW q \in I!Run, NEW n \in I!Claim,
               runs[q].status = "live", runs[q].claim = n,
               NEW k \in DOMAIN runs[q].found[n]
        PROVE  Fresh(runs[q].collector, q, runs[q].found[n][k])'
    <3>1. PICK item, c : item = runs[q].found[n][k] /\ c = runs[q].collector
      OBVIOUS
    <3>2. Fresh(c, q, item)
      BY <2>1, <3>1 DEF BatchesFresh
    <3>3. item.observed <= now'
      <4>1. runs[q].found[n] \in Seq(I!Item)
        BY DEF RowTypes, RunRow
      <4>2. k \in 1..Len(runs[q].found[n])
        BY <4>1, LenProperties
      <4>3. item \in I!Item
        BY <3>1, <4>1, <4>2, ElementOfSeq
      <4>4. item.observed \in Nat
        BY ONLY <4>3 DEF I!Item, I!Minute
      <4>5. item.observed <= now
        BY <3>2 DEF Fresh
      <4> QED BY ONLY <4>4, <4>5, <1>1, <1>2
    <3>4. item = (runs[q].found[n][k])' /\ c = (runs[q].collector)'
      BY <1>1, <3>1
    <3> HIDE DEF ItemsInv
    <3> QED BY ONLY <3>2, <3>3, <3>4, <1>1, <1>5 DEF Fresh
  <2>2. \A q \in I!Run, n \in I!Claim : runs[q].status = "live" /\ runs[q].claim = n =>
            \A k, l \in DOMAIN runs[q].found[n] :
                runs[q].found[n][k].observed = runs[q].found[n][l].observed
    BY DEF BatchesFresh
  <2>3. I!Run' = I!Run /\ I!Claim' = I!Claim /\ runs' = runs
    BY <1>1 DEF I!Run, I!Claim
  <2> HIDE DEF ItemsInv
  <2> QED BY ONLY <2>1, <2>2, <2>3 DEF BatchesFresh
<1>8. ReaderOnWay'
  BY <1>1, ReaderUnmoved
<1> QED BY <1>3, <1>4, <1>5, <1>6, <1>7, <1>8

\* A run that is not there yet.
LEMMA NoRunTyped ==
    I!NoRun \in RunRow /\ I!NoRun.claim = 0
<1>1. (CHOOSE c \in Collector : TRUE) \in Collector
  BY PagesAssumption DEF I!ItemsAssumption
<1>2. [n \in I!Claim |-> I!Unread] \in [I!Claim -> Seq(I!Item)]
  BY EmptySeq DEF I!Unread
<1>3. 0 \in 0..MaxClaims
  BY PagesAssumption DEF I!ItemsAssumption
<1> QED BY <1>1, <1>2, <1>3 DEF I!NoRun, RunRow

\* create_run, from the list or from what waits for review.
LEMMA StartsStep ==
    ASSUME ItemsInv, NEW c \in Collector, NEW targets \in SUBSET Url, I!Starts(c, targets)
    PROVE  ItemsInv'
<1>1. PICK r \in I!Run :
          /\ runs[r].status = "absent"
          /\ runs' = [runs EXCEPT ![r] = [I!NoRun EXCEPT !.status = "live", !.collector = c,
                                                         !.targets = targets]]
  BY DEF I!Starts
<1>2. PICK row : row = [I!NoRun EXCEPT !.status = "live", !.collector = c,
                                       !.targets = targets]
  OBVIOUS
<1>3. row \in RunRow /\ row.claim = 0 /\ row.collector = c
  BY <1>2, NoRunTyped DEF RunRow
<1>4. \A q \in I!Run : runs[q].status = "live" => runs[q].collector # c
  BY DEF I!Starts
<1>5. 0 \notin I!Claim
  BY PagesAssumption DEF I!ItemsAssumption, I!Claim
<1>6. now' = now /\ items' = items /\ events' = events /\ reader' = reader
  BY DEF I!Starts
<1>7. runs' = [runs EXCEPT ![r] = row] /\ runs[r].status # "done"
  BY <1>1, <1>2
<1> QED BY <1>3, <1>4, <1>5, <1>6, <1>7, RunMoves

\* A run that ends without writing.
LEMMA EndsStep ==
    ASSUME ItemsInv, NEW r \in I!Run, runs[r].status = "live",
           NEW status \in {"failed", "cancelled"},
           runs' = [runs EXCEPT ![r] = I!Ended(r, status)],
           now' = now, items' = items, events' = events, reader' = reader
    PROVE  ItemsInv'
<1>1. runs[r] \in RunRow
  BY DEF ItemsInv, RowTypes
<1>2. PICK row : row = I!Ended(r, status)
  OBVIOUS
<1>3. row \in RunRow /\ row.status = status
  BY <1>1, <1>2, NoRunTyped DEF RunRow, I!Ended
<1>4. row.status # "live" /\ runs[r].status # "done"
  BY <1>3
<1> QED BY <1>2, <1>3, <1>4, RunMoves

\* The last of some rows.
LEMMA LastRow ==
    ASSUME NEW S \in SUBSET Nat, IsFiniteSet(S), S # {}
    PROVE  \E m \in S : \A i \in S : i <= m
<1>1. PICK s : s = I!InOrder(S)
  OBVIOUS
<1>2. /\ s \in Seq(S) /\ Len(s) \in Nat
      /\ \A m, n \in 1..Len(s) : m < n <=> s[m] < s[n]
      /\ \A x \in S : \E n \in 1..Len(s) : s[n] = x
  BY ONLY <1>1, S \in SUBSET Nat, IsFiniteSet(S), InOrdered
<1>3. PICK size \in Nat : size = Len(s)
  BY <1>2
<1>4. size \in 1..size
  <2>1. PICK n \in 1..size : TRUE
    BY <1>2, <1>3
  <2> QED BY ONLY <2>1, size \in Nat, n \in 1..size
<1>5. s[size] \in S
  BY <1>2, <1>3, <1>4, ElementOfSeq
<1>6. ASSUME NEW i \in S PROVE i <= s[size]
  <2>1. PICK n \in 1..size : s[n] = i
    BY <1>2, <1>3
  <2>2. ~(size < n)
    BY ONLY <2>1, size \in Nat, n \in 1..size
  <2>3. ~(s[size] < s[n])
    BY <2>2, <1>2, <1>3, <1>4
  <2>4. s[size] \in Nat /\ i \in Nat
    BY <1>5
  <2> QED BY ONLY <2>1, <2>3, <2>4
<1> QED BY <1>5, <1>6

\* Of accepted rows of an entity, as they were observed in the order they stand in,
\* the latest is the last.
LEMMA LatestIsLast ==
    ASSUME ItemsInv, NEW c, NEW k, NEW m \in I!Previous(c, k),
           \A i \in I!Previous(c, k) : i <= m
    PROVE  I!LatestOf(I!Previous(c, k)) = m
<1> DEFINE before == I!Previous(c, k)
<1>1. \A i \in before : i \in I!Row /\ items[i].collector = c
  BY DEF I!Previous, I!Of
<1>2. \A i \in before : i \in Nat /\ items[i].observed \in Nat
  BY <1>1, ItemFacts DEF ItemsInv, I!Item, I!Minute
<1>3. \A i \in before : i # m => i < m
  BY <1>2
<1>4. \A i \in before : items[i].observed <= items[m].observed
  <2> TAKE i \in before
  <2>1. CASE i = m
    BY <2>1, <1>2
  <2>2. CASE i # m
    BY <2>2, <1>1, <1>3 DEF ItemsInv, RowsKept
  <2> QED BY <2>1, <2>2
<1>5. \A i \in before \ {m} : I!Later(m, i) /\ ~I!Later(i, m)
  BY <1>2, <1>3, <1>4 DEF I!Later
<1>6. \A j \in before \ {m} : I!Later(m, j)
  BY <1>5
<1>7. \A i \in before : (\A j \in before \ {i} : I!Later(i, j)) => i = m
  BY <1>5
<1>8. PICK l : l = I!LatestOf(before)
  OBVIOUS
<1>9. l \in before /\ \A j \in before \ {l} : I!Later(l, j)
  <2>1. m \in before
    OBVIOUS
  <2> HIDE DEF before
  <2> QED BY <2>1, <1>6, <1>8 DEF I!LatestOf
<1> QED BY <1>7, <1>8, <1>9

\* classify_items says of an item what there is to say after the accepted rows.
LEMMA Classifies ==
    ASSUME ItemsInv, NEW item \in I!Item, item.change = "none", item.revision = 0,
           NEW next, next = I!Classified(item)
    PROVE  /\ next \in I!Item
           /\ next.run = item.run /\ next.collector = item.collector /\ next.key = item.key
           /\ next.observed = item.observed
           /\ Revises(items, next, AcceptedIn(items, item.collector, item.key, Len(items) + 1))
<1> DEFINE before == I!Previous(item.collector, item.key)
<1>1. before = AcceptedIn(items, item.collector, item.key, Len(items) + 1)
  <2>1. PICK size \in Nat : size = Len(items)
    BY ItemFacts DEF ItemsInv
  <2>2. \A i \in 1..size : i < size + 1
    BY ONLY size \in Nat
  <2> QED BY <2>1, <2>2 DEF I!Previous, I!Of, AcceptedIn, I!Row
<1>2. before \in SUBSET Nat /\ IsFiniteSet(before) /\ \A i \in before : items[i] \in I!Item
  BY ItemFacts DEF ItemsInv, I!Previous, I!Of
<1>3. item.decision \in {"accepted", "rejected"}
  BY DEF I!Item
<1>4. CASE item.decision = "rejected"
  <2>1. next = item
    BY <1>4 DEF I!Classified
  <2> QED BY <2>1, <1>4 DEF Revises
<1>5. CASE item.decision = "accepted" /\ before = {}
  <2>0. PICK one \in Nat : one = 1
    OBVIOUS
  <2>1. next = [item EXCEPT !.change = "new", !.revision = one]
    BY <1>5, <2>0 DEF I!Classified
  <2>2. /\ next \in I!Item /\ next.change = "new" /\ next.revision = one
        /\ next.decision = "accepted"
        /\ next.run = item.run /\ next.collector = item.collector /\ next.key = item.key
        /\ next.observed = item.observed
    BY <2>1, <1>5 DEF I!Item
  <2> QED BY <2>0, <2>2, <1>1, <1>5 DEF Revises
<1>6. CASE item.decision = "accepted" /\ before # {}
  <2>1. PICK m \in before : \A i \in before : i <= m
    BY ONLY <1>2, <1>6, LastRow
  <2>2. I!LatestOf(before) = m
    BY <2>1, LatestIsLast
  <2>3. items[m].revision \in Nat
    BY <1>2 DEF I!Item
  <2>4. \A last \in before : (\A i \in before : i <= last) => last = m
    BY <2>1, <1>2
  <2>5. CASE items[m].value # item.value
    <3>0. PICK more \in Nat : more = items[m].revision + 1
      BY <2>3
    <3>1. next = [item EXCEPT !.change = "updated", !.revision = more]
      BY <2>2, <2>5, <1>6, <3>0 DEF I!Classified
    <3>2. /\ next \in I!Item /\ next.change = "updated"
          /\ next.revision = more
          /\ next.decision = "accepted" /\ next.value = item.value
          /\ next.run = item.run /\ next.collector = item.collector /\ next.key = item.key
          /\ next.observed = item.observed
      BY <3>1, <1>6 DEF I!Item
    <3> QED BY <3>0, <3>2, <2>4, <2>5, <1>1, <1>6 DEF Revises
  <2>6. CASE items[m].value = item.value
    <3>1. next = [item EXCEPT !.change = "unchanged", !.revision = items[m].revision]
      BY <2>2, <2>6, <1>6 DEF I!Classified
    <3>2. /\ next \in I!Item /\ next.change = "unchanged"
          /\ next.revision = items[m].revision
          /\ next.decision = "accepted" /\ next.value = item.value
          /\ next.run = item.run /\ next.collector = item.collector /\ next.key = item.key
          /\ next.observed = item.observed
      BY <3>1, <2>3, <1>6 DEF I!Item
    <3> QED BY <3>2, <2>4, <2>6, <1>1, <1>6 DEF Revises
  <2> QED BY <2>5, <2>6
<1> QED BY <1>3, <1>4, <1>5, <1>6

\* What a page shows becomes an item.
LEMMA MadeTyped ==
    ASSUME ItemsInv, NEW r \in I!Run, NEW u \in Url,
           NEW page \in [code : Nat, value : Nat, valid : BOOLEAN],
           NEW item, item = I!Made(r, u, page)
    PROVE  /\ item \in I!Item /\ item.change = "none" /\ item.revision = 0
           /\ item.run = r /\ item.collector = runs[r].collector /\ item.observed = now
<1>1. runs[r].collector \in Collector /\ now \in I!Minute
  BY DEF ItemsInv, RowTypes, RunRow
<1>2. u \in Nat /\ I!Key(u, page) \in Nat
  BY PagesAssumption DEF I!ItemsAssumption, I!Key
<1>3. PICK decision \in {"accepted", "rejected"} :
          decision = IF page.valid THEN "accepted" ELSE "rejected"
  OBVIOUS
<1>4. item = [run |-> r, collector |-> runs[r].collector, key |-> I!Key(u, page), url |-> u,
              value |-> page.value, observed |-> now, decision |-> decision,
              change |-> "none", revision |-> 0]
  BY <1>3 DEF I!Made
<1>5. PICK zero \in Nat, none \in {"new", "updated", "unchanged", "none"} :
          zero = 0 /\ none = "none"
  OBVIOUS
<1>6. page.value \in Nat
  OBVIOUS
<1>7. item = [run |-> r, collector |-> runs[r].collector, key |-> I!Key(u, page), url |-> u,
              value |-> page.value, observed |-> now, decision |-> decision,
              change |-> none, revision |-> zero]
  BY <1>4, <1>5
<1>8. item \in I!Item
  BY ONLY <1>1, <1>2, <1>3, <1>5, <1>6, <1>7, r \in I!Run, u \in Url DEF I!Item
<1> QED BY <1>4, <1>8

\* A claim reads its pages, and compares them with what is written.
LEMMA FetchStep ==
    ASSUME ItemsInv, NEW r \in I!Run, I!Fetch(r) PROVE ItemsInv'
<1> USE DEF ItemsInv
<1>1. PICK read \in SUBSET runs[r].targets \ {{}} :
         \E shown \in [read -> UNION {Shows[<<runs[r].collector, u>>] : u \in read}] :
            /\ \A u \in read : shown[u] \in Shows[<<runs[r].collector, u>>]
            /\ LET urls  == I!InOrder(read)
                   batch == [k \in DOMAIN urls |->
                                I!Classified(I!Made(r, urls[k], shown[urls[k]]))]
               IN  runs' = [runs EXCEPT ![r].claim = @ + 1,
                                        ![r].found[runs[r].claim + 1] = batch]
  BY DEF I!Fetch
<1>2. PICK urls : urls = I!InOrder(read)
  OBVIOUS
<1>3. PICK shown, batch :
         /\ \A u \in read : shown[u] \in Shows[<<runs[r].collector, u>>]
         /\ batch = [k \in DOMAIN I!InOrder(read) |->
                        I!Classified(I!Made(r, I!InOrder(read)[k], shown[I!InOrder(read)[k]]))]
         /\ runs' = [runs EXCEPT ![r].claim = @ + 1, ![r].found[runs[r].claim + 1] = batch]
  BY <1>1
<1>4. /\ DOMAIN batch = DOMAIN urls
      /\ \A k \in DOMAIN urls : batch[k] = I!Classified(I!Made(r, urls[k], shown[urls[k]]))
      /\ batch = [k \in DOMAIN urls |-> batch[k]]
  BY <1>2, <1>3
<1>5. /\ runs[r] \in RunRow /\ runs[r].status = "live" /\ runs[r].claim < MaxClaims
      /\ now' = now /\ items' = items /\ events' = events /\ reader' = reader
  BY DEF RowTypes, I!Fetch
<1>6. read \in SUBSET Nat /\ IsFiniteSet(read) /\ read \subseteq Url
  <2>1. read \subseteq Url
    BY <1>5 DEF RunRow
  <2>2. IsFiniteSet(Url) /\ Url \subseteq Nat
    BY PagesAssumption DEF I!ItemsAssumption, I!IsFiniteSet, IsFiniteSet
  <2> QED BY <2>1, <2>2, FS_Subset
<1>7. PICK size \in Nat : size = Len(urls) /\ urls \in Seq(read)
  BY ONLY <1>2, <1>6, InOrdered
<1>8. DOMAIN urls = 1..size /\ \A k \in 1..size : urls[k] \in read
  BY ONLY <1>7, LenProperties, ElementOfSeq
<1>9. ASSUME NEW k \in 1..size
      PROVE  /\ batch[k] \in I!Item /\ batch[k].observed = now
             /\ Fresh(runs[r].collector, r, batch[k])
  <2>1. PICK u \in read : u = urls[k]
    BY <1>8
  <2>2. PICK page : page = shown[u]
    OBVIOUS
  <2>3. page \in [code : Nat, value : Nat, valid : BOOLEAN]
    <3>1. page \in Shows[<<runs[r].collector, u>>]
      BY <1>3, <2>2
    <3>2. runs[r].collector \in Collector /\ u \in Url
      BY <1>5, <1>6 DEF RunRow
    <3>3. Shows \in [Collector \X Url -> SUBSET [code : Nat, value : Nat, valid : BOOLEAN]]
      BY PagesAssumption DEF I!ItemsAssumption
    <3>4. Shows[<<runs[r].collector, u>>] \in SUBSET [code : Nat, value : Nat, valid : BOOLEAN]
      BY <3>2, <3>3
    <3> QED BY <3>1, <3>4
  <2>4. PICK item : item = I!Made(r, u, page)
    OBVIOUS
  <2>5. /\ item \in I!Item /\ item.change = "none" /\ item.revision = 0
        /\ item.run = r /\ item.collector = runs[r].collector /\ item.observed = now
    BY <1>6, <2>3, <2>4, MadeTyped
  <2>6. batch[k] = I!Classified(item)
    BY <1>4, <1>8, <2>1, <2>2, <2>4
  <2>7. /\ batch[k] \in I!Item
        /\ batch[k].run = r /\ batch[k].collector = runs[r].collector
        /\ batch[k].key = item.key /\ batch[k].observed = now
        /\ Revises(items, batch[k], AcceptedIn(items, runs[r].collector, item.key,
                                               Len(items) + 1))
    BY <2>5, <2>6, Classifies
  <2>8. now <= now /\ \A i \in I!Row : items[i].observed <= now
    BY DEF RowTypes, I!Minute, RowsKept
  <2> QED BY <2>7, <2>8 DEF Fresh
<1>10. batch \in Seq(I!Item) /\ DOMAIN batch = 1..size
  <2>1. batch \in [1..size -> I!Item]
    BY <1>4, <1>8, <1>9
  <2> QED BY ONLY <2>1, size \in Nat, SeqDef
<1>11. PICK n \in I!Claim : n = runs[r].claim + 1
  BY <1>5, PagesAssumption DEF I!ItemsAssumption, RunRow, I!Claim
<1>12. PICK row : row = [runs[r] EXCEPT !.claim = n, !.found = [@ EXCEPT ![n] = batch]]
  OBVIOUS
<1>13. runs' = [runs EXCEPT ![r] = row]
  BY <1>3, <1>11, <1>12, <1>5 DEF RowTypes, RunRow
<1>14. /\ row \in RunRow /\ row.claim = n /\ row.found[n] = batch /\ row.status = "live"
       /\ row.collector = runs[r].collector
  <2>1. n \in 0..MaxClaims
    BY <1>11, PagesAssumption DEF I!Claim, I!ItemsAssumption
  <2>2. PICK found : found = [runs[r].found EXCEPT ![n] = batch]
    OBVIOUS
  <2>3. found \in [I!Claim -> Seq(I!Item)] /\ found[n] = batch
    BY <2>2, <1>5, <1>10, <1>11 DEF RunRow
  <2>4. row = [runs[r] EXCEPT !.claim = n, !.found = found]
    BY <1>12, <2>2
  <2> QED BY <2>1, <2>3, <2>4, <1>5 DEF RunRow
<1>15. \A q \in I!Run : q # r /\ runs[q].status = "live" => runs[q].collector # row.collector
  BY <1>5, <1>14 DEF RunsAlone
<1>16. \A m \in I!Claim : row.status = "live" /\ row.claim = m =>
          /\ \A k \in DOMAIN row.found[m] : Fresh(row.collector, r, row.found[m][k])
          /\ \A k, l \in DOMAIN row.found[m] :
                row.found[m][k].observed = row.found[m][l].observed
  <2>1. /\ \A k \in DOMAIN batch : Fresh(row.collector, r, batch[k])
        /\ \A k, l \in DOMAIN batch : batch[k].observed = batch[l].observed
    BY <1>9, <1>10, <1>14
  <2> QED BY <2>1, <1>14
<1>17. runs[r].status # "done"
  BY <1>5
<1> HIDE DEF ItemsInv
<1> QED BY <1>5, <1>13, <1>14, <1>15, <1>16, <1>17, RunMoves

-----------------------------------------------------------------------------
(* The steps of the reader *)

\* A step of the reader alone.
LEMMA ReaderMoves ==
    ASSUME ItemsInv, now' = now, runs' = runs, items' = items, events' = events,
           reader' \in ReaderRow, ReaderOnWay'
    PROVE  ItemsInv'
<1> USE DEF ItemsInv
<1>1. RowTypes'
  BY DEF RowTypes, I!Minute, I!Run, I!Item
<1>2. RunsAlone'
  BY DEF RunsAlone, I!Run
<1>3. RowsChained' /\ EventsExact' /\ RowsCounted' /\ I!Row' = I!Row
  BY RowsUnmoved
<1>4. RowsKept'
  BY <1>3 DEF RowsKept
<1>5. BatchesFresh'
  BY <1>3 DEF BatchesFresh, Fresh, I!Run, I!Claim
<1> QED BY <1>1, <1>2, <1>3, <1>4, <1>5

\* What a view shows are rows.
LEMMA ViewRows ==
    \A v : I!View(v) \subseteq I!Row
BY DEF I!View, I!Entities

\* A reader begins.
LEMMA OpenStep ==
    ASSUME ItemsInv, NEW view \in {"observations", "entities"}, I!Open(view)
    PROVE  ItemsInv'
<1>1. /\ reader = I!NoReader /\ now' = now /\ runs' = runs /\ items' = items
      /\ events' = events
      /\ reader' = [reader EXCEPT !.state = "reading", !.view = view, !.first = I!View(view)]
  BY DEF I!Open
<1>2. PICK first : first = I!View(view)
  OBVIOUS
<1>3. reader' = [state |-> "reading", view |-> view, at |-> <<>>, seen |-> <<>>,
                 first |-> first]
  BY <1>1, <1>2 DEF I!NoReader
<1>4. first \subseteq I!Row /\ I!Row \subseteq Nat
  BY <1>2, ViewRows, ItemFacts DEF ItemsInv
<1>5. reader' \in ReaderRow
  <2>1. <<>> \in Seq(Nat) /\ <<>> \in Cursor
    BY EmptySeq DEF Cursor
  <2> QED BY <1>3, <1>4, <2>1 DEF ReaderRow
<1>6. I!Row' = I!Row
  BY <1>1 DEF I!Row
<1>7. ReaderOnWay'
  BY <1>3, <1>4, <1>6, EmptySeq DEF ReaderOnWay, I!Before
<1> QED BY <1>1, <1>5, <1>7, ReaderMoves

\* Rows in order, taken from what is behind the cursor.
PageOf(behind, size, rows) ==
    /\ behind \in SUBSET I!Row /\ \A i \in behind : I!Before(i, reader.at)
    /\ size \in Nat /\ rows \in [1..size -> behind]
    /\ \A m, n \in 1..size : m < n => I!Behind(I!Position(rows[n]), I!Position(rows[m]))

\* What was seen and goes on with them.
SeenOn(seen, size, rows) ==
    /\ seen \in Seq(Nat) /\ Len(seen) = Len(reader.seen) + size
    /\ \A n \in 1..Len(seen) : seen[n] \in I!Row
    /\ \A n \in 1..size : seen[Len(reader.seen) + n] = rows[n]
    /\ \A n \in 1..Len(reader.seen) : seen[n] = reader.seen[n]
    /\ \A n \in 2..Len(seen) : I!Behind(I!Position(seen[n]), I!Position(seen[n - 1]))

\* They go on where the reader is.
LEMMA PageGoesOn ==
    ASSUME ItemsInv, reader.state = "reading", NEW behind, NEW size, NEW rows,
           PageOf(behind, size, rows), NEW seen, seen = reader.seen \o rows
    PROVE  SeenOn(seen, size, rows)
<1> USE DEF ItemsInv
<1>0. /\ behind \in SUBSET I!Row /\ \A i \in behind : I!Before(i, reader.at)
      /\ size \in Nat /\ rows \in [1..size -> behind]
      /\ \A m, n \in 1..size : m < n => I!Behind(I!Position(rows[n]), I!Position(rows[m]))
  BY DEF PageOf
<1>1. reader.seen \in Seq(Nat) /\ Len(reader.seen) \in Nat
      /\ DOMAIN reader.seen = 1..Len(reader.seen)
  BY LenProperties DEF RowTypes, ReaderRow
<1>2. PICK old \in Nat : old = Len(reader.seen)
  BY <1>1
<1>3. rows \in Seq(Nat) /\ Len(rows) = size
  <2>1. I!Row \subseteq Nat
    BY ItemFacts
  <2>2. rows \in [1..size -> Nat]
    BY <2>1, <1>0
  <2> QED BY ONLY <2>2, <1>0, SeqDef, LenProperties
<1>4. /\ seen \in Seq(Nat) /\ Len(seen) = old + size
      /\ \A i \in 1..(old + size) : seen[i] = IF i <= old THEN reader.seen[i] ELSE rows[i - old]
  BY ONLY <1>1, <1>2, <1>3, seen = reader.seen \o rows, ConcatProperties
<1>5. ASSUME NEW n \in 1..old PROVE seen[n] = reader.seen[n] /\ seen[n] \in I!Row
  <2>1. n \in 1..(old + size) /\ n <= old
    BY ONLY n \in 1..old, old \in Nat, <1>0
  <2>2. reader.seen[n] \in I!Row
    BY <1>1, <1>2 DEF ReaderOnWay
  <2> QED BY <2>1, <2>2, <1>4
<1>6. ASSUME NEW n \in 1..size PROVE seen[old + n] = rows[n] /\ seen[old + n] \in I!Row
  <2>1. old + n \in 1..(old + size) /\ ~(old + n <= old) /\ (old + n) - old = n
    BY ONLY n \in 1..size, old \in Nat, <1>0
  <2> QED BY <2>1, <1>0, <1>4
<1>7. ASSUME NEW n \in 1..(old + size) PROVE n \in 1..old \/ \E m \in 1..size : n = old + m
  <2>1. n \in 1..old \/ n - old \in 1..size
    BY ONLY n \in 1..(old + size), old \in Nat, <1>0
  <2>2. n = old + (n - old)
    BY ONLY n \in 1..(old + size), old \in Nat, <1>0
  <2> QED BY <2>1, <2>2
<1>8. ASSUME NEW n \in 2..(old + size)
      PROVE  I!Behind(I!Position(seen[n]), I!Position(seen[n - 1]))
  <2>1. n \in 1..(old + size) /\ n \in Nat
    BY ONLY n \in 2..(old + size), old \in Nat, <1>0
  <2>2. CASE n \in 1..old
    <3>1. n - 1 \in 1..old /\ n \in 2..old
      BY ONLY <2>2, n \in 2..(old + size), old \in Nat, <1>0
    <3>2. I!Behind(I!Position(reader.seen[n]), I!Position(reader.seen[n - 1]))
      BY <3>1, <1>2 DEF ReaderOnWay
    <3>3. seen[n] = reader.seen[n] /\ seen[n - 1] = reader.seen[n - 1]
      BY <2>2, <3>1, <1>5
    <3> QED BY <3>2, <3>3
  <2>3. ASSUME NEW m \in 1..size, n = old + m
        PROVE  I!Behind(I!Position(seen[n]), I!Position(seen[n - 1]))
    <3>1. seen[n] = rows[m]
      BY <2>3, <1>6
    <3>2. CASE m = 1
      <4>1. n - 1 = old /\ old # 0 /\ old \in 1..old
        BY ONLY <2>3, <3>2, n \in 2..(old + size), old \in Nat, <1>0
      <4>2. seen[n - 1] = reader.seen[old]
        BY <4>1, <1>5
      <4>3. reader.seen # <<>>
        BY <4>1, <1>2, EmptySeq
      <4>4. reader.at # <<>> /\ reader.at = I!Position(reader.seen[old])
        BY <4>3, <1>2 DEF ReaderOnWay
      <4>5. I!Before(rows[m], reader.at)
        BY <1>0
      <4>6. I!Behind(I!Position(rows[m]), reader.at)
        BY <4>4, <4>5 DEF I!Before
      <4> QED BY <4>2, <4>4, <4>6, <3>1
    <3>3. CASE m # 1
      <4>1. m - 1 \in 1..size /\ m - 1 < m /\ n - 1 = old + (m - 1)
        BY ONLY <2>3, <3>3, m \in 1..size, old \in Nat, <1>0
      <4>2. seen[n - 1] = rows[m - 1]
        BY <4>1, <1>6
      <4>3. I!Behind(I!Position(rows[m]), I!Position(rows[m - 1]))
        BY <4>1, <1>0
      <4> QED BY <4>2, <4>3, <3>1
    <3> QED BY <3>2, <3>3
  <2> QED BY <2>1, <2>2, <2>3, <1>7
<1>9. \A n \in 1..(old + size) : seen[n] \in I!Row
  BY <1>5, <1>6, <1>7
<1> QED BY <1>0, <1>2, <1>4, <1>5, <1>6, <1>8, <1>9 DEF SeenOn

\* list_items_cursor: the next page.
LEMMA ReadStep ==
    ASSUME ItemsInv, I!Read PROVE ItemsInv'
<1> USE DEF ItemsInv
<1>1. reader.state = "reading" /\ reader \in ReaderRow
  BY DEF I!Read, RowTypes
<1>2. PICK behind : behind = {i \in I!View(reader.view) : I!Before(i, reader.at)}
  OBVIOUS
<1>3. PICK sorted : sorted = I!Sorted(behind)
  OBVIOUS
<1>4. PICK more \in BOOLEAN : more <=> I!Cardinality(behind) > ReaderPage
  OBVIOUS
<1>5. PICK rows : rows = IF more THEN SubSeq(sorted, 1, ReaderPage) ELSE sorted
  OBVIOUS
<1>6. PICK seen : seen = reader.seen \o rows
  OBVIOUS
<1>7. /\ now' = now /\ runs' = runs /\ items' = items /\ events' = events
      /\ reader' = [reader EXCEPT !.seen = seen,
                                  !.at = IF more THEN I!Position(I!Last(rows)) ELSE <<>>,
                                  !.state = IF more THEN "reading" ELSE "done"]
  BY <1>2, <1>3, <1>4, <1>5, <1>6 DEF I!Read
<1>8. behind \in SUBSET I!Row /\ \A i \in behind : I!Before(i, reader.at)
  BY <1>2, ViewRows
<1>9. /\ sorted \in Seq(behind) /\ Len(sorted) = Cardinality(behind)
      /\ Cardinality(behind) \in Nat
      /\ \A m, n \in 1..Len(sorted) :
            m < n <=> I!Behind(I!Position(sorted[n]), I!Position(sorted[m]))
      /\ \A i \in behind : \E n \in 1..Len(sorted) : sorted[n] = i
  BY <1>3, <1>8, SortedRows
<1>10. PICK total \in Nat : total = Len(sorted) /\ (more <=> total > ReaderPage)
  BY <1>4, <1>9, SameCount
<1>11. ReaderPage \in Nat /\ ReaderPage # 0
  BY PagesAssumption DEF I!ItemsAssumption
<1>12. PICK size \in Nat : size = (IF more THEN ReaderPage ELSE total) /\ size <= total
  BY <1>10, <1>11
<1>13. rows \in [1..size -> behind] /\ \A n \in 1..size : rows[n] = sorted[n]
  <2>1. CASE more
    <3>1. size = ReaderPage /\ size <= total /\ size \in 1..size
      BY <2>1, <1>11, <1>12
    <3>2. 1 \in 1..(Len(sorted) + 1) /\ ReaderPage \in 0..Len(sorted)
      BY ONLY <3>1, <1>10, size \in Nat, total \in Nat
    <3>3. rows = [n \in 1..size |-> sorted[n]]
      <4>1. rows = SubSeq(sorted, 1, size)
        BY <2>1, <1>5, <3>1
      <4>2. /\ rows \in Seq(behind)
            /\ Len(rows) = (IF 1 <= size THEN size - 1 + 1 ELSE 0)
            /\ \A i \in 1..(size - 1 + 1) : rows[i] = sorted[1 + i - 1]
        BY <3>1, <3>2, <4>1, <1>9, SubSeqProperties
      <4>3. 1 <= size /\ size - 1 + 1 = size
        BY ONLY <3>1, size \in Nat
      <4>4. Len(rows) = size /\ \A i \in 1..size : rows[i] = sorted[i]
        <5>1. \A i \in 1..size : 1 + i - 1 = i
          BY ONLY size \in Nat
        <5> QED BY <4>2, <4>3, <5>1
      <4>5. rows \in [1..size -> behind]
        BY <4>2, <4>4, LenProperties
      <4> QED BY <4>4, <4>5
    <3>4. \A n \in 1..size : sorted[n] \in behind
      <4>1. \A n \in 1..size : n \in 1..Len(sorted)
        BY ONLY <3>1, <1>10, size \in Nat, total \in Nat
      <4> QED BY <4>1, <1>9, ElementOfSeq
    <3> QED BY <3>3, <3>4
  <2>2. CASE ~more
    <3>1. rows = sorted /\ size = Len(sorted)
      BY <2>2, <1>5, <1>10, <1>12
    <3> QED BY <3>1, <1>9, LenProperties
  <2> QED BY <2>1, <2>2
<1>14. \A m, n \in 1..size : m < n => I!Behind(I!Position(rows[n]), I!Position(rows[m]))
  <2>1. \A n \in 1..size : n \in 1..Len(sorted)
    BY ONLY <1>10, <1>12, size \in Nat, total \in Nat
  <2> QED BY <2>1, <1>9, <1>13
<1>15. /\ seen \in Seq(Nat) /\ Len(seen) = Len(reader.seen) + size
       /\ \A n \in 1..Len(seen) : seen[n] \in I!Row
       /\ \A n \in 1..size : seen[Len(reader.seen) + n] = rows[n]
       /\ \A n \in 1..Len(reader.seen) : seen[n] = reader.seen[n]
       /\ \A n \in 2..Len(seen) : I!Behind(I!Position(seen[n]), I!Position(seen[n - 1]))
  <2> HIDE DEF ItemsInv
  <2>1. PageOf(behind, size, rows)
    BY <1>8, <1>13, <1>14 DEF PageOf
  <2>2. SeenOn(seen, size, rows)
    BY <1>1, <1>6, <2>1, PageGoesOn
  <2> QED BY <2>2 DEF SeenOn
<1>16. PICK old \in Nat : old = Len(reader.seen) /\ DOMAIN reader.seen = 1..old
  BY <1>1, LenProperties DEF ReaderRow
<1>17. DOMAIN seen = 1..(old + size)
  BY <1>15, <1>16, LenProperties
<1>18. /\ \A n \in 1..old : n \in DOMAIN seen /\ seen[n] = reader.seen[n]
       /\ \A n \in 1..size : old + n \in DOMAIN seen /\ seen[old + n] = rows[n]
  <2>1. /\ \A n \in 1..old : n \in 1..(old + size)
        /\ \A n \in 1..size : old + n \in 1..(old + size)
    BY ONLY old \in Nat, size \in Nat
  <2> QED BY <2>1, <1>15, <1>16, <1>17
<1>19. /\ I!Row' = I!Row /\ \A v : I!View(v)' = I!View(v)
       /\ \A i : I!Position(i)' = I!Position(i)
  BY <1>7 DEF I!Row, I!View, I!Entities, I!Of, I!Later, I!Position
\* A row not behind the cursor was seen before.
<1>20. ASSUME NEW i \in reader.first \cap I!View(reader.view), i \notin behind
       PROVE  \E n \in DOMAIN seen : seen[n] = i
  <2>1. ~I!Before(i, reader.at)
    BY <1>20, <1>2
  <2>2. PICK n \in DOMAIN reader.seen : reader.seen[n] = i
    BY <1>1, <2>1 DEF ReaderOnWay
  <2> QED BY <2>2, <1>16, <1>18
<1>21. CASE more
  <2>1. size \in 1..size /\ size = ReaderPage
    BY <1>21, <1>11, <1>12
  <2>2. Len(rows) = size
    BY <1>13, SeqDef, LenProperties
  <2>3. I!Last(rows) = rows[size] /\ rows[size] \in I!Row /\ seen[old + size] = rows[size]
    BY <2>1, <2>2, <1>8, <1>13, <1>18 DEF I!Last
  <2>4. PICK at : at = I!Position(rows[size])
    OBVIOUS
  <2>5. at \in Nat \X Nat \X Nat /\ at # <<>>
    <3>1. at \in Nat \X Nat \X Nat
      BY <2>3, <2>4, Positions
    <3> QED BY <2>4, <3>1 DEF I!Position
  <2>6. reader' = [reader EXCEPT !.seen = seen, !.at = at, !.state = "reading"]
    BY <1>7, <1>21, <2>3, <2>4
  <2>7. /\ reader'.seen = seen /\ reader'.at = at /\ reader'.state = "reading"
        /\ reader'.first = reader.first /\ reader'.view = reader.view
        /\ reader' \in ReaderRow
    BY <2>5, <2>6, <1>1, <1>15 DEF ReaderRow, Cursor
  <2>8. Len(seen) = old + size /\ at = I!Position(seen[Len(seen)]) /\ seen # <<>>
    <3>1. old + size # 0
      BY ONLY <2>1, <1>11, <1>12, old \in Nat, size \in Nat
    <3> QED BY <3>1, <2>3, <2>4, <1>15, <1>16, EmptySeq
  <2>9. ASSUME NEW i \in reader.first \cap I!View(reader.view)
        PROVE  I!Before(i, at) \/ \E n \in DOMAIN seen : seen[n] = i
    <3>1. CASE i \in behind
      <4>1. PICK m \in 1..total : sorted[m] = i
        BY <3>1, <1>9, <1>10
      <4>2. CASE m \in 1..size
        BY <4>1, <4>2, <1>13, <1>18
      <4>3. CASE m \notin 1..size
        <5>1. size < m /\ size \in 1..total
          BY ONLY <4>3, <2>1, <1>12, m \in 1..total, size \in Nat, total \in Nat
        <5>2. I!Behind(I!Position(sorted[m]), I!Position(sorted[size]))
          BY <5>1, <1>9, <1>10
        <5> QED BY <5>2, <4>1, <2>1, <2>4, <1>13 DEF I!Before
      <4> QED BY <4>2, <4>3
    <3>2. CASE i \notin behind
      BY <3>2, <1>20
    <3> QED BY <3>1, <3>2
  <2>10. reader.first \subseteq I!Row
    BY DEF ReaderOnWay
  <2>11. \A n \in DOMAIN seen : seen[n] \in I!Row
    BY <1>15, <1>16, <1>17
  <2>12. ReaderOnWay'
    BY <2>7, <2>5, <2>8, <2>9, <2>10, <2>11, <1>15, <1>19 DEF ReaderOnWay, I!Before
  <2> HIDE DEF ItemsInv
  <2> QED BY <2>7, <2>12, <1>7, ReaderMoves
<1>22. CASE ~more
  <2>1. reader' = [reader EXCEPT !.seen = seen, !.at = <<>>, !.state = "done"]
    BY <1>7, <1>22
  <2>2. /\ reader'.seen = seen /\ reader'.state = "done"
        /\ reader'.first = reader.first /\ reader'.view = reader.view
        /\ reader' \in ReaderRow
    BY <2>1, <1>1, <1>15 DEF ReaderRow, Cursor
  <2>3. ASSUME NEW i \in reader.first \cap I!View(reader.view)
        PROVE  \E n \in DOMAIN seen : seen[n] = i
    <3>1. CASE i \in behind
      <4>1. size = total
        BY <1>12, <1>22
      <4>2. PICK m \in 1..size : sorted[m] = i
        BY <3>1, <4>1, <1>9, <1>10
      <4> QED BY <4>2, <1>13, <1>18
    <3>2. CASE i \notin behind
      BY <3>2, <1>20
    <3> QED BY <3>1, <3>2
  <2>4. reader.first \subseteq I!Row
    BY DEF ReaderOnWay
  <2>5. \A n \in DOMAIN seen : seen[n] \in I!Row
    BY <1>15, <1>16, <1>17
  <2>6. ReaderOnWay'
    BY <2>2, <2>3, <2>4, <2>5, <1>15, <1>19 DEF ReaderOnWay
  <2> HIDE DEF ItemsInv
  <2> QED BY <2>2, <2>6, <1>7, ReaderMoves
<1> QED BY <1>21, <1>22

\* iter_items_export: the view as a whole.
LEMMA ExportStep ==
    ASSUME ItemsInv, I!Export PROVE ItemsInv'
<1> USE DEF ItemsInv
<1>1. PICK rows : rows = I!View(reader.view)
  OBVIOUS
<1>2. PICK seen : seen = I!Sorted(rows)
  OBVIOUS
<1>3. /\ now' = now /\ runs' = runs /\ items' = items /\ events' = events
      /\ reader' = [reader EXCEPT !.seen = seen, !.state = "done"]
      /\ reader \in ReaderRow
  BY <1>1, <1>2 DEF I!Export, RowTypes
<1>4. rows \in SUBSET I!Row /\ I!Row \subseteq Nat
  BY <1>1, ViewRows, ItemFacts
<1>5. /\ seen \in Seq(rows) /\ Len(seen) = Cardinality(rows) /\ Cardinality(rows) \in Nat
      /\ \A m, n \in 1..Len(seen) :
            m < n <=> I!Behind(I!Position(seen[n]), I!Position(seen[m]))
      /\ \A i \in rows : \E n \in 1..Len(seen) : seen[n] = i
  BY <1>2, <1>4, SortedRows
<1>6. PICK size \in Nat : size = Len(seen)
  BY <1>5
<1>7. DOMAIN seen = 1..size /\ \A n \in 1..size : seen[n] \in rows
  BY ONLY <1>5, <1>6, LenProperties, ElementOfSeq
<1>8. seen \in Seq(Nat)
  <2>1. seen \in [1..size -> Nat]
    BY <1>4, <1>5, <1>6, <1>7, LenProperties
  <2> QED BY ONLY <2>1, size \in Nat, SeqDef
<1>9. \A n \in 2..size : I!Behind(I!Position(seen[n]), I!Position(seen[n - 1]))
  <2>1. \A n \in 2..size : n \in 1..size /\ n - 1 \in 1..size /\ n - 1 < n
    BY ONLY size \in Nat
  <2> QED BY <2>1, <1>5, <1>6
<1>10. /\ reader'.seen = seen /\ reader'.state = "done"
       /\ reader'.first = reader.first /\ reader'.view = reader.view
       /\ reader' \in ReaderRow
  BY <1>3, <1>8 DEF ReaderRow
<1>11. /\ I!Row' = I!Row /\ \A v : I!View(v)' = I!View(v)
       /\ \A i : I!Position(i)' = I!Position(i)
  BY <1>3 DEF I!Row, I!View, I!Entities, I!Of, I!Later, I!Position
<1>12. reader.first \subseteq I!Row
  BY DEF ReaderOnWay
<1>13. ReaderOnWay'
  BY <1>1, <1>4, <1>5, <1>6, <1>7, <1>9, <1>10, <1>11, <1>12 DEF ReaderOnWay
<1> HIDE DEF ItemsInv
<1> QED BY <1>3, <1>10, <1>13, ReaderMoves

-----------------------------------------------------------------------------
(* The commit *)

\* The list is the rows with the batch behind them.
Appended(list, batch) ==
    /\ list \in Seq(I!Item) /\ batch \in Seq(I!Item)
    /\ Len(list) = Len(items) + Len(batch)
    /\ \A i \in 1..Len(items) : i \in 1..Len(list) /\ list[i] = items[i]
    /\ \A k \in 1..Len(batch) : /\ Len(items) + k \in 1..Len(list)
                                /\ list[Len(items) + k] = batch[k]
    /\ \A i \in 1..Len(list) : i \in 1..Len(items) \/ \E k \in 1..Len(batch) : i = Len(items) + k

\* save_items: a run that is not done has no rows to replace, so that its rows are added.
LEMMA WrittenAppends ==
    ASSUME ItemsInv, NEW r \in I!Run, runs[r].status # "done", NEW batch \in Seq(I!Item),
           NEW list, list = I!Written(r, batch)
    PROVE  Appended(list, batch)
<1> USE DEF ItemsInv
<1>1. PICK size \in Nat : size = Len(items) /\ I!Row = 1..size
  BY ItemFacts DEF I!Row
<1>2. {i \in I!Row : items[i].run # r} = 1..size
  BY <1>1 DEF RowsKept
<1>3. PICK places : places = I!InOrder(1..size)
  OBVIOUS
<1>4. 1..size \in SUBSET Nat /\ IsFiniteSet(1..size) /\ Cardinality(1..size) = size
  BY ONLY size \in Nat, FS_Interval
<1>5. /\ places \in Seq(1..size) /\ Len(places) = size
      /\ \A n \in 1..Len(places) : Cardinality({j \in 1..size : j < places[n]}) = n - 1
  <2>1. PICK S : S = 1..size
    OBVIOUS
  <2>2. S \in SUBSET Nat /\ IsFiniteSet(S) /\ places = I!InOrder(S) /\ Cardinality(S) = size
    BY <2>1, <1>3, <1>4
  <2>3. places \in Seq(S) /\ Len(places) = Cardinality(S)
    BY ONLY <2>2, InOrdered
  <2>4. \A n \in 1..Len(places) : Cardinality({j \in S : j < places[n]}) = n - 1
    BY ONLY <2>2, InOrdered
  <2> QED BY <2>1, <2>2, <2>3, <2>4
<1>6. ASSUME NEW n \in 1..size PROVE places[n] = n
  <2>1. PICK x \in 1..size : x = places[n]
    BY <1>5, ElementOfSeq
  <2>2. {j \in 1..size : j < x} = 1..(x - 1)
    BY ONLY size \in Nat, x \in 1..size
  <2>3. Cardinality(1..(x - 1)) = x - 1
    <3>1. PICK y \in Nat : y = x - 1
      BY ONLY size \in Nat, x \in 1..size
    <3>2. Cardinality(1..y) = y
      BY ONLY y \in Nat, FS_Interval
    <3> QED BY <3>1, <3>2
  <2>4. x - 1 = n - 1
    BY <2>1, <2>2, <2>3, <1>5
  <2> QED BY ONLY <2>1, <2>4, size \in Nat, x \in 1..size, n \in 1..size
<1>7. items \in Seq(I!Item) /\ DOMAIN items = 1..size
  BY <1>1, LenProperties DEF RowTypes
<1>8. [k \in DOMAIN places |-> items[places[k]]] = items
  <2>1. DOMAIN places = 1..size
    BY <1>5, LenProperties
  <2>2. items = [k \in 1..size |-> items[k]]
    BY <1>7, <1>1, LenProperties
  <2>3. [k \in DOMAIN places |-> items[places[k]]] = [k \in 1..size |-> items[k]]
    BY <2>1, <1>6
  <2> QED BY <2>2, <2>3
<1>9. list = items \o batch
  BY <1>2, <1>3, <1>8 DEF I!Written
<1>10. PICK more \in Nat : more = Len(batch)
  BY LenProperties
<1>11. /\ list \in Seq(I!Item) /\ Len(list) = size + more
       /\ \A i \in 1..(size + more) :
             list[i] = IF i <= size THEN items[i] ELSE batch[i - size]
  BY ONLY <1>1, <1>7, <1>9, <1>10, batch \in Seq(I!Item), ConcatProperties
<1>12. \A i \in 1..size : i \in 1..(size + more) /\ i <= size
  BY ONLY size \in Nat, more \in Nat
<1>13. \A k \in 1..more : /\ size + k \in 1..(size + more) /\ ~(size + k <= size)
                          /\ (size + k) - size = k
  BY ONLY size \in Nat, more \in Nat
<1>14. \A i \in 1..(size + more) : i \in 1..size \/ \E k \in 1..more : i = size + k
  <2> TAKE i \in 1..(size + more)
  <2>1. i \in 1..size \/ (i - size \in 1..more /\ i = size + (i - size))
    BY ONLY size \in Nat, more \in Nat, i \in 1..(size + more)
  <2> QED BY <2>1
<1>15. \A i \in 1..size : list[i] = items[i]
  BY <1>11, <1>12
<1>16. \A k \in 1..more : list[size + k] = batch[k]
  BY <1>11, <1>13
<1> QED BY <1>1, <1>10, <1>11, <1>12, <1>13, <1>14, <1>15, <1>16 DEF Appended

\* The batch of the run's current claim is written behind the rows.
Writes(r, batch, list) ==
    /\ r \in I!Run /\ runs[r].status = "live"
    /\ \A k \in 1..Len(batch) : Fresh(runs[r].collector, r, batch[k])
    /\ \A k, l \in 1..Len(batch) : /\ batch[k].observed = batch[l].observed
                                   /\ k # l => batch[k].key # batch[l].key
    /\ Appended(list, batch)

\* Up to the old end the lists agree.
LEMMA OldRows ==
    ASSUME ItemsInv, NEW batch, NEW list, Appended(list, batch), NEW c, NEW k
    PROVE  /\ \A n \in 1..(Len(items) + 1) : AcceptedIn(list, c, k, n) = AcceptedIn(items, c, k, n)
           /\ \A n \in 1..Len(items) : ToldIn(list, c, k, n) = ToldIn(items, c, k, n)
           /\ \A item, before : before \subseteq 1..Len(items) /\ Revises(items, item, before) =>
                                    Revises(list, item, before)
<1>1. PICK size \in Nat, more \in Nat : size = Len(items) /\ more = Len(batch)
  BY ItemFacts, LenProperties DEF ItemsInv, Appended
<1>2. /\ \A i \in 1..size : i \in 1..(size + more) /\ list[i] = items[i]
      /\ Len(list) = size + more
  BY <1>1 DEF Appended
<1>3. ASSUME NEW n \in 1..(size + 1)
      PROVE  AcceptedIn(list, c, k, n) = AcceptedIn(items, c, k, n)
  <2>1. \A i \in 1..(size + more) : i < n => i \in 1..size
    BY ONLY size \in Nat, more \in Nat, n \in 1..(size + 1)
  <2> QED BY <2>1, <1>1, <1>2 DEF AcceptedIn
<1>4. ASSUME NEW n \in 1..size
      PROVE  ToldIn(list, c, k, n) = ToldIn(items, c, k, n)
  <2>1. \A i \in 1..(size + more) : i <= n => i \in 1..size
    BY ONLY size \in Nat, more \in Nat, n \in 1..size
  <2> QED BY <2>1, <1>1, <1>2 DEF ToldIn
<1>5. ASSUME NEW item, NEW before, before \subseteq 1..size, Revises(items, item, before)
      PROVE  Revises(list, item, before)
  BY <1>2, <1>5 DEF Revises
<1> QED BY <1>1, <1>3, <1>4, <1>5

\* What is written behind the rows of an entity, as the run has one of it, stands
\* behind all of them and nothing else.
LEMMA NewRows ==
    ASSUME ItemsInv, NEW r, NEW batch, NEW list, Writes(r, batch, list),
           NEW k \in 1..Len(batch)
    PROVE  /\ AcceptedIn(list, batch[k].collector, batch[k].key, Len(items) + k)
                  = AcceptedIn(items, batch[k].collector, batch[k].key, Len(items) + 1)
           /\ ToldIn(list, batch[k].collector, batch[k].key, Len(items) + k)
                  = ToldIn(items, batch[k].collector, batch[k].key, Len(items))
                    \cup (IF I!Deliverable(batch[k]) THEN {Len(items) + k} ELSE {})
<1>1. PICK size \in Nat, more \in Nat : size = Len(items) /\ more = Len(batch)
  BY ItemFacts, LenProperties DEF ItemsInv, Writes, Appended
<1>2. /\ \A i \in 1..size : i \in 1..(size + more) /\ list[i] = items[i]
      /\ \A l \in 1..more : size + l \in 1..(size + more) /\ list[size + l] = batch[l]
      /\ \A i \in 1..(size + more) : i \in 1..size \/ \E l \in 1..more : i = size + l
      /\ Len(list) = size + more
  BY <1>1 DEF Writes, Appended
<1>3. PICK c, e : c = batch[k].collector /\ e = batch[k].key
  OBVIOUS
<1>4. \A l \in 1..more : l # k => batch[l].key # e
  BY <1>1, <1>3 DEF Writes
<1>5. k \in 1..more
  BY <1>1
<1>6. \A l \in 1..more : /\ ~(size + l < size + 1) /\ ~(size + l <= size)
                         /\ ~(size + k < size + k) /\ size + k <= size + k
  BY ONLY size \in Nat, more \in Nat, <1>5
<1>7. \A i \in 1..size : i < size + k /\ i < size + 1 /\ i <= size /\ i <= size + k
  BY ONLY size \in Nat, more \in Nat, <1>5
<1>8. AcceptedIn(list, c, e, size + k) = AcceptedIn(items, c, e, size + 1)
  <2>1. ASSUME NEW i \in AcceptedIn(list, c, e, size + k)
        PROVE  i \in AcceptedIn(items, c, e, size + 1)
    <3>1. /\ i \in 1..(size + more) /\ i < size + k /\ list[i].collector = c /\ list[i].key = e
          /\ list[i].decision = "accepted"
      BY <1>2 DEF AcceptedIn
    <3>2. CASE i \in 1..size
      BY <3>1, <3>2, <1>1, <1>2, <1>7 DEF AcceptedIn
    <3>3. ASSUME NEW l \in 1..more, i = size + l PROVE FALSE
      <4>1. l = k
        BY <3>1, <3>3, <1>2, <1>4
      <4> QED BY <4>1, <3>1, <3>3, <1>6
    <3> QED BY <3>1, <3>2, <3>3, <1>2
  <2>2. ASSUME NEW i \in AcceptedIn(items, c, e, size + 1)
        PROVE  i \in AcceptedIn(list, c, e, size + k)
    BY <1>1, <1>2, <1>7 DEF AcceptedIn
  <2> QED BY <2>1, <2>2
<1>9. ToldIn(list, c, e, size + k) = ToldIn(items, c, e, size)
          \cup (IF I!Deliverable(batch[k]) THEN {size + k} ELSE {})
  <2>1. ASSUME NEW i \in ToldIn(list, c, e, size + k)
        PROVE  i \in ToldIn(items, c, e, size) \/ (i = size + k /\ I!Deliverable(batch[k]))
    <3>1. /\ i \in 1..(size + more) /\ list[i].collector = c /\ list[i].key = e
          /\ I!Deliverable(list[i])
      BY <1>2 DEF ToldIn
    <3>2. CASE i \in 1..size
      BY <3>1, <3>2, <1>1, <1>2, <1>7 DEF ToldIn
    <3>3. ASSUME NEW l \in 1..more, i = size + l PROVE i = size + k /\ I!Deliverable(batch[k])
      <4>1. l = k
        BY <3>1, <3>3, <1>2, <1>4
      <4> QED BY <4>1, <3>1, <3>3, <1>2
    <3> QED BY <3>1, <3>2, <3>3, <1>2
  <2>2. ASSUME NEW i \in ToldIn(items, c, e, size)
        PROVE  i \in ToldIn(list, c, e, size + k)
    BY <1>1, <1>2, <1>7 DEF ToldIn
  <2>3. ASSUME I!Deliverable(batch[k]) PROVE size + k \in ToldIn(list, c, e, size + k)
    BY <2>3, <1>2, <1>3, <1>5, <1>6 DEF ToldIn
  <2> QED BY <2>1, <2>2, <2>3
<1> QED BY <1>1, <1>3, <1>8, <1>9

\* With the batch behind them rows still follow each other.
LEMMA WritesKeepsChain ==
    ASSUME ItemsInv, NEW r, NEW batch, NEW list, Writes(r, batch, list), NEW i \in 1..Len(list)
    PROVE  Revises(list, list[i], AcceptedIn(list, list[i].collector, list[i].key, i))
<1>1. PICK size \in Nat : size = Len(items) /\ I!Row = 1..size
  BY ItemFacts DEF ItemsInv, I!Row
<1>2. Appended(list, batch)
  BY DEF Writes
<1>3. CASE i \in 1..size
  <2>1. list[i] = items[i]
    BY <1>1, <1>2, <1>3 DEF Appended
  <2>2. PICK c, k : c = items[i].collector /\ k = items[i].key
    OBVIOUS
  <2>3. Revises(items, items[i], AcceptedIn(items, c, k, i))
    BY <1>1, <1>3, <2>2 DEF ItemsInv, RowsChained
  <2>4. AcceptedIn(items, c, k, i) \subseteq 1..Len(items)
    BY DEF AcceptedIn
  <2>5. i \in 1..(Len(items) + 1)
    BY ONLY size \in Nat, <1>1, <1>3
  <2>6. AcceptedIn(list, c, k, i) = AcceptedIn(items, c, k, i)
    BY <1>2, <2>5, OldRows
  <2>7. Revises(list, items[i], AcceptedIn(items, c, k, i))
    BY <1>2, <2>3, <2>4, OldRows
  <2> QED BY <2>1, <2>2, <2>6, <2>7
<1>4. ASSUME NEW k \in 1..Len(batch), i = size + k
      PROVE  Revises(list, list[i], AcceptedIn(list, list[i].collector, list[i].key, i))
  <2>1. list[i] = batch[k]
    BY <1>1, <1>2, <1>4 DEF Appended
  <2>2. PICK before : before = AcceptedIn(items, batch[k].collector, batch[k].key,
                                          Len(items) + 1)
    OBVIOUS
  <2>3. Revises(items, batch[k], before)
    BY <2>2 DEF Writes, Fresh
  <2>4. before \subseteq 1..Len(items)
    BY <2>2 DEF AcceptedIn
  <2>5. Revises(list, batch[k], before)
    BY <1>2, <2>3, <2>4, OldRows
  <2>6. AcceptedIn(list, batch[k].collector, batch[k].key, i) = before
    BY <1>1, <1>4, <2>2, NewRows
  <2> QED BY <2>1, <2>5, <2>6
<1> QED BY <1>1, <1>2, <1>3, <1>4 DEF Appended

\* Of an entity with accepted rows, all of it that was delivered was by the last of them.
LEMMA ToldByLast ==
    ASSUME ItemsInv, NEW c, NEW k, NEW last \in AcceptedIn(items, c, k, Len(items) + 1),
           \A i \in AcceptedIn(items, c, k, Len(items) + 1) : i <= last
    PROVE  /\ ToldIn(items, c, k, Len(items)) = ToldIn(items, c, k, last)
           /\ Cardinality(ToldIn(items, c, k, Len(items))) = items[last].revision
           /\ \E m \in ToldIn(items, c, k, Len(items)) :
                 /\ \A j \in ToldIn(items, c, k, Len(items)) : j <= m
                 /\ items[m].value = items[last].value
<1>1. PICK size \in Nat : size = Len(items) /\ I!Row = 1..size
  BY ItemFacts DEF ItemsInv, I!Row
<1>2. /\ last \in 1..size /\ items[last].collector = c /\ items[last].key = k
      /\ items[last].decision = "accepted"
  BY <1>1 DEF AcceptedIn
<1>3. ASSUME NEW i \in 1..size, items[i].collector = c, items[i].key = k,
             I!Deliverable(items[i])
      PROVE  i <= last
  <2>1. i < size + 1
    BY ONLY size \in Nat, i \in 1..size
  <2>2. i \in AcceptedIn(items, c, k, Len(items) + 1)
    BY <1>1, <1>3, <2>1 DEF AcceptedIn, I!Deliverable
  <2> QED BY <2>2
<1>4. \A i \in 1..size : i <= size
  BY ONLY size \in Nat
<1>5. ToldIn(items, c, k, Len(items)) = ToldIn(items, c, k, last)
  BY <1>1, <1>3, <1>4 DEF ToldIn
<1>6. /\ Cardinality(ToldIn(items, c, k, last)) = items[last].revision
      /\ \E m \in ToldIn(items, c, k, last) : /\ \A j \in ToldIn(items, c, k, last) : j <= m
                                              /\ items[m].value = items[last].value
  BY <1>1, <1>2 DEF ItemsInv, RowsCounted
<1> QED BY <1>5, <1>6

\* What an accepted row of the list says of the deliveries.
CountsAt(list, i) ==
    LET told == ToldIn(list, list[i].collector, list[i].key, i)
    IN  /\ Cardinality(told) = list[i].revision
        /\ \E last \in told : /\ \A j \in told : j <= last
                              /\ list[last].value = list[i].value

\* With the batch behind them an entity has as many deliveries as revisions.
LEMMA WritesKeepsCounts ==
    ASSUME ItemsInv, NEW r, NEW batch, NEW list, Writes(r, batch, list), NEW i \in 1..Len(list),
           list[i].decision = "accepted"
    PROVE  CountsAt(list, i)
<1>1. PICK size \in Nat : size = Len(items) /\ I!Row = 1..size
  BY ItemFacts DEF ItemsInv, I!Row
<1>2. Appended(list, batch)
  BY DEF Writes
<1>3. \A j \in 1..size : list[j] = items[j]
  BY <1>1, <1>2 DEF Appended
<1>4. CASE i \in 1..size
  <2>1. PICK told : told = ToldIn(items, items[i].collector, items[i].key, i)
    OBVIOUS
  <2>2. ToldIn(list, list[i].collector, list[i].key, i) = told
    BY <1>1, <1>2, <1>3, <1>4, <2>1, OldRows
  <2>3. /\ Cardinality(told) = items[i].revision
        /\ \E last \in told : /\ \A j \in told : j <= last
                              /\ items[last].value = items[i].value
    BY <1>1, <1>3, <1>4, <2>1 DEF ItemsInv, RowsCounted
  <2>4. told \subseteq 1..size
    BY <1>1, <2>1 DEF ToldIn
  <2> QED BY <2>2, <2>3, <2>4, <1>3, <1>4 DEF CountsAt
<1>5. ASSUME NEW k \in 1..Len(batch), i = size + k
      PROVE  CountsAt(list, i)
  <2>1. list[i] = batch[k]
    BY <1>1, <1>2, <1>5 DEF Appended
  <2>2. PICK c, e, before, told :
            /\ c = batch[k].collector /\ e = batch[k].key
            /\ before = AcceptedIn(items, c, e, Len(items) + 1)
            /\ told = ToldIn(items, c, e, Len(items))
    OBVIOUS
  <2>3. ToldIn(list, c, e, i) = told \cup (IF I!Deliverable(batch[k]) THEN {i} ELSE {})
    <3>1. ToldIn(list, batch[k].collector, batch[k].key, Len(items) + k)
              = ToldIn(items, batch[k].collector, batch[k].key, Len(items))
                \cup (IF I!Deliverable(batch[k]) THEN {Len(items) + k} ELSE {})
      BY NewRows
    <3>2. i = Len(items) + k
      BY <1>1, <1>5
    <3> QED BY <2>2, <3>1, <3>2
  <2>4. Revises(items, batch[k], before) /\ batch[k].decision = "accepted"
    BY <2>1, <2>2 DEF Writes, Fresh
  <2>5. /\ before \subseteq 1..size /\ told \subseteq before
    <3>1. \A j \in 1..size : j < size + 1
      BY ONLY size \in Nat
    <3> QED BY <1>1, <2>2, <3>1 DEF AcceptedIn, ToldIn, I!Deliverable
  <2>6. IsFiniteSet(told) /\ before \in SUBSET Nat /\ IsFiniteSet(before)
    <3>1. IsFiniteSet(1..size)
      BY ONLY size \in Nat, FS_Interval
    <3>2. before \subseteq Nat /\ told \subseteq 1..size
      BY <2>5
    <3> QED BY <2>5, <3>1, <3>2, FS_Subset
  <2>7. i \notin told /\ \A j \in told : j <= i /\ j \in 1..size
    <3>1. i \notin 1..size /\ \A j \in 1..size : j <= i
      <4>1. PICK more \in Nat : more = Len(batch)
        BY <1>2, LenProperties DEF Appended
      <4>2. k \in 1..more
        BY <4>1
      <4> QED BY ONLY size \in Nat, more \in Nat, <4>2, <1>5
    <3> QED BY <3>1, <2>5
  <2>8. i <= i /\ i \in Nat
    <3>1. Len(list) \in Nat
      BY <1>2, LenProperties DEF Appended
    <3> QED BY <3>1
  <2>9. CASE before = {}
    <3>1. batch[k].change = "new" /\ batch[k].revision = 1
      BY <2>4, <2>9 DEF Revises
    <3>2. told = {} /\ ToldIn(list, c, e, i) = {i}
      BY <2>3, <2>4, <2>5, <2>9, <3>1 DEF I!Deliverable
    <3>3. Cardinality({i}) = 1
      BY FS_Singleton
    <3>4. PICK set : set = ToldIn(list, c, e, i) /\ set = {i}
      BY <3>2
    <3>5. Cardinality(set) = list[i].revision
      BY <3>1, <3>3, <3>4, <2>1
    <3> QED BY <3>4, <3>5, <2>1, <2>2, <2>8 DEF CountsAt
  <2>10. CASE before # {}
    <3>1. PICK last \in before : \A j \in before : j <= last
      BY ONLY <2>6, <2>10, LastRow
    <3>2. /\ Cardinality(told) = items[last].revision
          /\ \E m \in told : /\ \A j \in told : j <= m
                             /\ items[m].value = items[last].value
      BY <2>2, <3>1, ToldByLast
    <3>3. CASE batch[k].value = items[last].value
      <4>1. batch[k].change = "unchanged" /\ batch[k].revision = items[last].revision
        BY <3>1, <3>3, <2>4, <2>10 DEF Revises
      <4>2. ToldIn(list, c, e, i) = told
        BY <4>1, <2>3 DEF I!Deliverable
      <4>3. \A j \in told : list[j] = items[j]
        BY <2>7, <1>3
      <4> QED BY <4>1, <4>2, <4>3, <3>2, <3>3, <2>1, <2>2 DEF CountsAt
    <3>4. CASE batch[k].value # items[last].value
      <4>1. batch[k].change = "updated" /\ batch[k].revision = items[last].revision + 1
        BY <3>1, <3>4, <2>4, <2>10 DEF Revises
      <4>2. PICK set : set = ToldIn(list, c, e, i) /\ set = told \cup {i}
        BY <4>1, <2>3, <2>4 DEF I!Deliverable
      <4>3. Cardinality(told \cup {i}) = Cardinality(told) + 1
        BY <2>6, <2>7, FS_AddElement
      <4>4. Cardinality(set) = list[i].revision
        BY <4>1, <4>2, <4>3, <3>2, <2>1
      <4>5. i \in set /\ \A j \in set : j <= i
        BY <4>2, <2>7, <2>8
      <4> QED BY <4>2, <4>4, <4>5, <2>1, <2>2 DEF CountsAt
    <3> QED BY <3>3, <3>4
  <2> QED BY <2>9, <2>10
<1> QED BY <1>1, <1>2, <1>4, <1>5 DEF Appended

\* What EventsExact says of a list and its deliveries.
ExactFor(list, next) ==
    /\ next \in Seq(Nat)
    /\ \A e \in DOMAIN next : next[e] \in 1..Len(list) /\ I!Deliverable(list[next[e]])
    /\ \A e, f \in DOMAIN next : e < f => next[e] < next[f]
    /\ \A i \in 1..Len(list) : I!Deliverable(list[i]) => \E e \in DOMAIN next : next[e] = i

\* enqueue_run_deliveries: what is deliverable of the batch goes behind the deliveries.
LEMMA WritesDelivers ==
    ASSUME ItemsInv, NEW batch, NEW list, Appended(list, batch),
           NEW news, news = {i \in DOMAIN list : /\ i > Len(list) - Len(batch)
                                                 /\ I!Deliverable(list[i])},
           NEW next, next = events \o I!InOrder(news)
    PROVE  ExactFor(list, next)
<1> USE DEF ItemsInv
<1>1. PICK size \in Nat, more \in Nat :
          /\ size = Len(items) /\ more = Len(batch) /\ I!Row = 1..size
          /\ Len(list) = size + more
  BY ItemFacts, LenProperties DEF Appended, I!Row
<1>2. DOMAIN list = 1..(size + more)
  BY <1>1, LenProperties DEF Appended
<1>3. \A i \in 1..(size + more) : i > (size + more) - more <=> i \notin 1..size
  BY ONLY size \in Nat, more \in Nat
<1>4. news = {i \in 1..(size + more) : i \notin 1..size /\ I!Deliverable(list[i])}
  BY <1>1, <1>2, <1>3
<1>5. news \in SUBSET Nat /\ IsFiniteSet(news)
  <2>1. PICK total \in Nat : total = size + more
    OBVIOUS
  <2>2. IsFiniteSet(1..total)
    BY ONLY total \in Nat, FS_Interval
  <2>3. news \subseteq 1..total
    BY <1>4, <2>1
  <2> QED BY <2>2, <2>3, FS_Subset
<1>6. PICK fresh : fresh = I!InOrder(news)
  OBVIOUS
<1>7. /\ fresh \in Seq(news)
      /\ \A m, n \in 1..Len(fresh) : m < n <=> fresh[m] < fresh[n]
      /\ \A i \in news : \E n \in 1..Len(fresh) : fresh[n] = i
  BY ONLY <1>5, <1>6, InOrdered
<1>8. PICK told \in Nat, adds \in Nat : told = Len(events) /\ adds = Len(fresh)
  BY <1>7, LenProperties DEF RowTypes
<1>9. \A n \in 1..adds : fresh[n] \in news
  BY ONLY <1>7, <1>8, ElementOfSeq
<1>10. events \in Seq(Nat) /\ DOMAIN events = 1..told /\ fresh \in Seq(Nat)
  <2>1. fresh \in [1..adds -> Nat]
    BY <1>5, <1>7, <1>8, <1>9, LenProperties
  <2>2. fresh \in Seq(Nat)
    BY ONLY <2>1, adds \in Nat, SeqDef
  <2> QED BY <2>2, <1>8, LenProperties DEF RowTypes
<1>11. /\ next \in Seq(Nat) /\ Len(next) = told + adds
       /\ \A e \in 1..(told + adds) : next[e] = IF e <= told THEN events[e] ELSE fresh[e - told]
  BY ONLY <1>6, <1>8, <1>10, next = events \o I!InOrder(news), ConcatProperties
<1>12. DOMAIN next = 1..(told + adds)
  BY ONLY <1>11, LenProperties
<1>13. \A e \in 1..told : e \in 1..(told + adds) /\ next[e] = events[e]
  <2>1. \A e \in 1..told : e \in 1..(told + adds) /\ e <= told
    BY ONLY told \in Nat, adds \in Nat
  <2> QED BY <2>1, <1>11
<1>14. \A n \in 1..adds : told + n \in 1..(told + adds) /\ next[told + n] = fresh[n]
  <2>1. \A n \in 1..adds : /\ told + n \in 1..(told + adds) /\ ~(told + n <= told)
                           /\ (told + n) - told = n
    BY ONLY told \in Nat, adds \in Nat
  <2> QED BY <2>1, <1>11
<1>15. \A e \in 1..(told + adds) : e \in 1..told \/ \E n \in 1..adds : e = told + n
  <2> TAKE e \in 1..(told + adds)
  <2>1. e \in 1..told \/ (e - told \in 1..adds /\ e = told + (e - told))
    BY ONLY told \in Nat, adds \in Nat, e \in 1..(told + adds)
  <2> QED BY <2>1
<1>16. \A i \in 1..size : i \in 1..(size + more) /\ list[i] = items[i]
  BY <1>1 DEF Appended
<1>17. \A e \in 1..told : /\ next[e] \in 1..size /\ next[e] \in 1..(size + more)
                          /\ I!Deliverable(list[next[e]])
  BY <1>1, <1>10, <1>13, <1>16 DEF EventsExact
<1>18. \A n \in 1..adds : /\ next[told + n] \in 1..(size + more)
                          /\ next[told + n] \notin 1..size
                          /\ I!Deliverable(list[next[told + n]])
  BY <1>4, <1>9, <1>14
<1>19. ASSUME NEW e \in 1..(told + adds), NEW f \in 1..(told + adds), e < f
       PROVE  next[e] < next[f]
  <2>1. CASE e \in 1..told /\ f \in 1..told
    BY <2>1, <1>10, <1>13, <1>19 DEF EventsExact
  <2>2. ASSUME NEW n \in 1..adds, f = told + n, e \in 1..told PROVE next[e] < next[f]
    <3>1. PICK x \in 1..size, y \in 1..(size + more) : x = next[e] /\ y = next[f] /\ y \notin 1..size
      BY <2>2, <1>17, <1>18
    <3>2. x < y
      BY ONLY <3>1, size \in Nat, more \in Nat, x \in 1..size, y \in 1..(size + more)
    <3> QED BY <3>1, <3>2
  <2>3. ASSUME NEW m \in 1..adds, NEW n \in 1..adds, e = told + m, f = told + n
        PROVE  next[e] < next[f]
    <3>1. m < n
      BY ONLY <2>3, <1>19, told \in Nat, adds \in Nat, m \in 1..adds, n \in 1..adds
    <3>2. m \in 1..Len(fresh) /\ n \in 1..Len(fresh)
      BY <1>8
    <3>3. fresh[m] < fresh[n]
      BY ONLY <3>1, <3>2, <1>7
    <3>4. next[e] = fresh[m] /\ next[f] = fresh[n]
      BY <2>3, <1>14
    <3> QED BY <3>3, <3>4
  <2>4. ASSUME NEW m \in 1..adds, e = told + m, f \in 1..told PROVE FALSE
    BY ONLY <2>4, <1>19, told \in Nat, adds \in Nat, m \in 1..adds
  <2> QED BY <1>15, <2>1, <2>2, <2>3, <2>4
<1>20. ASSUME NEW i \in 1..(size + more), I!Deliverable(list[i])
       PROVE  \E e \in 1..(told + adds) : next[e] = i
  <2>1. CASE i \in 1..size
    <3>1. PICK e \in 1..told : events[e] = i
      BY <2>1, <1>1, <1>10, <1>16, <1>20 DEF EventsExact
    <3> QED BY <3>1, <1>13
  <2>2. CASE i \notin 1..size
    <3>1. i \in news
      BY <2>2, <1>4, <1>20
    <3>2. PICK n \in 1..adds : fresh[n] = i
      BY <3>1, <1>7, <1>8
    <3> QED BY <3>2, <1>14
  <2> QED BY <2>1, <2>2
<1>21. \A e \in 1..(told + adds) : next[e] \in 1..(size + more) /\ I!Deliverable(list[next[e]])
  BY <1>15, <1>17, <1>18
<1> QED BY <1>1, <1>11, <1>12, <1>19, <1>20, <1>21 DEF ExactFor

\* The reader finds its rows where they were.
LEMMA WritesKeepsReader ==
    ASSUME ItemsInv, NEW batch, Appended(items', batch), reader' = reader
    PROVE  ReaderOnWay'
<1> USE DEF ItemsInv
<1>1. PICK size \in Nat : size = Len(items) /\ I!Row = 1..size
  BY ItemFacts DEF I!Row
<1>2. \A i \in I!Row : i \in I!Row' /\ items'[i] = items[i]
  BY <1>1 DEF Appended, I!Row
<1>3. \A i \in I!Row : I!Position(i)' = I!Position(i)
  BY <1>2 DEF I!Position
<1>4. \A i, j \in I!Row : I!Later(i, j)' <=> I!Later(i, j)
  BY <1>2 DEF I!Later
<1>5. ASSUME NEW v, NEW i \in I!Row, i \in I!View(v)' PROVE i \in I!View(v)
  <2>1. CASE v = "observations"
    BY <2>1 DEF I!View
  <2>2. CASE v # "observations"
    <3>1. i \in I!Entities' /\ items[i].decision = "accepted"
      BY <2>2, <1>2, <1>5 DEF I!View
    <3>2. PICK c, k : c = items[i].collector /\ k = items[i].key
      OBVIOUS
    <3>3. \A j \in I!Of(c, k)' \ {i} : I!Later(i, j)'
      BY <3>1, <3>2, <1>2 DEF I!Entities
    <3>4. \A j \in I!Of(c, k) : j \in I!Row /\ j \in I!Of(c, k)'
      BY <1>2 DEF I!Of
    <3>5. \A j \in I!Of(c, k) \ {i} : I!Later(i, j)
      BY <3>3, <3>4, <1>4
    <3>6. i \in I!Entities
      BY <3>2, <3>5 DEF I!Entities
    <3> QED BY <2>2, <3>1, <3>6 DEF I!View
  <2> QED BY <2>1, <2>2
<1>6. /\ reader.first \subseteq I!Row
      /\ \A n \in DOMAIN reader.seen : reader.seen[n] \in I!Row
  BY DEF ReaderOnWay
<1>7. PICK old \in Nat : old = Len(reader.seen) /\ DOMAIN reader.seen = 1..old
  BY LenProperties DEF RowTypes, ReaderRow
<1>8. \A n \in 1..old : I!Position(reader.seen[n])' = I!Position(reader.seen[n])
  BY <1>3, <1>6, <1>7
<1>9. ASSUME NEW n \in 2..old
      PROVE  I!Behind(I!Position(reader.seen[n])', I!Position(reader.seen[n - 1])')
  <2>1. n \in 1..old /\ n - 1 \in 1..old
    BY ONLY old \in Nat, n \in 2..old
  <2>2. I!Behind(I!Position(reader.seen[n]), I!Position(reader.seen[n - 1]))
    BY <1>7 DEF ReaderOnWay
  <2> QED BY <2>1, <2>2, <1>8
<1>10. reader.state = "reading" /\ reader.at # <<>> =>
           reader.at = I!Position(reader.seen[old])'
  <2>1. reader.state = "reading" /\ reader.at # <<>> =>
            reader.seen # <<>> /\ reader.at = I!Position(reader.seen[old])
    BY <1>7 DEF ReaderOnWay
  <2>2. reader.seen # <<>> => old \in 1..old
    <3>1. reader.seen # <<>> => old # 0
      BY <1>7, EmptySeq DEF RowTypes, ReaderRow
    <3> QED BY ONLY <3>1, old \in Nat
  <2> QED BY <2>1, <2>2, <1>8
<1>11. \A i \in I!Row : \A at : I!Before(i, at)' <=> I!Before(i, at)
  BY <1>3 DEF I!Before, I!Behind
<1>12. reader.state = "none" => reader = I!NoReader
  BY DEF ReaderOnWay
<1>13. reader.state = "reading" =>
           \A i \in reader.first \cap I!View(reader.view)' :
              I!Before(i, reader.at)' \/ \E n \in DOMAIN reader.seen : reader.seen[n] = i
  BY <1>5, <1>6, <1>11 DEF ReaderOnWay
<1>14. reader.state = "done" =>
           \A i \in reader.first \cap I!View(reader.view)' :
              \E n \in DOMAIN reader.seen : reader.seen[n] = i
  BY <1>5, <1>6 DEF ReaderOnWay
<1>15. reader.state = "reading" => (reader.at = <<>> => reader.seen = <<>>)
  BY DEF ReaderOnWay
<1>16. reader.state = "reading" => (reader.at # <<>> => reader.seen # <<>>)
  BY DEF ReaderOnWay
<1> QED BY <1>2, <1>6, <1>7, <1>9, <1>10, <1>12, <1>13, <1>14, <1>15, <1>16
        DEF ReaderOnWay, I!NoReader, I!Behind

\* finalize_run: the rows of the run, its deliveries and its end.
LEMMA WriteStep ==
    ASSUME ItemsInv, NEW r \in I!Run, NEW n \in I!Claim, I!Commit(r, n) PROVE ItemsInv'
<1> USE DEF ItemsInv
<1>1. PICK batch : batch = runs[r].found[n]
  OBVIOUS
<1>2. PICK list : list = I!Written(r, batch)
  OBVIOUS
<1>3. PICK news : news = {i \in DOMAIN list : /\ i > Len(list) - Len(batch)
                                              /\ I!Deliverable(list[i])}
  OBVIOUS
<1>4. /\ I!MayCommit(r, n) /\ I!IdsDiffer(batch)
      /\ runs' = [runs EXCEPT ![r].status = "done", ![r].found[n] = I!Unread]
      /\ items' = list
      /\ events' = events \o I!InOrder(news)
      /\ now' = now /\ reader' = reader
  BY <1>1, <1>2, <1>3 DEF I!Commit
<1>5. runs[r] \in RunRow /\ runs[r].status = "live" /\ runs[r].claim = n /\ DOMAIN runs = I!Run
  BY <1>4 DEF RowTypes, I!MayCommit
<1>6. batch \in Seq(I!Item) /\ DOMAIN batch = 1..Len(batch)
  <2>1. batch \in Seq(I!Item)
    BY <1>1, <1>5 DEF RunRow
  <2> QED BY <2>1, LenProperties
<1>7. Appended(list, batch)
  <2> HIDE DEF ItemsInv
  <2> QED BY <1>2, <1>5, <1>6, WrittenAppends
<1>8. Writes(r, batch, list)
  <2>1. \A k \in DOMAIN batch : Fresh(runs[r].collector, r, batch[k])
    BY <1>1, <1>5 DEF BatchesFresh
  <2>2. \A k, l \in DOMAIN batch : batch[k].observed = batch[l].observed
    BY <1>1, <1>5 DEF BatchesFresh
  <2>3. \A k, l \in DOMAIN batch : k # l => batch[k].key # batch[l].key
    BY <1>4 DEF I!IdsDiffer
  <2> QED BY <1>5, <1>6, <1>7, <2>1, <2>2, <2>3 DEF Writes
<1>9. PICK size \in Nat, more \in Nat :
          /\ size = Len(items) /\ more = Len(batch) /\ I!Row = 1..size
          /\ Len(list) = size + more /\ I!Row' = 1..(size + more)
  BY <1>4, <1>6, <1>7, ItemFacts, LenProperties DEF Appended, I!Row
<1>10. /\ \A i \in 1..size : i \in 1..(size + more) /\ list[i] = items[i] /\ items[i] \in I!Item
       /\ \A k \in 1..more : list[size + k] = batch[k]
       /\ \A i \in 1..(size + more) : i \in 1..size \/ \E k \in 1..more : i = size + k
       /\ list \in Seq(I!Item)
  BY <1>7, <1>9, ItemFacts DEF Appended
<1>11. /\ runs'[r].status = "done" /\ runs'[r].claim = n /\ runs'[r].collector = runs[r].collector
       /\ \A q \in I!Run : q # r => runs'[q] = runs[q]
  BY <1>4, <1>5 DEF RunRow
<1>12. PICK next : next = events'
  OBVIOUS
<1>13. ExactFor(list, next)
  <2> HIDE DEF ItemsInv
  <2> QED BY <1>3, <1>4, <1>7, <1>12, WritesDelivers
<1>14. RowTypes'
  <2>1. PICK row : row = [runs[r] EXCEPT !.status = "done",
                                         !.found = [@ EXCEPT ![n] = I!Unread]]
    OBVIOUS
  <2>2. row \in RunRow
    <3>1. PICK found : found = [runs[r].found EXCEPT ![n] = I!Unread]
      OBVIOUS
    <3>2. found \in [I!Claim -> Seq(I!Item)]
      BY <3>1, <1>5, EmptySeq DEF RunRow, I!Unread
    <3>3. row = [runs[r] EXCEPT !.status = "done", !.found = found]
      BY <2>1, <3>1
    <3> QED BY <3>2, <3>3, <1>5 DEF RunRow
  <2>3. runs' = [runs EXCEPT ![r] = row]
    BY <1>4, <1>5, <2>1 DEF RowTypes, RunRow
  <2>4. runs' \in [I!Run -> RunRow]
    BY <2>2, <2>3 DEF RowTypes
  <2>5. events' \in Seq(Nat) /\ items' \in Seq(I!Item)
    BY <1>4, <1>10, <1>12, <1>13 DEF ExactFor
  <2> QED BY <2>4, <2>5, <1>4 DEF RowTypes, I!Run, I!Item, I!Minute, RunRow, I!Claim
<1>15. RunsAlone'
  BY <1>11 DEF RunsAlone, I!Run
<1>16. \A i \in 1..size : /\ items[i].run \in I!Run /\ items[i].run # r
                          /\ runs[items[i].run].status = "done" /\ items[i].observed <= now
  BY <1>5, <1>9, <1>10 DEF RowsKept, I!Item
<1>17. \A k \in 1..more : /\ batch[k].run = r /\ batch[k].collector = runs[r].collector
                          /\ batch[k].observed <= now
                          /\ \A i \in 1..size : items[i].collector = runs[r].collector =>
                                 items[i].observed <= batch[k].observed
                          /\ batch[k] \in I!Item
  <2>1. \A k \in 1..more : batch[k] \in I!Item
    BY <1>6, <1>9, ElementOfSeq
  <2> QED BY <2>1, <1>8, <1>9 DEF Writes, Fresh
<1>18. RowsKept'
  <2>1. ASSUME NEW i \in 1..(size + more)
        PROVE  runs'[list[i].run].status = "done" /\ list[i].observed <= now
    <3>1. CASE i \in 1..size
      BY <3>1, <1>10, <1>11, <1>16
    <3>2. ASSUME NEW k \in 1..more, i = size + k
          PROVE  runs'[list[i].run].status = "done" /\ list[i].observed <= now
      BY <3>2, <1>10, <1>11, <1>17
    <3> QED BY <3>1, <3>2, <1>10
  <2>2. ASSUME NEW i \in 1..(size + more), NEW j \in 1..(size + more), i # j,
               list[i].run = list[j].run
        PROVE  list[i].key # list[j].key
    <3>1. CASE i \in 1..size /\ j \in 1..size
      BY <3>1, <2>2, <1>9, <1>10 DEF RowsKept
    <3>2. ASSUME NEW k \in 1..more, i = size + k, j \in 1..size PROVE FALSE
      BY <3>2, <2>2, <1>10, <1>16, <1>17
    <3>3. ASSUME NEW k \in 1..more, j = size + k, i \in 1..size PROVE FALSE
      BY <3>3, <2>2, <1>10, <1>16, <1>17
    <3>4. ASSUME NEW k \in 1..more, NEW l \in 1..more, i = size + k, j = size + l
          PROVE  list[i].key # list[j].key
      <4>1. k # l
        BY <2>2, <3>4
      <4> QED BY <4>1, <3>4, <1>8, <1>9, <1>10 DEF Writes
    <3> QED BY <3>1, <3>2, <3>3, <3>4, <1>10
  <2>3. ASSUME NEW i \in 1..(size + more), NEW j \in 1..(size + more), i < j,
               list[i].collector = list[j].collector
        PROVE  list[i].observed <= list[j].observed
    <3>1. CASE i \in 1..size /\ j \in 1..size
      BY <3>1, <2>3, <1>9, <1>10 DEF RowsKept
    <3>2. ASSUME NEW k \in 1..more, i = size + k, j \in 1..size PROVE FALSE
      BY ONLY <3>2, <2>3, size \in Nat, more \in Nat, k \in 1..more
    <3>3. ASSUME NEW k \in 1..more, j = size + k, i \in 1..size
          PROVE  list[i].observed <= list[j].observed
      <4>1. list[i] = items[i] /\ list[j] = batch[k]
        BY <3>3, <1>10
      <4>2. items[i].collector = runs[r].collector
        BY <4>1, <2>3, <1>17
      <4>3. items[i].observed <= batch[k].observed
        BY <4>2, <3>3, <1>17
      <4> QED BY <4>1, <4>3
    <3>4. ASSUME NEW k \in 1..more, NEW l \in 1..more, i = size + k, j = size + l
          PROVE  list[i].observed <= list[j].observed
      <4>1. batch[k].observed = batch[l].observed /\ batch[k].observed \in Nat
        BY <1>8, <1>9, <1>17 DEF Writes, I!Item, I!Minute
      <4>2. batch[k].observed <= batch[l].observed
        BY <4>1
      <4> QED BY <4>2, <3>4, <1>10
    <3> QED BY <3>1, <3>2, <3>3, <3>4, <1>10
  <2>4. PICK rows : rows = I!Row' /\ rows = 1..(size + more)
    BY <1>9
  <2>5. \A i \in rows : runs'[list[i].run].status = "done" /\ list[i].observed <= now
    BY <2>1, <2>4
  <2>6. \A i, j \in rows : i # j /\ list[i].run = list[j].run => list[i].key # list[j].key
    BY <2>2, <2>4
  <2>7. \A i, j \in rows : i < j /\ list[i].collector = list[j].collector =>
                              list[i].observed <= list[j].observed
    BY <2>3, <2>4
  <2>8. rows = I!Row' /\ items' = list /\ now' = now
    BY <1>4, <2>4
  <2> HIDE DEF ItemsInv
  <2> QED BY ONLY <2>5, <2>6, <2>7, <2>8 DEF RowsKept
<1>19. RowsChained'
  <2>1. ASSUME NEW i \in 1..(size + more)
        PROVE  Revises(list, list[i], AcceptedIn(list, list[i].collector, list[i].key, i))
    <3> HIDE DEF ItemsInv
    <3>1. i \in 1..Len(list)
      BY <1>9
    <3> QED BY <3>1, <1>8, WritesKeepsChain
  <2> QED BY <2>1, <1>4, <1>9 DEF RowsChained
<1>20. RowsCounted'
  <2>1. ASSUME NEW i \in 1..(size + more), list[i].decision = "accepted"
        PROVE  CountsAt(list, i)
    <3> HIDE DEF ItemsInv
    <3>1. i \in 1..Len(list)
      BY <1>9
    <3> QED BY <2>1, <3>1, <1>8, WritesKeepsCounts
  <2> QED BY <2>1, <1>4, <1>9 DEF RowsCounted, CountsAt
<1>21. BatchesFresh'
  <2>1. ASSUME NEW q \in I!Run, runs'[q].status = "live"
        PROVE  /\ q # r /\ runs'[q] = runs[q] /\ runs[q].status = "live"
               /\ runs[q].collector # runs[r].collector
    <3>1. q # r /\ runs'[q] = runs[q]
      BY <1>11, <2>1
    <3> QED BY <3>1, <2>1, <1>5 DEF RunsAlone
  <2>2. ASSUME NEW c, NEW key, c # runs[r].collector
        PROVE  AcceptedIn(list, c, key, Len(list) + 1) = AcceptedIn(items, c, key, Len(items) + 1)
    <3>1. \A i \in 1..(size + more) : list[i].collector = c => i \in 1..size
      <4> TAKE i \in 1..(size + more)
      <4>1. ASSUME NEW k \in 1..more, i = size + k PROVE list[i].collector = runs[r].collector
        BY <4>1, <1>10, <1>17
      <4> QED BY <4>1, <2>2, <1>10
    <3>2. \A i \in 1..size : i < size + 1 /\ i < (size + more) + 1
      OBVIOUS
    <3> QED BY <3>1, <3>2, <1>9, <1>10 DEF AcceptedIn
  <2>3. ASSUME NEW item, NEW before, before \subseteq 1..size, Revises(items, item, before)
        PROVE  Revises(list, item, before)
    BY <2>3, <1>10 DEF Revises
  <2>4. ASSUME NEW q \in I!Run, NEW m \in I!Claim, runs[q].status = "live", runs[q].claim = m,
               NEW k \in DOMAIN runs[q].found[m],
               runs[q].collector # runs[r].collector
        PROVE  /\ runs[q].found[m][k].run = q
               /\ runs[q].found[m][k].collector = runs[q].collector
               /\ runs[q].found[m][k].observed <= now
               /\ \A i \in 1..(size + more) : list[i].collector = runs[q].collector =>
                     list[i].observed <= runs[q].found[m][k].observed
               /\ Revises(list, runs[q].found[m][k],
                          AcceptedIn(list, runs[q].collector, runs[q].found[m][k].key,
                                     Len(list) + 1))
    <3>1. PICK item : item = runs[q].found[m][k]
      OBVIOUS
    <3>2. Fresh(runs[q].collector, q, item)
      BY <2>4, <3>1 DEF BatchesFresh
    <3>3. \A i \in 1..(size + more) : list[i].collector = runs[q].collector =>
              list[i].observed <= item.observed
      <4>1. \A i \in 1..(size + more) : list[i].collector = runs[q].collector => i \in 1..size
        BY <2>4, <1>10, <1>17
      <4> QED BY <4>1, <3>2, <1>9, <1>10 DEF Fresh
    <3>4. AcceptedIn(items, runs[q].collector, item.key, Len(items) + 1) \subseteq 1..size
      BY <1>9 DEF AcceptedIn
    <3>5. Revises(list, item, AcceptedIn(items, runs[q].collector, item.key, Len(items) + 1))
      BY <3>2, <3>4, <2>3 DEF Fresh
    <3>6. Revises(list, item, AcceptedIn(list, runs[q].collector, item.key, Len(list) + 1))
      BY <3>5, <2>2, <2>4
    <3> QED BY <3>1, <3>2, <3>3, <3>6 DEF Fresh
  <2>5. \A q \in I!Run, m \in I!Claim : runs'[q].status = "live" /\ runs'[q].claim = m =>
            \A k, l \in DOMAIN runs'[q].found[m] :
                runs'[q].found[m][k].observed = runs'[q].found[m][l].observed
    BY <2>1 DEF BatchesFresh
  <2>6. I!Run' = I!Run /\ I!Claim' = I!Claim /\ I!Row' = 1..(size + more)
    BY <1>9 DEF I!Run, I!Claim
  <2>7. \A q \in I!Run, m \in I!Claim : runs'[q].status = "live" /\ runs'[q].claim = m =>
          \A k \in DOMAIN runs'[q].found[m] :
             Fresh(runs[q].collector, q, runs[q].found[m][k])'
    <3> SUFFICES ASSUME NEW q \in I!Run, NEW m \in I!Claim,
                        runs'[q].status = "live", runs'[q].claim = m,
                        NEW k \in DOMAIN runs'[q].found[m]
                 PROVE  Fresh(runs[q].collector, q, runs[q].found[m][k])'
      OBVIOUS
    <3>1. runs'[q] = runs[q] /\ runs[q].status = "live" /\ runs[q].claim = m
          /\ runs[q].collector # runs[r].collector
      BY <2>1
    <3>2. PICK item, c : item = runs[q].found[m][k] /\ c = runs[q].collector
      OBVIOUS
    <3>9. k \in DOMAIN runs[q].found[m]
      BY <3>1
    <3>3. /\ item.run = q /\ item.collector = c /\ item.observed <= now
          /\ \A i \in 1..(size + more) : list[i].collector = c =>
                list[i].observed <= item.observed
          /\ Revises(list, item, AcceptedIn(list, c, item.key, Len(list) + 1))
      <4>1. /\ runs[q].found[m][k].run = q
            /\ runs[q].found[m][k].collector = runs[q].collector
            /\ runs[q].found[m][k].observed <= now
            /\ \A i \in 1..(size + more) : list[i].collector = runs[q].collector =>
                  list[i].observed <= runs[q].found[m][k].observed
            /\ Revises(list, runs[q].found[m][k],
                       AcceptedIn(list, runs[q].collector, runs[q].found[m][k].key,
                                  Len(list) + 1))
        BY ONLY <2>4, <3>1, <3>9, q \in I!Run, m \in I!Claim
      <4> QED BY ONLY <4>1, <3>2
    <3>4. item = (runs[q].found[m][k])' /\ c = (runs[q].collector)'
      BY <3>1, <3>2
    <3>5. now' = now /\ items' = list /\ I!Row' = 1..(size + more)
      BY <1>4, <2>6
    <3> HIDE DEF ItemsInv
    <3> QED BY ONLY <3>3, <3>4, <3>5 DEF Fresh
  <2> HIDE DEF ItemsInv
  <2> QED BY ONLY <2>5, <2>6, <2>7 DEF BatchesFresh
<1>22. EventsExact'
  BY <1>4, <1>9, <1>12, <1>13 DEF EventsExact, ExactFor
<1>23. ReaderOnWay'
  <2>1. Appended(items', batch)
    BY <1>4, <1>7
  <2> HIDE DEF ItemsInv
  <2> QED BY <2>1, <1>4, WritesKeepsReader
<1> QED BY <1>14, <1>15, <1>18, <1>19, <1>20, <1>21, <1>22, <1>23

-----------------------------------------------------------------------------
(* The beginning, and every step *)

\* Nothing was read yet.
LEMMA InitItems == I!Init => ItemsInv
<1> SUFFICES ASSUME I!Init PROVE ItemsInv
  OBVIOUS
<1>1. /\ now = 0 /\ runs = [r \in I!Run |-> I!NoRun] /\ items = <<>> /\ events = <<>>
      /\ reader = I!NoReader
  BY DEF I!Init
<1>2. I!Row = {} /\ DOMAIN events = {}
  BY <1>1 DEF I!Row
<1>3. RowTypes
  <2>1. now \in I!Minute
    BY <1>1, PagesAssumption DEF I!Minute, I!ItemsAssumption
  <2>2. runs \in [I!Run -> RunRow]
    BY <1>1, NoRunTyped
  <2>3. items \in Seq(I!Item) /\ events \in Seq(Nat)
    BY <1>1, EmptySeq
  <2>4. reader \in ReaderRow
    BY <1>1, EmptySeq DEF I!NoReader, ReaderRow, Cursor
  <2> QED BY <2>1, <2>2, <2>3, <2>4 DEF RowTypes
<1>4. \A r \in I!Run : runs[r].status = "absent"
  BY <1>1 DEF I!NoRun
<1>5. RunsAlone /\ BatchesFresh
  BY <1>4 DEF RunsAlone, BatchesFresh
<1>6. RowsKept /\ RowsChained /\ RowsCounted
  BY <1>2 DEF RowsKept, RowsChained, RowsCounted
<1>7. EventsExact
  BY <1>2 DEF EventsExact
<1>8. ReaderOnWay
  BY <1>1, <1>2 DEF ReaderOnWay, I!NoReader
<1> QED BY <1>3, <1>5, <1>6, <1>7, <1>8 DEF ItemsInv

\* reprocess_rejected: the pages that wait are pages of the source.
LEMMA BacklogOnSource ==
    ASSUME ItemsInv, NEW c \in Collector
    PROVE  {items[i].url : i \in I!Backlog(c)} \in SUBSET Url
<1>1. \A i \in I!Backlog(c) : i \in I!Row
  BY DEF I!Backlog, I!Entities
<1>2. \A i \in I!Row : items[i].url \in Url
  BY ItemFacts DEF ItemsInv, I!Item
<1> QED BY <1>1, <1>2

\* Every step of runs, workers and the reader.
LEMMA ItemsStep == ItemsInv /\ [I!Next]_itemVars => ItemsInv'
<1> SUFFICES ASSUME ItemsInv, [I!Next]_itemVars PROVE ItemsInv'
  OBVIOUS
<1>1. CASE UNCHANGED itemVars
  <2>1. now' = now /\ runs' = runs /\ items' = items /\ events' = events /\ reader' = reader
    BY <1>1 DEF itemVars
  <2>2. RowsChained' /\ EventsExact' /\ RowsCounted' /\ ReaderOnWay' /\ I!Row' = I!Row
    BY <2>1, RowsUnmoved, ReaderUnmoved
  <2>3. RowTypes' /\ RunsAlone' /\ RowsKept'
    BY <2>1, <2>2 DEF ItemsInv, RowTypes, RunsAlone, RowsKept, I!Run, I!Minute, I!Item
  <2>4. BatchesFresh'
    BY <2>1, <2>2 DEF ItemsInv, BatchesFresh, Fresh, I!Run, I!Claim
  <2> QED BY <2>2, <2>3, <2>4 DEF ItemsInv
<1>2. CASE I!Tick
  BY <1>2, TickStep
<1>3. ASSUME NEW c \in Collector, I!Start(c) PROVE ItemsInv'
  <2>1. I!Starts(c, Url) /\ Url \in SUBSET Url
    BY <1>3 DEF I!Start
  <2> QED BY <2>1, StartsStep
<1>4. ASSUME NEW c \in Collector, I!Reprocess(c) PROVE ItemsInv'
  <2>1. PICK targets \in SUBSET Url : targets = {items[i].url : i \in I!Backlog(c)}
    BY BacklogOnSource
  <2>2. I!Starts(c, targets)
    BY <1>4, <2>1 DEF I!Reprocess
  <2> QED BY <2>2, StartsStep
<1>5. ASSUME NEW r \in I!Run, I!Fetch(r) PROVE ItemsInv'
  BY <1>5, FetchStep
<1>6. ASSUME NEW r \in I!Run, I!Cancel(r) PROVE ItemsInv'
  <2>1. /\ runs[r].status = "live" /\ runs' = [runs EXCEPT ![r] = I!Ended(r, "cancelled")]
        /\ now' = now /\ items' = items /\ events' = events /\ reader' = reader
    BY <1>6 DEF I!Cancel
  <2> QED BY <2>1, EndsStep
<1>7. ASSUME NEW r \in I!Run, NEW n \in I!Claim, I!Collide(r, n) PROVE ItemsInv'
  <2>1. /\ runs[r].status = "live" /\ runs' = [runs EXCEPT ![r] = I!Ended(r, "failed")]
        /\ now' = now /\ items' = items /\ events' = events /\ reader' = reader
    BY <1>7 DEF I!Collide, I!MayCommit
  <2> QED BY <2>1, EndsStep
<1>8. ASSUME NEW view \in {"observations", "entities"}, I!Open(view) PROVE ItemsInv'
  BY <1>8, OpenStep
<1>9. CASE I!Read
  BY <1>9, ReadStep
<1>10. CASE I!Export
  BY <1>10, ExportStep
<1>11. ASSUME NEW r \in I!Run, NEW n \in I!Claim, I!Commit(r, n) PROVE ItemsInv'
  BY <1>11, WriteStep
<1> QED BY <1>1, <1>2, <1>3, <1>4, <1>5, <1>6, <1>7, <1>8, <1>9, <1>10, <1>11 DEF I!Next

\* The types of Items, from the whole types of its variables.
LEMMA ItemsTyped == ItemsInv => I!TypeOK
<1> SUFFICES ASSUME ItemsInv PROVE I!TypeOK
  OBVIOUS
<1>1. RowTypes /\ EventsExact /\ ReaderOnWay
  BY DEF ItemsInv
<1>2. \A S : \A s \in Seq(S) : I!Range(s) \subseteq S
  BY ElementOfSeq, LenProperties DEF I!Range
<1>3. ASSUME NEW r \in I!Run
      PROVE  /\ runs[r].status \in {"absent", "live", "done", "failed", "cancelled"}
             /\ runs[r].collector \in Collector /\ runs[r].targets \subseteq Url
             /\ runs[r].claim \in 0..MaxClaims
             /\ \A n \in I!Claim : I!Range(runs[r].found[n]) \subseteq I!Item
  <2>1. runs[r] \in RunRow
    BY <1>1 DEF RowTypes
  <2>2. \A n \in I!Claim : runs[r].found[n] \in Seq(I!Item)
    BY <2>1 DEF RunRow
  <2> QED BY <1>2, <2>1, <2>2 DEF RunRow
<1>4. I!Range(items) \subseteq I!Item
  BY <1>1, <1>2 DEF RowTypes
<1>5. I!Range(events) \subseteq I!Row
  BY <1>1 DEF EventsExact, I!Range
<1>6. I!Range(reader.seen) \subseteq I!Row /\ reader.first \subseteq I!Row
  BY <1>1 DEF ReaderOnWay, I!Range
<1>7. /\ reader.state \in {"none", "reading", "done"}
      /\ reader.view \in {"observations", "entities"} /\ now \in I!Minute
  BY <1>1 DEF RowTypes, ReaderRow
<1> QED BY <1>3, <1>4, <1>5, <1>6, <1>7 DEF I!TypeOK

-----------------------------------------------------------------------------
(* The theorems: a behaviour of MCSpec is one of Coverage and one of Items *)

\* A step of the parts is one of each, or leaves it alone.
LEMMA PartsStep == [MCNext]_MCVars => [Next]_vars /\ [I!Next]_itemVars
BY DEF MCNext, MCVars, CoverageNext, ItemsNext

\* What the rows, the deliveries, the batches of live runs and the reader agree on,
\* over every order of runs, workers and commits.
THEOREM ItemsAgree == MCSpec => []ItemsInv
<1>1. MCInit => ItemsInv
  BY InitItems DEF MCInit
<1>2. ItemsInv /\ [MCNext]_MCVars => ItemsInv'
  BY PartsStep, ItemsStep
<1> QED BY <1>1, <1>2, PTL DEF MCSpec

\* The revisions of an entity count its accepted values: the first is new, a later one
\* an update exactly when it differs from the one before, whatever workers were overtaken
\* in between (store.py: classify_items, finalize_run).
THEOREM RevisionsStayChained == MCSpec => []RevisionsChain
<1>1. ItemsInv => RevisionsChain
  BY ChainHolds DEF RevisionsChain
<1> QED BY <1>1, ItemsAgree, PTL

\* Who takes the deliveries in order has the latest accepted value of each entity and
\* is told nothing twice in a row (store.py: enqueue_run_deliveries).
THEOREM FeedStaysComplete == MCSpec => []FeedComplete
<1>1. ItemsInv => FeedComplete
  BY FeedHolds DEF FeedComplete
<1> QED BY <1>1, ItemsAgree, PTL

\* A walk by cursor or an export returns what was there all along, once and in order,
\* for every size of page and whatever is committed meanwhile (store.py:
\* list_items_cursor, iter_items_export).
THEOREM WalksAreExact == MCSpec => []WalkExact
<1>1. ItemsInv => WalkExact
  BY WalkHolds DEF WalkExact
<1> QED BY <1>1, ItemsAgree, PTL

\* A behaviour of the two parts is one of Coverage.
LEMMA CoverageRuns == MCSpec => Spec
<1>1. MCInit => Init
  BY DEF MCInit
<1> QED BY <1>1, PartsStep, PTL DEF MCSpec, Spec

\* Every variable of the two parts keeps its type: what a run reads stays within its
\* limits, what a reader has seen are rows (runtime.py, store.py).
THEOREM ReadingTyped == MCSpec => []AllTypesOK
<1>1. Spec => []TypeOK
  BY CoverageTypes
<1>2. TypeOK /\ ItemsInv => AllTypesOK
  BY ItemsTyped DEF AllTypesOK
<1> QED BY <1>1, <1>2, CoverageRuns, ItemsAgree, PTL
=============================================================================
