-------------------------- MODULE ExplorationProofs --------------------------
(***************************************************************************)
(* Theorems about Exploration, for any budget of calls, any number of       *)
(* claims, and whatever the model answers.                                  *)
(***************************************************************************)
EXTENDS Exploration, FiniteSetTheorems, TLAPS

-----------------------------------------------------------------------------
(* The inductive invariant *)

\* What a session holds belongs to its point in the loops of the task.
Fit(s) ==
    /\ s \in Session
    /\ s.pc # "failing" => s.stalled <= 2 /\ s.validationStalled <= 2
    /\ s.pc = "judging" => s.plan \in Plan
    /\ s.pc = "committing" => s.purpose = "compile" /\ s.previous = {}
    /\ Repair /\ s.pc \notin {"claimed", "failing"} => s.purpose = "compile"
    /\ kind = "repair" => s.proven = OldContract
    /\ kind = "explore" /\ s.purpose = "compile" => s.proven \in Fixed
    /\ kind = "repair_without_contract" => s.pc \in {"claimed", "asking", "failing"}

\* A session belongs to a claim that was given out, and keeps what that claim
\* has proved.
Sessions ==
    /\ session \in [Claim -> Session \cup {NoSession}]
    /\ \A n \in Claim :
          /\ pc(n) # "none" =>
                Fit(session[n]) /\ n <= job.claims /\ session[n].proven = proved[n]
          /\ n > job.claims => proved[n] = KeptFromTheStart

\* Calls that are booked and have not gone out, and how many there are.
BookedFor(p) == {n \in Claim : pc(n) = "booked" /\ session[n].purpose = p}
Due(p) == Cardinality(BookedFor(p))

\* Calls are made or due within those that are booked: a worker that is lost between
\* the two leaves a booked call that nobody makes.
Totals ==
    /\ asked["discover"] + Due("discover") + asked["compile"] + Due("compile") <= evidence
    /\ asked["discover"] + Due("discover") <= MaxCalls - Reserve

\* The latest claim knows every call that was booked.
Known ==
    \A n \in Claim :
       n = job.claims /\ pc(n) \notin {"none", "claimed", "failing"} =>
          session[n].calls = evidence

Budget == Totals /\ Known

\* Who has made a call too late has no booked one left, and books none any more.
LateOnce ==
    \A n \in Claim :
       /\ late[n] <= 1
       /\ late[n] = 1 => n <= job.claims /\ Lost(n) /\ pc(n) # "booked"

\* A candidate was committed by the claim that ended the job, whose session is over.
Verdict ==
    /\ job.leased => job.status = "processing"
    /\ candidate # NoCandidate =>
          /\ job.status = "succeeded" /\ candidate.by = job.claims
          /\ session[candidate.by] = NoSession
          /\ candidate.issues = {} /\ candidate.fixed = proved[candidate.by]

XInv == TypeOK /\ Sessions /\ Budget /\ Verdict /\ LateOnce

LEMMA Limits ==
    ASSUME ExplorationAssumption
    PROVE  /\ MaxCalls \in Nat /\ MaxClaims \in Nat /\ OldContract \in Fixed
           /\ Reserve \in 0..MaxCalls
BY DEF ExplorationAssumption, Reserve

LEMMA DueTypes ==
    ASSUME ExplorationAssumption
    PROVE  /\ \A p : IsFiniteSet(BookedFor(p)) /\ Due(p) \in Nat
           /\ \A p : IsFiniteSet(BookedFor(p)') /\ Due(p)' \in Nat
<1>1. IsFiniteSet(Claim)
  BY Limits, FS_Interval DEF Claim
<1>2. \A p : BookedFor(p) \subseteq Claim /\ BookedFor(p)' \subseteq Claim
  BY DEF BookedFor
<1> QED
  BY <1>1, <1>2, FS_Subset, FS_CardinalityType DEF Due

\* No step but the booking itself adds to the calls that are due.
LEMMA DueShrinks ==
    ASSUME ExplorationAssumption,
           \A m \in Claim : session'[m].pc = "booked" => session'[m] = session[m]
    PROVE  \A p : Due(p)' <= Due(p)
<1>1. \A p : BookedFor(p)' \subseteq BookedFor(p)
  BY DEF BookedFor, pc
<1> QED
  BY <1>1, DueTypes, FS_Subset DEF Due

LEMMA TotalsKept ==
    ASSUME ExplorationAssumption, Totals, UNCHANGED <<evidence, asked>>,
           asked["discover"] \in Nat, asked["compile"] \in Nat, evidence \in Nat,
           \A m \in Claim : session'[m].pc = "booked" => session'[m] = session[m]
    PROVE  Totals'
<1>1. PICK d, c, e, f : /\ d = Due("discover") /\ c = Due("compile")
                        /\ e = Due("discover")' /\ f = Due("compile")'
  OBVIOUS
<1>2. d \in Nat /\ c \in Nat /\ e \in Nat /\ f \in Nat
  BY <1>1, DueTypes
<1>3. e <= d /\ f <= c
  BY <1>1, DueShrinks
<1>4. MaxCalls - Reserve \in Nat
  BY Limits
<1>5. /\ asked["discover"] + d + asked["compile"] + c <= evidence
      /\ asked["discover"] + d <= MaxCalls - Reserve
  BY <1>1 DEF Totals
<1>6. /\ asked["discover"] + e + asked["compile"] + f <= evidence
      /\ asked["discover"] + e <= MaxCalls - Reserve
  BY ONLY <1>2, <1>3, <1>4, <1>5, asked["discover"] \in Nat, asked["compile"] \in Nat,
          evidence \in Nat
<1> QED
  BY <1>1, <1>6 DEF Totals

\* A claim that is lost stays lost; only a call of its own makes it later.
LEMMA LateKept ==
    ASSUME LateOnce, late' = late, job.claims \in Nat, job'.claims \in Nat,
           job.claims <= job'.claims,
           \A m \in Claim : m <= job.claims /\ Lost(m) => Lost(m)',
           \A m \in Claim : m <= job.claims /\ Lost(m) /\ session'[m].pc = "booked" =>
                               session[m].pc = "booked"
    PROVE  LateOnce'
<1>1. \A m \in Claim : m \in Nat
  BY DEF Claim
<1> QED
  BY <1>1 DEF LateOnce, pc

-----------------------------------------------------------------------------
(* Sessions after an answer or a verdict *)

LEMMA SessionFields ==
    ASSUME NEW s \in Session
    PROVE  /\ s.pc \in {"claimed", "asking", "booked", "calling", "judging", "committing", "failing"}
           /\ s.purpose \in {"discover", "compile"} /\ s.calls \in 0..MaxCalls
           /\ s.stalled \in 0..3 /\ s.seen \in SUBSET Signature /\ s.previous \in Issues
           /\ s.readOn \in BOOLEAN /\ s.validationStalled \in 0..3
           /\ s.proven \in Fixed \cup {NotProven} /\ s.plan \in Plan \cup {NoPlan}
BY DEF Session

\* What no step of a session changes but the proof of a list stage.
SameTask(t, s) == t.purpose = s.purpose /\ t.calls = s.calls /\ t.proven = s.proven

LEMMA FailingSession ==
    ASSUME NEW s \in Session
    PROVE  /\ Failing(s) \in Session /\ Failing(s).pc = "failing"
           /\ SameTask(Failing(s), s)
<1>1. PICK t : t = [s EXCEPT !.pc = "failing"]
  OBVIOUS
<1>2. t \in Session /\ t.pc = "failing" /\ SameTask(t, s)
  BY <1>1, SessionFields DEF Session, SameTask
<1>3. PICK u : u = [t EXCEPT !.stalled = 0]
  OBVIOUS
<1>4. u \in Session /\ u.pc = "failing" /\ SameTask(u, s)
  BY <1>2, <1>3, SessionFields DEF Session, SameTask
<1>5. PICK v : v = [u EXCEPT !.seen = {}]
  OBVIOUS
<1>6. v \in Session /\ v.pc = "failing" /\ SameTask(v, s)
  BY <1>4, <1>5, SessionFields DEF Session, SameTask
<1>7. PICK w : w = [v EXCEPT !.previous = {}]
  OBVIOUS
<1>8. {} \in Issues
  BY DEF Issues
<1>9. w \in Session /\ w.pc = "failing" /\ SameTask(w, s)
  BY <1>6, <1>7, <1>8, SessionFields DEF Session, SameTask
<1>10. PICK x : x = [w EXCEPT !.readOn = FALSE]
  OBVIOUS
<1>11. x \in Session /\ x.pc = "failing" /\ SameTask(x, s)
  BY <1>9, <1>10, SessionFields DEF Session, SameTask
<1>12. PICK y : y = [x EXCEPT !.validationStalled = 0]
  OBVIOUS
<1>13. y \in Session /\ y.pc = "failing" /\ SameTask(y, s)
  BY <1>11, <1>12, SessionFields DEF Session, SameTask
<1>14. Failing(s) = [y EXCEPT !.plan = NoPlan]
  BY <1>1, <1>3, <1>5, <1>7, <1>10, <1>12 DEF Failing
<1> QED
  BY <1>13, <1>14, SessionFields DEF Session, SameTask

LEMMA ProgressSession ==
    ASSUME NEW s \in Session, s.stalled <= 2, NEW new \in SUBSET Signature
    PROVE  /\ Progress(s, new) \in Session /\ SameTask(Progress(s, new), s)
           /\ \/ Progress(s, new).pc = "failing"
              \/ /\ Progress(s, new).pc = s.pc /\ Progress(s, new).plan = s.plan
                 /\ Progress(s, new).stalled <= 2
                 /\ Progress(s, new).validationStalled = s.validationStalled
<1>1. CASE new \ s.seen # {}
  <2>1. PICK seen : seen = s.seen \cup new
    OBVIOUS
  <2>2. seen \in SUBSET Signature
    BY <2>1, SessionFields
  <2>3. Progress(s, new) = [s EXCEPT !.seen = seen, !.stalled = 0]
    BY <1>1, <2>1 DEF Progress
  <2>4. PICK u : u = [s EXCEPT !.seen = seen]
    OBVIOUS
  <2>5. u \in Session /\ SameTask(u, s) /\ u.pc = s.pc /\ u.plan = s.plan
        /\ u.validationStalled = s.validationStalled
    BY <2>2, <2>4, SessionFields DEF Session, SameTask
  <2>6. Progress(s, new) = [u EXCEPT !.stalled = 0]
    BY <2>3, <2>4
  <2> QED
    BY <2>5, <2>6, SessionFields DEF Session, SameTask
<1>2. CASE new \ s.seen = {} /\ s.stalled = 2
  <2>1. PICK t : t = [s EXCEPT !.stalled = 3]
    OBVIOUS
  <2>2. t \in Session /\ SameTask(t, s)
    BY <2>1, SessionFields DEF Session, SameTask
  <2>3. Progress(s, new) = Failing(t)
    BY <1>2, <2>1 DEF Progress
  <2> QED
    BY <2>2, <2>3, FailingSession DEF SameTask
<1>3. CASE new \ s.seen = {} /\ s.stalled # 2
  <2>1. Progress(s, new) = [s EXCEPT !.stalled = s.stalled + 1]
    BY <1>3 DEF Progress
  <2>2. s.stalled + 1 \in 0..2
    BY <1>3, SessionFields
  <2> QED
    BY <2>1, <2>2, SessionFields DEF Session, SameTask
<1> QED
  BY <1>1, <1>2, <1>3

LEMMA JudgedSession ==
    ASSUME NEW s \in Session, s.validationStalled <= 2, NEW issues \in Issues
    PROVE  /\ Judged(s, issues) \in Session /\ SameTask(Judged(s, issues), s)
           /\ Judged(s, issues).pc = s.pc /\ Judged(s, issues).stalled = s.stalled
           /\ Judged(s, issues).previous = issues
           /\ issues = {} => Judged(s, issues).validationStalled = 0
<1>1. PICK v : /\ v \in {0, s.validationStalled + 1} /\ (issues = {} => v = 0)
               /\ Judged(s, issues) = [s EXCEPT !.previous = issues, !.readOn = FALSE,
                                               !.validationStalled = v]
  BY DEF Judged
<1>2. v \in 0..3
  BY <1>1, SessionFields
<1> QED
  BY <1>1, <1>2, SessionFields DEF Session, SameTask

LEMMA CorrectedSession ==
    ASSUME ExplorationAssumption,
           NEW s \in Session, s.stalled <= 2, s.validationStalled <= 2,
           NEW issues \in Issues
    PROVE  /\ Corrected(s, issues) \in Session /\ SameTask(Corrected(s, issues), s)
           /\ \/ Corrected(s, issues).pc = "failing"
              \/ /\ Corrected(s, issues).pc = "asking"
                 /\ Corrected(s, issues).stalled <= 2
                 /\ Corrected(s, issues).validationStalled <= 2
<1>1. PICK j : j = Judged(s, issues)
  OBVIOUS
<1>2. /\ j \in Session /\ SameTask(j, s) /\ j.stalled = s.stalled
  BY <1>1, JudgedSession
<1>3. PICK t : t = [j EXCEPT !.plan = NoPlan]
  OBVIOUS
<1>4. /\ t \in Session /\ SameTask(t, s) /\ t.stalled <= 2
  BY <1>2, <1>3, SessionFields DEF Session, SameTask
<1>5. CASE t.validationStalled >= 3 \/ t.calls >= MaxCalls
  <2>1. Corrected(s, issues) = Failing(t)
    BY <1>1, <1>3, <1>5 DEF Corrected
  <2> QED
    BY <2>1, <1>4, FailingSession DEF SameTask
<1>6. CASE ~(t.validationStalled >= 3 \/ t.calls >= MaxCalls)
  <2>1. Corrected(s, issues) = [t EXCEPT !.pc = "asking"]
    BY <1>1, <1>3, <1>6 DEF Corrected
  <2>2. t.validationStalled <= 2
    BY <1>4, <1>6, SessionFields
  <2> QED
    BY <2>1, <2>2, <1>4, SessionFields DEF Session, SameTask
<1> QED
  BY <1>5, <1>6

-----------------------------------------------------------------------------
(* Steps of one session *)

LEMMA TypeFacts ==
    ASSUME XInv
    PROVE  /\ kind \in Kinds /\ evidence \in 0..MaxCalls
           /\ job \in [status : {"queued", "processing"} \cup Ended, claims : 0..MaxClaims,
                       leased : BOOLEAN, cancelRequested : BOOLEAN]
           /\ asked \in [{"discover", "compile"} -> 0..MaxCalls]
           /\ late \in [Claim -> Nat]
           /\ proved \in [Claim -> Fixed \cup {NotProven}]
           /\ session \in [Claim -> Session \cup {NoSession}]
BY DEF XInv, TypeOK, Sessions

\* A claim that has a session has one that fits.
LEMMA SessionFacts ==
    ASSUME XInv, NEW n \in Claim, pc(n) # "none"
    PROVE  /\ session[n] \in Session /\ Fit(session[n])
           /\ n <= job.claims /\ session[n].proven = proved[n]
BY DEF XInv, Sessions, Fit

\* A step of a session that makes no call: it goes on within its task, as it knew
\* the calls or failing, or it ends.
LEMMA Moves ==
    ASSUME ExplorationAssumption, XInv, NEW n \in Claim, pc(n) # "none",
           NEW t, To(n, t), Unshared,
           \/ t = NoSession
           \/ /\ t.pc # "booked" /\ Fit(t) /\ t.proven = session[n].proven
              /\ \/ t.pc = "failing" \/ t.calls = evidence \/ n # job.claims
    PROVE  XInv'
<1>1. session' \in [Claim -> Session \cup {NoSession}]
  BY TypeFacts DEF To, Fit
<1>2. \A m \in Claim : session'[m] = IF m = n THEN t ELSE session[m]
  BY TypeFacts DEF To
<1>3. NoSession.pc = "none"
  BY DEF NoSession
<1>4. \A s : Fit(s)' <=> Fit(s)
  BY DEF Unshared, Fit, Repair
<1>5. TypeOK'
  BY <1>1 DEF XInv, TypeOK, Unshared
<1>6. Sessions'
  BY <1>1, <1>2, <1>3, <1>4, SessionFacts DEF XInv, Sessions, pc, Unshared, KeptFromTheStart
<1>9. \A m \in Claim : session'[m].pc = "booked" => session'[m] = session[m]
  BY <1>2, <1>3
<1>7. Budget'
  <2>1. Totals'
    BY <1>9, Limits, TypeFacts, TotalsKept DEF XInv, Budget, Unshared
  <2>2. Known'
    BY <1>2, <1>3 DEF XInv, Budget, Known, pc, Unshared
  <2> QED
    BY <2>1, <2>2 DEF Budget
<1>8. Verdict'
  <2> SUFFICES ASSUME candidate # NoCandidate
               PROVE  session'[candidate.by] = NoSession
    BY DEF XInv, Verdict, Unshared
  <2>1. session[candidate.by] = NoSession /\ candidate.by # n
    BY <1>3 DEF XInv, Verdict, pc
  <2>2. candidate.by \in Claim
    BY TypeFacts DEF XInv, TypeOK
  <2> QED
    BY <2>1, <2>2, <1>2
<1>10. LateOnce'
  <2>1. \A m \in Claim : Lost(m) => Lost(m)'
    BY DEF Lost, Unshared
  <2> QED
    BY <1>9, <2>1, TypeFacts, LateKept DEF XInv, Unshared
<1> QED
  BY <1>5, <1>6, <1>7, <1>8, <1>10 DEF XInv

\* After a verdict on a round the task goes on, or fails.
LEMMA CorrectedFits ==
    ASSUME ExplorationAssumption, NEW s \in Session, s.stalled <= 2,
           s.validationStalled <= 2, NEW issues \in Issues,
           Repair => s.purpose = "compile",
           kind = "repair" => s.proven = OldContract,
           kind = "explore" /\ s.purpose = "compile" => s.proven \in Fixed
    PROVE  /\ Fit(Corrected(s, issues)) /\ SameTask(Corrected(s, issues), s)
           /\ Corrected(s, issues).pc # "booked"
BY CorrectedSession DEF Fit, SameTask

\* So it does after an answer of the model that is no proposal.
LEMMA ProgressFits ==
    ASSUME NEW s \in Session, s.stalled <= 2, s.validationStalled <= 2, s.pc = "asking",
           NEW new \in SUBSET Signature,
           Repair => s.purpose = "compile",
           kind = "repair" => s.proven = OldContract,
           kind = "explore" /\ s.purpose = "compile" => s.proven \in Fixed
    PROVE  /\ Fit(Progress(s, new)) /\ SameTask(Progress(s, new), s)
           /\ Progress(s, new).pc # "booked"
BY ProgressSession DEF Fit, SameTask

\* What a session that has begun knows.
LEMMA Working ==
    ASSUME XInv, NEW n \in Claim, pc(n) \notin {"none", "claimed", "failing"}
    PROVE  /\ session[n] \in Session /\ Fit(session[n])
           /\ session[n].stalled <= 2 /\ session[n].validationStalled <= 2
           /\ Repair => session[n].purpose = "compile"
           /\ kind = "repair" => session[n].proven = OldContract
           /\ kind = "explore" /\ session[n].purpose = "compile" => session[n].proven \in Fixed
           /\ session[n].calls = evidence \/ n # job.claims
BY SessionFacts DEF Fit, pc, XInv, Budget, Known

LEMMA NoSessionPc == NoSession.pc = "none"
BY DEF NoSession

\* A worker that ends without a word, gives up, or cannot go on.
LEMMA SilentSteps ==
    ASSUME ExplorationAssumption, XInv, NEW n \in Claim, GiveUp(n) \/ Crash(n) \/ Abort(n)
    PROVE  XInv'
<1>1. CASE GiveUp(n) \/ Crash(n)
  BY <1>1, Moves DEF GiveUp, Crash
<1>2. CASE Abort(n)
  <2>1. PICK t : t = Failing(session[n])
    OBVIOUS
  <2>2. session[n] \in Session /\ Fit(session[n])
    BY <1>2, SessionFacts DEF Abort
  <2>3. Fit(t) /\ t.proven = session[n].proven /\ t.pc = "failing"
    BY <2>1, <2>2, FailingSession DEF Fit, SameTask
  <2> QED
    BY <1>2, <2>1, <2>3, Moves DEF Abort
<1> QED
  BY <1>1, <1>2

LEMMA BeginStep ==
    ASSUME ExplorationAssumption, XInv, NEW n \in Claim, Begin(n)
    PROVE  XInv'
<1>1. PICK t : t = [session[n] EXCEPT !.pc = "asking", !.calls = Prior,
                       !.purpose = IF Repair THEN "compile" ELSE "discover"]
  OBVIOUS
<1>2. session[n] \in Session /\ Fit(session[n]) /\ session[n].pc = "claimed"
  BY SessionFacts DEF Begin, pc
<1>3. /\ t \in Session /\ t.calls = evidence /\ t.proven = session[n].proven
      /\ t.pc = "asking" /\ t.purpose = (IF Repair THEN "compile" ELSE "discover")
      /\ t.stalled = session[n].stalled /\ t.validationStalled = session[n].validationStalled
  BY <1>1, <1>2, SessionFields, TypeFacts DEF Session, Prior
<1>4. Fit(t)
  BY <1>2, <1>3 DEF Fit, Repair
<1> QED
  BY <1>1, <1>3, <1>4, Moves DEF Begin

LEMMA RefuseRepairStep ==
    ASSUME ExplorationAssumption, XInv, NEW n \in Claim, RefuseRepair(n)
    PROVE  XInv'
<1>1. PICK t : t = Corrected(session[n], {"rejected"})
  OBVIOUS
<1>2. {"rejected"} \in Issues
  BY DEF Issues
<1>3. Fit(t) /\ SameTask(t, session[n]) /\ t.pc # "booked"
  BY <1>1, <1>2, Working, CorrectedFits DEF RefuseRepair, pc
<1> QED
  BY <1>1, <1>3, Working, Moves DEF RefuseRepair, SameTask, pc

LEMMA AnswerUnusableStep ==
    ASSUME ExplorationAssumption, XInv, NEW n \in Claim, AnswerUnusable(n)
    PROVE  XInv'
<1>1. PICK s : s = [session[n] EXCEPT !.pc = "asking"]
  OBVIOUS
<1>2. /\ s \in Session /\ SameTask(s, session[n]) /\ s.pc = "asking"
      /\ s.stalled <= 2 /\ s.validationStalled <= 2
  BY <1>1, Working, SessionFields DEF Session, SameTask, AnswerUnusable, pc
<1>3. session[n].pc = "calling" /\ Fit(session[n])
  BY Working DEF AnswerUnusable, pc
<1>4. /\ Fit(s) /\ Fit(Progress(s, {})) /\ SameTask(Progress(s, {}), s)
      /\ Progress(s, {}).pc # "booked"
  BY <1>2, <1>3, Working, ProgressFits DEF SameTask, Fit, AnswerUnusable, pc
<1>5. PICK t : t \in {s, Progress(s, {})} /\ To(n, t) /\ Unshared
  BY <1>1 DEF AnswerUnusable
<1> QED
  BY <1>2, <1>3, <1>4, <1>5, Working, Moves DEF AnswerUnusable, SameTask, pc

LEMMA AnswerFailsStep ==
    ASSUME ExplorationAssumption, XInv, NEW n \in Claim, AnswerFails(n)
    PROVE  XInv'
<1>0. session[n].pc = "calling" /\ pc(n) = "calling"
  BY DEF AnswerFails, pc
<1>1. PICK s : s = Progress(session[n], {})
  OBVIOUS
<1>2. /\ s \in Session /\ SameTask(s, session[n])
      /\ s.pc # "failing" => s.stalled <= 2 /\ s.validationStalled <= 2
  BY <1>0, <1>1, Working, ProgressSession
<1>3. {"rejected"} \in Issues
  BY DEF Issues
<1>4. PICK t : /\ t = IF s.pc = "failing" THEN s ELSE Corrected(s, {"rejected"})
               /\ To(n, t) /\ Unshared
  BY <1>1 DEF AnswerFails
<1>5. Fit(t) /\ SameTask(t, session[n]) /\ t.pc # "booked"
  <2>1. CASE s.pc = "failing"
    BY <1>0, <1>2, <1>4, <2>1, Working DEF Fit, SameTask
  <2>2. CASE s.pc # "failing"
    BY <1>0, <1>2, <1>3, <1>4, <2>2, Working, CorrectedFits DEF SameTask
  <2> QED
    BY <2>1, <2>2
<1> QED
  BY <1>0, <1>4, <1>5, Working, Moves DEF SameTask

LEMMA AnswerReadStep ==
    ASSUME ExplorationAssumption, XInv, NEW n \in Claim, AnswerRead(n)
    PROVE  XInv'
<1>0. session[n].pc = "calling" /\ pc(n) = "calling"
  BY DEF AnswerRead, pc
<1>1. PICK s : s = [session[n] EXCEPT !.pc = "asking"]
  OBVIOUS
<1>2. /\ s \in Session /\ SameTask(s, session[n]) /\ s.pc = "asking"
      /\ s.stalled <= 2 /\ s.validationStalled <= 2
  BY <1>0, <1>1, Working, SessionFields DEF Session, SameTask
<1>3. PICK read, p, t :
         /\ read \in SUBSET Signature /\ p = Progress(s, read)
         /\ t = IF read \subseteq session[n].seen THEN p ELSE [p EXCEPT !.readOn = TRUE]
         /\ To(n, t) /\ Unshared
  BY <1>1 DEF AnswerRead, Signature
<1>4. Fit(p) /\ SameTask(p, s) /\ p.pc # "booked"
  BY <1>0, <1>2, <1>3, Working, ProgressFits DEF SameTask
<1>5. [p EXCEPT !.readOn = TRUE] \in Session
  BY <1>4, SessionFields DEF Fit, Session
<1>6. Fit(t) /\ SameTask(t, s) /\ t.pc # "booked"
  BY <1>3, <1>4, <1>5, SessionFields DEF Fit, SameTask, Session
<1> QED
  BY <1>0, <1>2, <1>3, <1>6, Working, Moves DEF SameTask

LEMMA AnswerProposalStep ==
    ASSUME ExplorationAssumption, XInv, NEW n \in Claim, AnswerProposal(n)
    PROVE  XInv'
<1>0. session[n].pc = "calling" /\ pc(n) = "calling"
  BY DEF AnswerProposal, pc
<1>1. PICK plan, s, new, t :
         /\ plan \in Plan /\ s = [session[n] EXCEPT !.pc = "judging", !.plan = plan]
         /\ new = {[purpose |-> session[n].purpose, plan |-> plan]}
         /\ t = Progress(s, new) /\ To(n, t) /\ Unshared
  BY DEF AnswerProposal
<1>2. new \in SUBSET Signature
  BY <1>0, <1>1, Working, SessionFields DEF Signature
<1>3. /\ s \in Session /\ SameTask(s, session[n]) /\ s.pc = "judging" /\ s.plan = plan
      /\ s.stalled <= 2 /\ s.validationStalled <= 2
  <2>1. PICK u : u = [session[n] EXCEPT !.pc = "judging"]
    OBVIOUS
  <2>2. /\ u \in Session /\ SameTask(u, session[n]) /\ u.pc = "judging"
        /\ u.stalled <= 2 /\ u.validationStalled <= 2
    BY <1>0, <2>1, Working, SessionFields DEF Session, SameTask
  <2>3. s = [u EXCEPT !.plan = plan] /\ plan \in Plan
    BY <1>1, <2>1
  <2> QED
    BY <2>2, <2>3, SessionFields DEF Session, SameTask
<1>4. t \in Session /\ SameTask(t, s)
  BY <1>1, <1>2, <1>3, ProgressSession
<1>5. \/ t.pc = "failing"
      \/ /\ t.pc = "judging" /\ t.plan = plan /\ t.stalled <= 2 /\ t.validationStalled <= 2
  BY <1>1, <1>2, <1>3, ProgressSession
<1>6. kind # "repair_without_contract"
  BY <1>0, Working DEF Fit
<1>7. Fit(t) /\ t.pc # "booked"
  BY <1>0, <1>1, <1>3, <1>4, <1>5, <1>6, Working DEF Fit, SameTask
<1> QED
  BY <1>0, <1>1, <1>3, <1>4, <1>7, Working, Moves DEF SameTask

\* A list stage that works is kept, as what the claim has proved.
LEMMA ProvedStep ==
    ASSUME ExplorationAssumption, XInv, NEW n \in Claim, JudgeDiscovery(n),
           session[n].plan.issues = {},
           To(n, [session[n] EXCEPT !.pc = "asking", !.purpose = "compile",
                     !.proven = session[n].plan.fixed, !.plan = NoPlan,
                     !.seen = @ \cap Reading]),
           proved' = [proved EXCEPT ![n] = session[n].plan.fixed]
    PROVE  XInv'
<1>0. /\ session[n].pc = "judging" /\ pc(n) = "judging" /\ session[n].purpose = "discover"
      /\ session[n].plan \in Plan /\ session[n] \in Session
  BY Working DEF JudgeDiscovery, Fit, pc
<1>1. PICK fixed, seen, t :
         /\ fixed = session[n].plan.fixed /\ seen = session[n].seen \cap Reading
         /\ t = [session[n] EXCEPT !.pc = "asking", !.purpose = "compile",
                     !.proven = fixed, !.plan = NoPlan, !.seen = seen]
  OBVIOUS
<1>2. fixed \in Fixed /\ seen \in SUBSET Signature
  BY <1>0, <1>1, SessionFields DEF Plan
<1>3. /\ t.pc = "asking" /\ t.purpose = "compile" /\ t.proven = fixed
      /\ t.calls = session[n].calls /\ t.stalled = session[n].stalled
      /\ t.validationStalled = session[n].validationStalled
  BY <1>0, <1>1 DEF Session
<1>4. t \in Session
  <2>1. PICK u : u = [session[n] EXCEPT !.seen = seen]
    OBVIOUS
  <2>2. u \in Session
    BY <1>0, <1>2, <2>1, SessionFields DEF Session
  <2>3. PICK v : v = [u EXCEPT !.proven = fixed]
    OBVIOUS
  <2>4. v \in Session
    BY <1>2, <2>2, <2>3, SessionFields DEF Session
  <2>5. PICK x : x = [v EXCEPT !.plan = NoPlan]
    OBVIOUS
  <2>6. x \in Session
    BY <2>4, <2>5, SessionFields DEF Session
  <2>7. t = [x EXCEPT !.pc = "asking", !.purpose = "compile"]
    BY <1>0, <1>1, <2>1, <2>3, <2>5 DEF Session
  <2> QED
    BY <2>6, <2>7, SessionFields DEF Session
<1>5. kind = "explore" /\ session[n].stalled <= 2 /\ session[n].validationStalled <= 2
      /\ n <= job.claims
  BY <1>0, Working, SessionFacts DEF Repair
<1>6. Fit(t)
  BY <1>2, <1>3, <1>4, <1>5 DEF Fit, Repair
<1>7. /\ session' = [session EXCEPT ![n] = t] /\ proved' = [proved EXCEPT ![n] = fixed]
      /\ UNCHANGED <<kind, job, evidence, candidate, asked, late>>
  BY <1>1 DEF To, JudgeDiscovery
<1>8. \A m \in Claim : /\ session'[m] = IF m = n THEN t ELSE session[m]
                       /\ proved'[m] = IF m = n THEN fixed ELSE proved[m]
  BY <1>7, TypeFacts
<1>9. /\ session' \in [Claim -> Session \cup {NoSession}]
      /\ proved' \in [Claim -> Fixed \cup {NotProven}]
  BY <1>2, <1>4, <1>7, TypeFacts
<1>10. \A s : Fit(s)' <=> Fit(s)
  BY <1>7 DEF Fit, Repair
<1>11. TypeOK'
  BY <1>7, <1>9 DEF XInv, TypeOK
<1>12. Sessions'
  <2>1. job.claims \in 0..MaxClaims
    BY TypeFacts
  <2> QED
    BY <2>1, <1>3, <1>5, <1>6, <1>7, <1>8, <1>9, <1>10, Limits
    DEF XInv, Sessions, pc, KeptFromTheStart, Claim
<1>15. \A m \in Claim : session'[m].pc = "booked" => session'[m] = session[m]
  BY <1>3, <1>8
<1>13. Budget'
  <2>1. Totals'
    BY <1>7, <1>15, Limits, TypeFacts, TotalsKept DEF XInv, Budget
  <2>2. Known'
    BY <1>0, <1>3, <1>7, <1>8, Working DEF XInv, Budget, Known, pc
  <2> QED
    BY <2>1, <2>2 DEF Budget
<1>14. Verdict'
  <2> SUFFICES ASSUME candidate # NoCandidate
               PROVE  /\ session'[candidate.by] = NoSession
                      /\ proved'[candidate.by] = proved[candidate.by]
    BY <1>7 DEF XInv, Verdict
  <2>1. session[candidate.by] = NoSession /\ candidate.by # n
    BY <1>0, NoSessionPc DEF XInv, Verdict, pc
  <2>2. candidate.by \in Claim
    BY TypeFacts DEF XInv, TypeOK
  <2> QED
    BY <2>1, <2>2, <1>8
<1>16. LateOnce'
  <2>1. \A m \in Claim : Lost(m) => Lost(m)'
    BY <1>7 DEF Lost
  <2> QED
    BY <1>7, <1>15, <2>1, TypeFacts, LateKept DEF XInv
<1> QED
  BY <1>11, <1>12, <1>13, <1>14, <1>16 DEF XInv

LEMMA JudgeDiscoveryStep ==
    ASSUME ExplorationAssumption, XInv, NEW n \in Claim, JudgeDiscovery(n)
    PROVE  XInv'
<1>0. session[n].pc = "judging" /\ pc(n) = "judging" /\ session[n].plan \in Plan
  BY Working DEF JudgeDiscovery, Fit, pc
<1>1. {"rejected"} \in Issues /\ session[n].plan.issues \in Issues
  BY <1>0 DEF Issues, Plan
<1>2. ASSUME NEW issues \in Issues, To(n, Corrected(session[n], issues)), proved' = proved
      PROVE  XInv'
  <2>1. PICK t : t = Corrected(session[n], issues)
    OBVIOUS
  <2>2. Fit(t) /\ SameTask(t, session[n]) /\ t.pc # "booked"
    BY <1>0, <2>1, Working, CorrectedFits
  <2> QED
    BY <1>0, <1>2, <2>1, <2>2, Working, Moves DEF JudgeDiscovery, Unshared, SameTask
<1> QED
  BY <1>1, <1>2, ProvedStep DEF JudgeDiscovery

\* The rule is tried: only one without an issue will be committed.
LEMMA JudgeRuleStep ==
    ASSUME ExplorationAssumption, XInv, NEW n \in Claim, JudgeRule(n)
    PROVE  XInv'
<1>0. /\ session[n].pc = "judging" /\ pc(n) = "judging" /\ session[n].plan \in Plan
      /\ session[n].purpose = "compile" /\ session[n] \in Session /\ Unshared
  BY Working DEF JudgeRule, Fit, pc
<1>1. {"rejected"} \in Issues /\ {} \in Issues /\ session[n].plan.issues \in Issues
  BY <1>0 DEF Issues, Plan
<1>2. ASSUME NEW issues \in Issues, To(n, Corrected(session[n], issues))
      PROVE  XInv'
  <2>1. PICK t : t = Corrected(session[n], issues)
    OBVIOUS
  <2>2. Fit(t) /\ SameTask(t, session[n]) /\ t.pc # "booked"
    BY <1>0, <2>1, Working, CorrectedFits
  <2> QED
    BY <1>0, <1>2, <2>1, <2>2, Working, Moves DEF SameTask
<1>3. ASSUME To(n, [Judged(session[n], {}) EXCEPT !.pc = "committing", !.seen = {}])
      PROVE  XInv'
  <2>1. PICK j, t : j = Judged(session[n], {})
                    /\ t = [j EXCEPT !.pc = "committing", !.seen = {}]
    OBVIOUS
  <2>2. /\ j \in Session /\ SameTask(j, session[n]) /\ j.previous = {}
        /\ j.validationStalled = 0 /\ j.stalled <= 2
    BY <1>0, <1>1, <2>1, Working, JudgedSession
  <2>3. /\ t \in Session /\ SameTask(t, session[n]) /\ t.previous = {}
        /\ t.validationStalled = 0 /\ t.stalled <= 2 /\ t.pc = "committing"
    <3>1. PICK u : u = [j EXCEPT !.seen = {}]
      OBVIOUS
    <3>2. /\ u \in Session /\ SameTask(u, session[n]) /\ u.previous = {}
          /\ u.validationStalled = 0 /\ u.stalled <= 2
      BY <2>2, <3>1, SessionFields DEF Session, SameTask
    <3>3. t = [u EXCEPT !.pc = "committing"]
      BY <2>1, <3>1
    <3> QED
      BY <3>2, <3>3, SessionFields DEF Session, SameTask
  <2>4. kind # "repair_without_contract"
    BY <1>0, Working DEF Fit
  <2>5. Fit(t)
    BY <1>0, <2>3, <2>4, Working DEF Fit, SameTask
  <2> QED
    BY <1>0, <1>3, <2>1, <2>3, <2>5, Working, Moves DEF SameTask
<1> QED
  BY <1>1, <1>2, <1>3 DEF JudgeRule

-----------------------------------------------------------------------------
(* Steps of the job *)

\* A session that goes from t to booked, or from booked on, changes what is due of
\* its purpose by one, and nothing of the other.
LEMMA DueChanges ==
    ASSUME ExplorationAssumption, NEW n \in Claim, NEW p,
           session[n].purpose = p, session'[n].purpose = p,
           \A m \in Claim : m # n => session'[m] = session[m]
    PROVE  /\ \A q : q # p => Due(q)' = Due(q)
           /\ session[n].pc # "booked" /\ session'[n].pc = "booked" => Due(p)' = Due(p) + 1
           /\ session[n].pc = "booked" /\ session'[n].pc # "booked" => Due(p)' = Due(p) - 1
<1>1. ASSUME NEW q, q # p
      PROVE  Due(q)' = Due(q)
  <2>1. BookedFor(q)' = BookedFor(q)
    BY <1>1 DEF BookedFor, pc
  <2> QED
    BY <2>1 DEF Due
<1>2. ASSUME session[n].pc # "booked", session'[n].pc = "booked"
      PROVE  Due(p)' = Due(p) + 1
  <2>1. BookedFor(p)' = BookedFor(p) \cup {n} /\ n \notin BookedFor(p)
    BY <1>2 DEF BookedFor, pc
  <2> QED
    BY <2>1, DueTypes, FS_AddElement DEF Due
<1>3. ASSUME session[n].pc = "booked", session'[n].pc # "booked"
      PROVE  Due(p)' = Due(p) - 1
  <2>1. BookedFor(p)' = BookedFor(p) \ {n} /\ n \in BookedFor(p)
    BY <1>3 DEF BookedFor, pc
  <2> QED
    BY <2>1, DueTypes, FS_RemoveElement DEF Due
<1> QED
  BY <1>1, <1>2, <1>3

\* A call is booked by the latest claim, which knows all that were booked before.
LEMMA BookStep ==
    ASSUME ExplorationAssumption, XInv, NEW n \in Claim, Ask(n),
           ~(CallsLeft(session[n]) <= 0)
    PROVE  XInv'
<1>0. /\ session[n].pc = "asking" /\ pc(n) = "asking" /\ session[n] \in Session
      /\ n = job.claims /\ session[n].calls = evidence
      /\ kind # "repair_without_contract" /\ ~Lost(n)
  BY Working DEF Ask, Owned, Fenced, Lost, pc
<1>1. PICK calls, p, t : /\ calls = evidence + 1 /\ p = session[n].purpose
                         /\ t = [session[n] EXCEPT !.pc = "booked", !.calls = calls]
  OBVIOUS
<1>2. /\ MaxCalls \in Nat /\ Reserve \in 0..MaxCalls /\ evidence \in 0..MaxCalls
      /\ evidence < MaxCalls /\ calls \in 0..MaxCalls
      /\ p = "discover" => calls <= MaxCalls - Reserve
  BY <1>0, <1>1, Limits, TypeFacts DEF Ask, CallsLeft
<1>3. /\ t \in Session /\ t.pc = "booked" /\ t.calls = calls /\ t.purpose = p
      /\ t.proven = session[n].proven /\ t.stalled = session[n].stalled
      /\ t.validationStalled = session[n].validationStalled
  BY <1>0, <1>1, <1>2, SessionFields DEF Session
<1>4. Fit(t)
  BY <1>0, <1>1, <1>3, Working DEF Fit
<1>5. /\ session' = [session EXCEPT ![n] = t] /\ evidence' = calls
      /\ UNCHANGED <<kind, job, candidate, asked, late, proved>>
  BY <1>0, <1>1, Limits DEF Ask, To
<1>6. \A m \in Claim : session'[m] = IF m = n THEN t ELSE session[m]
  BY <1>5, TypeFacts
<1>7. session' \in [Claim -> Session \cup {NoSession}]
  BY <1>3, <1>5, TypeFacts
<1>8. \A s : Fit(s)' <=> Fit(s)
  BY <1>5 DEF Fit, Repair
<1>9. Totals'
  <2>1. PICK d, c, e, f, a, b : /\ d = Due("discover") /\ c = Due("compile")
                                /\ e = Due("discover")' /\ f = Due("compile")'
                                /\ a = asked["discover"] /\ b = asked["compile"]
    OBVIOUS
  <2>2. /\ d \in Nat /\ c \in Nat /\ a \in Nat /\ b \in Nat
        /\ p \in {"discover", "compile"}
    BY <1>0, <1>1, <2>1, DueTypes, TypeFacts, SessionFields
  <2>3. IF p = "discover" THEN e = d + 1 /\ f = c ELSE e = d /\ f = c + 1
    <3>1. /\ session[n].purpose = p /\ session'[n].purpose = p
          /\ session[n].pc # "booked" /\ session'[n].pc = "booked"
          /\ \A m \in Claim : m # n => session'[m] = session[m]
      BY <1>0, <1>1, <1>3, <1>6
    <3>2. (\A q : q # p => Due(q)' = Due(q)) /\ Due(p)' = Due(p) + 1
      BY <3>1, DueChanges
    <3> QED
      BY <2>1, <2>2, <3>2
  <2>4. a + d + b + c <= evidence /\ a + d <= MaxCalls - Reserve
    BY <2>1 DEF XInv, Budget, Totals
  <2>5. a + e + b + f <= calls /\ a + e <= MaxCalls - Reserve
    BY ONLY <1>1, <1>2, <2>2, <2>3, <2>4
  <2> QED
    BY <1>5, <2>1, <2>5 DEF Totals
<1>10. LateOnce'
  <2>1. ~Lost(n)' /\ \A m \in Claim : Lost(m)' <=> Lost(m)
    BY <1>0, <1>5 DEF Lost
  <2> QED
    BY <1>0, <1>5, <1>6, <2>1 DEF XInv, LateOnce, pc
<1>11. TypeOK'
  BY <1>2, <1>5, <1>7 DEF XInv, TypeOK
<1>12. Sessions'
  BY <1>0, <1>3, <1>4, <1>5, <1>6, <1>7, <1>8, SessionFacts
  DEF XInv, Sessions, pc, KeptFromTheStart
<1>13. Budget'
  BY <1>0, <1>3, <1>5, <1>6, <1>9 DEF Budget, Known, pc
<1>14. Verdict'
  <2> SUFFICES ASSUME candidate # NoCandidate
               PROVE  session'[candidate.by] = NoSession
    BY <1>5 DEF XInv, Verdict
  <2>1. session[candidate.by] = NoSession /\ candidate.by # n
    BY <1>0, NoSessionPc DEF XInv, Verdict, pc
  <2>2. candidate.by \in Claim
    BY TypeFacts DEF XInv, TypeOK
  <2> QED
    BY <2>1, <2>2, <1>6
<1> QED
  BY <1>10, <1>11, <1>12, <1>13, <1>14 DEF XInv

\* A booked call goes out, of whichever claim.
LEMMA CallStep ==
    ASSUME ExplorationAssumption, XInv, NEW n \in Claim, Call(n)
    PROVE  XInv'
<1>0. /\ session[n].pc = "booked" /\ pc(n) = "booked" /\ session[n] \in Session
      /\ n <= job.claims /\ Fit(session[n])
  BY Working, SessionFacts DEF Call, pc
<1>1. PICK p, t : /\ p = session[n].purpose
                  /\ t = [session[n] EXCEPT !.pc = "calling"]
  OBVIOUS
<1>2. /\ t \in Session /\ t.pc = "calling" /\ t.calls = session[n].calls /\ t.purpose = p
      /\ t.proven = session[n].proven /\ t.stalled = session[n].stalled
      /\ t.validationStalled = session[n].validationStalled
      /\ p \in {"discover", "compile"}
  BY <1>0, <1>1, SessionFields DEF Session
<1>3. Fit(t)
  BY <1>0, <1>1, <1>2, Working DEF Fit
<1>4. /\ session' = [session EXCEPT ![n] = t]
      /\ asked' = [asked EXCEPT ![p] = asked[p] + 1]
      /\ late' = IF Lost(n) THEN [late EXCEPT ![n] = late[n] + 1] ELSE late
      /\ UNCHANGED <<kind, job, evidence, candidate, proved>>
  BY <1>1 DEF Call, To
<1>5. \A m \in Claim : session'[m] = IF m = n THEN t ELSE session[m]
  BY <1>4, TypeFacts
<1>6. session' \in [Claim -> Session \cup {NoSession}]
  BY <1>2, <1>4, TypeFacts
<1>7. \A s : Fit(s)' <=> Fit(s)
  BY <1>4 DEF Fit, Repair
<1>8. PICK d, c, e, f, a, b, x, y :
         /\ d = Due("discover") /\ c = Due("compile")
         /\ e = Due("discover")' /\ f = Due("compile")'
         /\ a = asked["discover"] /\ b = asked["compile"]
         /\ x = asked'["discover"] /\ y = asked'["compile"]
  OBVIOUS
<1>9. /\ d \in Nat /\ c \in Nat /\ e \in Nat /\ f \in Nat /\ a \in Nat /\ b \in Nat
      /\ evidence \in 0..MaxCalls /\ MaxCalls \in Nat /\ Reserve \in 0..MaxCalls
  BY <1>8, DueTypes, TypeFacts, Limits
<1>10. /\ p = "discover" => e = d - 1 /\ f = c /\ x = a + 1 /\ y = b
       /\ p = "compile" => e = d /\ f = c - 1 /\ x = a /\ y = b + 1
  <2>1. /\ \A q : q # p => Due(q)' = Due(q)
        /\ Due(p)' = Due(p) - 1
    <3>1. /\ session[n].purpose = p /\ session'[n].purpose = p
          /\ session[n].pc = "booked" /\ session'[n].pc # "booked"
          /\ \A m \in Claim : m # n => session'[m] = session[m]
      BY <1>0, <1>1, <1>2, <1>5
    <3> QED
      BY <3>1, DueChanges
  <2>2. asked'[p] = asked[p] + 1 /\ \A q \in {"discover", "compile"} : q # p => asked'[q] = asked[q]
    BY <1>2, <1>4, TypeFacts
  <2> QED
    BY <1>8, <2>1, <2>2
<1>11. a + d + b + c <= evidence /\ a + d <= MaxCalls - Reserve
  BY <1>8 DEF XInv, Budget, Totals
<1>12. /\ x + e + y + f <= evidence /\ x + e <= MaxCalls - Reserve
       /\ x \in 0..MaxCalls /\ y \in 0..MaxCalls
  BY ONLY <1>2, <1>9, <1>10, <1>11
<1>13. Totals'
  BY <1>4, <1>8, <1>12 DEF Totals
<1>14. late' \in [Claim -> Nat] /\ LateOnce'
  <2>1. \A m \in Claim : Lost(m)' <=> Lost(m)
    BY <1>4 DEF Lost
  <2>2. late[n] = 0
    BY <1>0, TypeFacts DEF XInv, LateOnce
  <2>3. /\ late' \in [Claim -> Nat]
        /\ \A m \in Claim : late'[m] = IF m = n /\ Lost(n) THEN 1 ELSE late[m]
    BY <1>4, <2>2, TypeFacts
  <2> QED
    BY <1>0, <1>2, <1>4, <1>5, <2>1, <2>2, <2>3 DEF XInv, LateOnce, pc
<1>15. asked' \in [{"discover", "compile"} -> 0..MaxCalls]
  <2>1. asked' = [q \in {"discover", "compile"} |-> asked'[q]]
    BY <1>4, TypeFacts
  <2> QED
    BY <1>8, <1>12, <2>1
<1>16. TypeOK'
  BY <1>4, <1>6, <1>14, <1>15 DEF XInv, TypeOK
<1>17. Sessions'
  BY <1>0, <1>2, <1>3, <1>4, <1>5, <1>6, <1>7, SessionFacts
  DEF XInv, Sessions, pc, KeptFromTheStart
<1>18. Known'
  BY <1>0, <1>2, <1>4, <1>5 DEF XInv, Budget, Known, pc
<1>19. Verdict'
  <2> SUFFICES ASSUME candidate # NoCandidate
               PROVE  session'[candidate.by] = NoSession
    BY <1>4 DEF XInv, Verdict
  <2>1. session[candidate.by] = NoSession /\ candidate.by # n
    BY <1>0, NoSessionPc DEF XInv, Verdict, pc
  <2>2. candidate.by \in Claim
    BY TypeFacts DEF XInv, TypeOK
  <2> QED
    BY <2>1, <2>2, <1>5
<1> QED
  BY <1>13, <1>14, <1>16, <1>17, <1>18, <1>19 DEF XInv, Budget

LEMMA AskStep ==
    ASSUME ExplorationAssumption, XInv, NEW n \in Claim, Ask(n)
    PROVE  XInv'
<1>1. CASE CallsLeft(session[n]) <= 0
  <2>1. PICK t : t = Failing(session[n])
    OBVIOUS
  <2>2. session[n] \in Session /\ Fit(session[n])
    BY SessionFacts DEF Ask
  <2>3. Fit(t) /\ t.proven = session[n].proven /\ t.pc = "failing"
    BY <2>1, <2>2, FailingSession DEF Fit, SameTask
  <2> QED
    BY <1>1, <2>1, <2>3, Moves DEF Ask
<1>2. CASE ~(CallsLeft(session[n]) <= 0)
  BY <1>2, BookStep
<1> QED
  BY <1>1, <1>2

\* The latest claim ends the job, with a candidate or without.
LEMMA EndSteps ==
    ASSUME ExplorationAssumption, XInv, NEW n \in Claim, Commit(n) \/ Fail(n)
    PROVE  XInv'
<1>0. /\ pc(n) # "none" /\ n = job.claims /\ job.status = "processing"
      /\ To(n, NoSession) /\ UNCHANGED <<kind, evidence, asked, late, proved>>
      /\ session[n] \in Session
  BY SessionFacts DEF Commit, Fail, Owned, Fenced
<1>1. PICK status \in Ended : job' = Finished(status) /\ (Commit(n) => status = "succeeded")
  BY DEF Commit, Fail, Ended
<1>2. /\ job' \in [status : {"queued", "processing"} \cup Ended, claims : 0..MaxClaims,
                   leased : BOOLEAN, cancelRequested : BOOLEAN]
      /\ job'.claims = job.claims /\ ~job'.leased /\ job'.status = status
  BY <1>1, TypeFacts DEF Finished
<1>3. \A m \in Claim : session'[m] = IF m = n THEN NoSession ELSE session[m]
  BY <1>0, TypeFacts DEF To
<1>4. session' \in [Claim -> Session \cup {NoSession}]
  BY <1>0, TypeFacts DEF To
<1>5. \A s : Fit(s)' <=> Fit(s)
  BY <1>0 DEF Fit, Repair
<1>6. candidate = NoCandidate
  BY <1>0 DEF XInv, Verdict
<1>7. ASSUME Commit(n)
      PROVE  /\ candidate' \in [fixed : Fixed, issues : Issues, by : Claim]
             /\ candidate'.by = n /\ candidate'.issues = {} /\ candidate'.fixed = proved[n]
  <2>1. session[n].pc = "committing" /\ Fit(session[n]) /\ session[n].proven = proved[n]
    BY <1>7, SessionFacts DEF Commit, pc
  <2>2. session[n].previous = {} /\ session[n].proven \in Fixed
    BY <2>1, Limits, TypeFacts DEF Fit, Kinds
  <2> QED
    BY <1>7, <2>1, <2>2 DEF Commit, Candidate, Issues
<1>8. Fail(n) => candidate' = NoCandidate
  BY <1>6 DEF Fail
<1>9. TypeOK'
  BY <1>0, <1>2, <1>4, <1>7, <1>8 DEF XInv, TypeOK
<1>10. Sessions'
  BY <1>0, <1>2, <1>3, <1>4, <1>5, NoSessionPc DEF XInv, Sessions, pc, KeptFromTheStart
<1>13. \A m \in Claim : session'[m].pc = "booked" => session'[m] = session[m]
  BY <1>3, NoSessionPc
<1>11. Budget'
  <2>1. Totals'
    BY <1>0, <1>13, Limits, TypeFacts, TotalsKept DEF XInv, Budget
  <2>2. Known'
    BY <1>0, <1>2, <1>3, NoSessionPc DEF XInv, Budget, Known, pc
  <2> QED
    BY <2>1, <2>2 DEF Budget
<1>14. LateOnce'
  <2>1. \A m \in Claim : Lost(m)'
    BY <1>2 DEF Lost
  <2> QED
    BY <1>0, <1>2, <1>13, <2>1, TypeFacts, LateKept DEF XInv
<1>12. Verdict'
  BY <1>0, <1>1, <1>2, <1>3, <1>7, <1>8 DEF Verdict
<1> QED
  BY <1>9, <1>10, <1>11, <1>12, <1>14 DEF XInv

LEMMA ClaimStep ==
    ASSUME ExplorationAssumption, XInv, ClaimJob
    PROVE  XInv'
<1>0. UNCHANGED <<kind, evidence, candidate, asked, late, proved>> /\ candidate = NoCandidate
  BY DEF ClaimJob, XInv, Verdict
<1>1. ASSUME job.claims < MaxClaims,
             job' = [job EXCEPT !.status = "processing", !.claims = @ + 1, !.leased = TRUE],
             session' = [session EXCEPT ![job.claims + 1] = [pc |-> "claimed",
                 purpose |-> "discover", calls |-> 0, stalled |-> 0, seen |-> {},
                 previous |-> {}, readOn |-> TRUE, validationStalled |-> 0,
                 proven |-> KeptFromTheStart, plan |-> NoPlan]]
      PROVE  XInv'
  <2>1. PICK n, kept, t :
           /\ n = job.claims + 1 /\ kept = KeptFromTheStart
           /\ t = [pc |-> "claimed", purpose |-> "discover", calls |-> 0, stalled |-> 0,
                   seen |-> {}, previous |-> {}, readOn |-> TRUE, validationStalled |-> 0,
                   proven |-> kept, plan |-> NoPlan]
    OBVIOUS
  <2>2. /\ n \in Claim /\ job.claims \in Nat /\ n > job.claims
        /\ kept \in Fixed \cup {NotProven} /\ (kind = "repair" => kept = OldContract)
    BY <1>1, <2>1, Limits, TypeFacts DEF Claim, KeptFromTheStart
  <2>3. t \in Session /\ t.pc = "claimed" /\ t.proven = kept
    BY <2>1, <2>2, Limits DEF Session, Issues
  <2>4. Fit(t)
    BY <2>1, <2>2, <2>3 DEF Fit
  <2>5. /\ job' \in [status : {"queued", "processing"} \cup Ended, claims : 0..MaxClaims,
                     leased : BOOLEAN, cancelRequested : BOOLEAN]
        /\ job'.claims = n /\ job'.status = "processing"
    <3>1. n \in 0..MaxClaims
      BY <2>2, Limits DEF Claim
    <3>2. PICK j : j = [job EXCEPT !.claims = n]
      OBVIOUS
    <3>3. /\ j \in [status : {"queued", "processing"} \cup Ended, claims : 0..MaxClaims,
                    leased : BOOLEAN, cancelRequested : BOOLEAN]
          /\ j.claims = n
      BY <3>1, <3>2, TypeFacts
    <3>4. job' = [j EXCEPT !.status = "processing", !.leased = TRUE]
      BY <1>1, <2>1, <3>2, TypeFacts
    <3> QED
      BY <3>3, <3>4
  <2>6. session' = [session EXCEPT ![n] = t]
    BY <1>1, <2>1
  <2>7. /\ session' \in [Claim -> Session \cup {NoSession}]
        /\ \A m \in Claim : session'[m] = IF m = n THEN t ELSE session[m]
    BY <2>2, <2>3, <2>6, TypeFacts
  <2>8. \A s : Fit(s)' <=> Fit(s)
    BY <1>0 DEF Fit, Repair
  <2>9. TypeOK'
    BY <1>0, <2>5, <2>7 DEF XInv, TypeOK
  <2>10. Sessions'
    <3>1. \A m \in Claim : m \in Nat
      BY DEF Claim
    <3>2. proved[n] = kept
      BY <2>1, <2>2 DEF XInv, Sessions
    <3>3. \A m \in Claim : /\ m > n => m > job.claims
                           /\ m <= job.claims => m <= n
      BY <2>1, <2>2, <3>1
    <3>4. n <= n /\ KeptFromTheStart' = KeptFromTheStart
      BY <1>0, <2>1, <2>2 DEF KeptFromTheStart
    <3>5. ASSUME NEW m \in Claim, pc(m)' # "none"
          PROVE  Fit(session'[m]) /\ m <= n /\ session'[m].proven = proved[m]
      <4>1. CASE m = n
        BY <2>3, <2>4, <2>7, <3>2, <3>4, <4>1
      <4>2. CASE m # n
        BY <2>7, <3>3, <3>5, <4>2 DEF XInv, Sessions, pc
      <4> QED
        BY <4>1, <4>2
    <3>6. \A m \in Claim : m > n => proved[m] = KeptFromTheStart
      BY <3>3 DEF XInv, Sessions
    <3> QED
      BY <1>0, <2>5, <2>7, <2>8, <3>4, <3>5, <3>6 DEF Sessions
  <2>13. \A m \in Claim : session'[m].pc = "booked" => session'[m] = session[m]
    BY <2>3, <2>7
  <2>11. Budget'
    <3>1. Totals'
      BY <1>0, <2>13, Limits, TypeFacts, TotalsKept DEF XInv, Budget
    <3>2. Known'
      BY <1>0, <2>3, <2>5, <2>7 DEF XInv, Budget, Known, pc
    <3> QED
      BY <3>1, <3>2 DEF Budget
  <2>14. LateOnce'
    <3>1. \A m \in Claim : m \in Nat
      BY DEF Claim
    <3>2. \A m \in Claim : m <= job.claims => m # job'.claims
      BY <2>1, <2>2, <2>5, <3>1
    <3>3. \A m \in Claim : m <= job.claims => Lost(m)'
      BY <3>2 DEF Lost
    <3>4. job.claims <= job'.claims /\ job'.claims \in Nat
      BY <2>1, <2>2, <2>5
    <3> QED
      BY <1>0, <2>2, <2>13, <3>3, <3>4, LateKept DEF XInv
  <2>12. Verdict'
    BY <1>0, <2>5 DEF Verdict
  <2> QED
    BY <2>9, <2>10, <2>11, <2>12, <2>14 DEF XInv
<1>2. ASSUME NEW status \in Ended, job' = Finished(status), UNCHANGED session
      PROVE  XInv'
  <2>1. /\ job' \in [status : {"queued", "processing"} \cup Ended, claims : 0..MaxClaims,
                     leased : BOOLEAN, cancelRequested : BOOLEAN]
        /\ job'.claims = job.claims /\ ~job'.leased
    BY <1>2, TypeFacts DEF Finished
  <2>2. Totals'
    BY <1>0, <1>2, Limits, TypeFacts, TotalsKept DEF XInv, Budget
  <2>3. LateOnce'
    <3>1. \A m \in Claim : Lost(m)'
      BY <2>1 DEF Lost
    <3> QED
      BY <1>0, <1>2, <2>1, <3>1, TypeFacts, LateKept DEF XInv
  <2> QED
    BY <1>0, <1>2, <2>1, <2>2, <2>3
    DEF XInv, TypeOK, Sessions, Budget, Known, Verdict, Fit, Repair, pc, KeptFromTheStart
<1> QED
  BY <1>1, <1>2 DEF ClaimJob, Ended

\* The clock and the client change the job only.
LEMMA OutsideSteps ==
    ASSUME ExplorationAssumption, XInv, LeaseExpires \/ RequestCancel
    PROVE  XInv'
<1>1. /\ UNCHANGED <<kind, evidence, session, candidate, asked, late, proved>>
      /\ job' \in [status : {"queued", "processing"} \cup Ended, claims : 0..MaxClaims,
                   leased : BOOLEAN, cancelRequested : BOOLEAN]
      /\ job'.claims = job.claims /\ (job'.leased => job.leased /\ job'.status = job.status)
      /\ job.status = "succeeded" => job'.status = "succeeded"
      /\ job.cancelRequested => job'.cancelRequested
  BY TypeFacts DEF LeaseExpires, RequestCancel, Finished, Ended
<1>2. Totals'
  BY <1>1, Limits, TypeFacts, TotalsKept DEF XInv, Budget
<1>3. LateOnce'
  <2>1. \A m \in Claim : Lost(m) => Lost(m)'
    BY <1>1 DEF Lost
  <2> QED
    BY <1>1, <2>1, TypeFacts, LateKept DEF XInv
<1> QED
  BY <1>1, <1>2, <1>3
  DEF XInv, TypeOK, Sessions, Budget, Known, Verdict, Fit, Repair, pc, KeptFromTheStart

LEMMA InitXInv ==
    ASSUME ExplorationAssumption, Init
    PROVE  XInv
<1>1. KeptFromTheStart \in Fixed \cup {NotProven}
  BY Limits DEF KeptFromTheStart
<1>2. Claim \subseteq Nat /\ MaxCalls - Reserve >= 0
  BY Limits DEF Claim
<1>3. TypeOK
  BY <1>1, Limits DEF Init, TypeOK
<1>4. Sessions
  BY <1>2, NoSessionPc DEF Init, Sessions, pc, KeptFromTheStart
<1>5. Budget
  <2>1. BookedFor("discover") = {} /\ BookedFor("compile") = {}
    BY NoSessionPc DEF Init, BookedFor, pc
  <2>2. Due("discover") = 0 /\ Due("compile") = 0
    BY <2>1, FS_EmptySet DEF Due
  <2> QED
    BY <1>2, <2>2, NoSessionPc DEF Init, Budget, Totals, Known, pc
<1>7. LateOnce
  BY DEF Init, LateOnce
<1>6. Verdict
  BY DEF Init, Verdict
<1> QED
  BY <1>3, <1>4, <1>5, <1>6, <1>7 DEF XInv

LEMMA NextXInv ==
    ASSUME ExplorationAssumption, XInv, [Next]_explorationVars
    PROVE  XInv'
<1>1. ASSUME NEW n \in Claim, Work(n) PROVE XInv'
  BY <1>1, BeginStep, AskStep, CallStep, RefuseRepairStep, AnswerUnusableStep, AnswerFailsStep,
     AnswerReadStep, AnswerProposalStep, JudgeDiscoveryStep, JudgeRuleStep, EndSteps,
     SilentSteps DEF Work, Answer
<1>2. CASE UNCHANGED explorationVars
  BY <1>2 DEF explorationVars, XInv, TypeOK, Sessions, Budget, Totals, Known, Due, BookedFor,
              Verdict, LateOnce, Lost, Fit, Repair, pc, KeptFromTheStart
<1> QED
  BY <1>1, <1>2, SilentSteps, ClaimStep, OutsideSteps DEF Next

-----------------------------------------------------------------------------
(* What follows *)

\* The sessions of all claims, the calls booked in the evidence and the candidate
\* agree in every reachable state, whichever workers are lost (worker.py,
\* adaptive_compile.py).
THEOREM SessionsAgree ==
    ASSUME ExplorationAssumption PROVE Spec => []XInv
<1>1. Init => XInv
  BY InitXInv
<1>2. XInv /\ [Next]_explorationVars => XInv'
  BY NextXInv
<1> QED
  BY <1>1, <1>2, PTL DEF Spec

\* A committed candidate passed its last validation without an issue, with the list
\* stage that was proved on the page or the contract under repair; and the calls of
\* all claims stay within TaskBudget.max_calls, discovery's within its part.
THEOREM CandidatesAreProven ==
    ASSUME ExplorationAssumption PROVE Spec => [](CandidateProven /\ CallsBudgeted)
<1>1. ASSUME XInv PROVE CandidateProven /\ CallsBudgeted
  <2>1. PICK d, c, a, b : /\ d = Due("discover") /\ c = Due("compile")
                          /\ a = asked["discover"] /\ b = asked["compile"]
    OBVIOUS
  <2>2. /\ d \in Nat /\ c \in Nat /\ a \in Nat /\ b \in Nat /\ evidence \in 0..MaxCalls
        /\ MaxCalls \in Nat /\ Reserve \in 0..MaxCalls
    BY <1>1, <2>1, DueTypes, Limits, TypeFacts
  <2>3. a + d + b + c <= evidence /\ a + d <= MaxCalls - Reserve
    BY <1>1, <2>1 DEF XInv, Budget, Totals
  <2>4. a + b <= MaxCalls /\ a <= MaxCalls - Reserve
    BY ONLY <2>2, <2>3
  <2> QED
    BY <1>1, <2>1, <2>4 DEF XInv, Verdict, CandidateProven, CallsBudgeted
<1> QED
  BY <1>1, SessionsAgree, PTL

\* A worker that has lost its claim, or whose run was cancelled or has ended, makes
\* one call more at most, the one it had booked before (the request that follows
\* AdaptiveSession.notify looks at no claim).
THEOREM LateCallsAreBounded ==
    ASSUME ExplorationAssumption PROVE Spec => []LateCallsBounded
<1>1. XInv => LateCallsBounded
  BY DEF XInv, LateOnce, LateCallsBounded
<1> QED
  BY <1>1, SessionsAgree, PTL
=============================================================================
