---------------------------- MODULE LocalEvidence ----------------------------
(***************************************************************************)
(* The raw pages a run keeps on disk (local_evidence.py): every claim of    *)
(* the run's job writes into a directory of its own and ends it with a      *)
(* manifest; the run's row names the directory and, once a result was       *)
(* committed under the lease, the digest of the manifest.  Workers that     *)
(* lost the job write on, the hourly pruning removes what expired, and a    *)
(* reader looks at row, manifest and files one after the other.             *)
(* A digest is the content it stands for: a manifest is told by its value,  *)
(* a file by the claim that wrote it.                                       *)
(***************************************************************************)
EXTENDS Naturals, FiniteSets

CONSTANTS Page,       \* names of the pages a run reads
          MaxTries,   \* claims of the job (three in the code)
          NoManifest  \* no manifest, no digest

VARIABLES sampled,  \* the rule keeps raw pages for a while (rawRetentionDays > 0)
          task,     \* the job: status, claims, whether the latest holds its lease
          row,      \* the run's row: the directory it names, the digest of its manifest
          try,      \* per claim: where its worker is, the pages it wrote
          disk,     \* per directory: its files and its manifest
          expired,  \* directories whose manifest is past expiresAt
          reader    \* one reader of the evidence: what it read, what it answers

evidenceVars == <<sampled, task, row, try, disk, expired, reader>>

Try == 1..MaxTries
Manifest == [by : Try, complete : BOOLEAN, pages : SUBSET Page]
EvidenceAssumption == MaxTries \in Nat \ {0} /\ NoManifest \notin Manifest
Absent  == 0              \* no such file
Damaged == MaxTries + 1   \* no longer what was written

TypeOK ==
    /\ sampled \in BOOLEAN
    /\ task \in [status : {"queued", "processing", "succeeded", "failed", "cancelled"},
                 claims : 0..MaxTries, held : BOOLEAN]
    /\ row \in [ref : Try, digest : Manifest \cup {NoManifest}]
    /\ try \in [Try -> [at : {"none", "claimed", "reading", "read", "over"}, pages : SUBSET Page]]
    /\ disk \in [Try -> [files : [Page -> 0..Damaged], manifest : Manifest \cup {NoManifest}]]
    /\ expired \subseteq Try
    /\ reader.at \in {"idle", "row", "files", "done"}

\* A run that waits: its row names the directory of a first attempt.
Init ==
    /\ sampled \in BOOLEAN
    /\ task = [status |-> "queued", claims |-> 0, held |-> FALSE]
    /\ row = [ref |-> 1, digest |-> NoManifest]
    /\ try = [n \in Try |-> [at |-> "none", pages |-> {}]]
    /\ disk = [r \in Try |-> [files |-> [p \in Page |-> Absent], manifest |-> NoManifest]]
    /\ expired = {}
    /\ reader = [at |-> "idle"]

Owned(n) == task.status = "processing" /\ task.claims = n /\ task.held

-----------------------------------------------------------------------------
(* The workers *)

\* The job is claimed, for the first time or after its lease ran out.
Claim ==
    /\ task.status = "queued" \/ (task.status = "processing" /\ ~task.held)
    /\ task.claims < MaxTries
    /\ task' = [status |-> "processing", claims |-> task.claims + 1, held |-> TRUE]
    /\ try' = [try EXCEPT ![task.claims + 1].at = "claimed"]
    /\ UNCHANGED <<sampled, row, disk, expired, reader>>

\* Fault in Start: every claim writes where the first one did.
ReferenceOfFirst(n) == 1

\* The directory of a claim: attempt_<claims of the job>.
Reference(n) == n

\* The worker names its directory in the row, under its lease, and begins to read.
Start(n) ==
    /\ try[n].at = "claimed"
    /\ IF Owned(n) THEN /\ row' = [ref |-> Reference(n), digest |-> NoManifest]
                        /\ try' = [try EXCEPT ![n].at = "reading"]
                   ELSE /\ try' = [try EXCEPT ![n].at = "over"]
                        /\ UNCHANGED row
    /\ UNCHANGED <<sampled, task, disk, expired, reader>>

\* A page is read and, if the rule keeps raw pages, written; whether the worker
\* still holds the job is not asked.
Fetch(n, p) ==
    /\ try[n].at = "reading" /\ sampled
    /\ disk' = [disk EXCEPT ![Reference(n)].files[p] = n]
    /\ try' = [try EXCEPT ![n].pages = @ \cup {p}]
    /\ UNCHANGED <<sampled, task, row, expired, reader>>

\* What finish writes beside the files.
ManifestOf(n, complete) == [by |-> n, complete |-> complete, pages |-> try[n].pages]

\* The reading ends and the manifest says so; the result waits to be committed.
Finish(n) ==
    /\ try[n].at = "reading"
    /\ disk' = [disk EXCEPT ![Reference(n)].manifest = ManifestOf(n, TRUE)]
    /\ try' = [try EXCEPT ![n].at = "read"]
    /\ UNCHANGED <<sampled, task, row, expired, reader>>

\* The reading ends early (an error, the time limit, the lease was seen lost, the
\* worker stops): the manifest says that it is not complete.  A worker that still
\* holds the job ends it, unless it stops and leaves it to the next claim.
BreakOff(n) ==
    /\ try[n].at = "reading"
    /\ disk' = [disk EXCEPT ![Reference(n)].manifest = ManifestOf(n, FALSE)]
    /\ try' = [try EXCEPT ![n].at = "over"]
    /\ \/ Owned(n) /\ task' = [task EXCEPT !.status = "failed"]
       \/ UNCHANGED task
    /\ UNCHANGED <<sampled, row, expired, reader>>

\* Fault in Commit: the result of a worker that lost the job is kept.
MayCommitLate(n) == task.claims >= n

\* Results are committed under the lease.
MayCommit(n) == Owned(n)

\* The result is committed with the digest of the manifest, or refused; or the
\* commit fails and so does the run.
Commit(n) ==
    /\ try[n].at = "read"
    /\ \/ /\ MayCommit(n)
          /\ row' = [row EXCEPT !.digest = ManifestOf(n, TRUE)]
          /\ task' = [task EXCEPT !.status = "succeeded"]
       \/ /\ Owned(n)
          /\ task' = [task EXCEPT !.status = "failed"]
          /\ UNCHANGED row
       \/ ~Owned(n) /\ UNCHANGED <<row, task>>
    /\ try' = [try EXCEPT ![n].at = "over"]
    /\ UNCHANGED <<sampled, disk, expired, reader>>

\* A worker dies: its directory stays as it is, without a manifest if it had none.
Crash(n) ==
    /\ try[n].at \in {"claimed", "reading", "read"}
    /\ try' = [try EXCEPT ![n].at = "over"]
    /\ UNCHANGED <<sampled, task, row, disk, expired, reader>>

LeaseRunsOut ==
    /\ task.status = "processing" /\ task.held
    /\ task' = [task EXCEPT !.held = FALSE]
    /\ UNCHANGED <<sampled, row, try, disk, expired, reader>>

\* The job is cancelled, or found with all its claims used.
EndElsewhere ==
    /\ \/ /\ task.status \in {"queued", "processing"}
          /\ task' = [task EXCEPT !.status = "cancelled"]
       \/ /\ task.status = "processing" /\ ~task.held /\ task.claims = MaxTries
          /\ task' = [task EXCEPT !.status = "failed"]
    /\ UNCHANGED <<sampled, row, try, disk, expired, reader>>

-----------------------------------------------------------------------------
(* Time, the pruning and the disk *)

\* The days of a manifest pass.
Expire(r) ==
    /\ disk[r].manifest # NoManifest /\ sampled /\ r \notin expired
    /\ expired' = expired \cup {r}
    /\ UNCHANGED <<sampled, task, row, try, disk, reader>>

\* Fault in Prune: whatever has a manifest is removed.
DueAnyTime(r) == disk[r].manifest # NoManifest

\* Only what a manifest lists, and says to be past its days, is removed.
Due(r) == disk[r].manifest # NoManifest /\ r \in expired

\* The pruning removes one file; the manifest stays.  A directory without a
\* manifest is left alone.
Prune(r, p) ==
    /\ Due(r) /\ p \in disk[r].manifest.pages /\ disk[r].files[p] # Absent
    /\ disk' = [disk EXCEPT ![r].files[p] = Absent]
    /\ UNCHANGED <<sampled, task, row, try, expired, reader>>

\* A listed file is lost or altered by something else than the program.
Damage(r, p) ==
    /\ disk[r].manifest # NoManifest /\ disk[r].files[p] \in Try
    /\ disk' = [disk EXCEPT ![r].files[p] = Damaged]
    /\ UNCHANGED <<sampled, task, row, try, expired, reader>>

-----------------------------------------------------------------------------
(* A reader of the evidence, who asks once at any moment *)

\* The request reads the run's row.
Ask ==
    /\ reader.at = "idle"
    /\ reader' = [at |-> "row", row |-> row]
    /\ UNCHANGED <<sampled, task, row, try, disk, expired>>

Answer(state) == reader' = [at |-> "done", row |-> reader.row, state |-> state]

\* It looks for the manifest of the directory that the row named, and at what it says.
LookAtManifest ==
    /\ reader.at = "row"
    /\ LET found == disk[reader.row.ref].manifest IN
       \/ found = NoManifest /\ Answer("missing")
       \/ /\ found # NoManifest /\ reader.row.digest = NoManifest
          /\ Answer("incomplete")
       \/ /\ found # NoManifest /\ reader.row.digest \notin {NoManifest, found}
          /\ Answer("invalid")
       \/ /\ found # NoManifest /\ reader.row.digest = found
          /\ IF reader.row.ref \in expired
             THEN Answer("expired")
             ELSE reader' = [at |-> "files", row |-> reader.row, left |-> found.pages]
    /\ UNCHANGED <<sampled, task, row, try, disk, expired>>

\* It checks a file against the manifest.
LookAtFile(p) ==
    /\ reader.at = "files" /\ p \in reader.left
    /\ IF disk[reader.row.ref].files[p] = reader.row.digest.by
       THEN reader' = [reader EXCEPT !.left = @ \ {p}]
       ELSE Answer("invalid")
    /\ UNCHANGED <<sampled, task, row, try, disk, expired>>

Conclude ==
    /\ reader.at = "files" /\ reader.left = {}
    /\ Answer(IF reader.row.digest.complete THEN "available" ELSE "incomplete")
    /\ UNCHANGED <<sampled, task, row, try, disk, expired>>

Next ==
    \/ Claim \/ LeaseRunsOut \/ EndElsewhere
    \/ \E n \in Try : Start(n) \/ Finish(n) \/ BreakOff(n) \/ Commit(n) \/ Crash(n)
    \/ \E n \in Try, p \in Page : Fetch(n, p)
    \/ \E r \in Try : Expire(r)
    \/ \E r \in Try, p \in Page : Prune(r, p) \/ Damage(r, p)
    \/ Ask \/ LookAtManifest \/ (\E p \in Page : LookAtFile(p)) \/ Conclude

-----------------------------------------------------------------------------
(* Properties *)

WasDamaged(r) == \E p \in Page : disk[r].files[p] = Damaged

\* A committed digest stands for all that the claim wrote which ended the job, and
\* its files stay as written until their days are over, whatever the workers do
\* that lost the job (self-hosted-operations.md:83, shown as it really is).
SnapshotKept ==
    row.digest # NoManifest =>
        /\ task.status = "succeeded" /\ row.digest = ManifestOf(task.claims, TRUE)
        /\ disk[row.ref].manifest = row.digest
        /\ \A p \in row.digest.pages :
              \/ disk[row.ref].files[p] \in {row.digest.by, Damaged}
              \/ row.ref \in expired

\* A reader whose row, manifest and files were read one after the other is told
\* "invalid" only of what was damaged or pruned meanwhile, "missing" or
\* "incomplete" only while there is no committed result, and "available" only of
\* one that a worker committed.
ReaderTold ==
    reader.at = "done" =>
        /\ reader.state = "invalid" =>
              WasDamaged(reader.row.ref) \/ reader.row.ref \in expired
        /\ reader.state \in {"missing", "incomplete"} <=> reader.row.digest = NoManifest
        /\ reader.state = "available" => task.status = "succeeded"

EvidenceTruthful == SnapshotKept /\ ReaderTold
=============================================================================
