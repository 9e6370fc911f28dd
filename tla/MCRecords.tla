------------------------------ MODULE MCRecords ------------------------------
(***************************************************************************)
(* A small instance of what is kept of a source: SourceManagement (its      *)
(* contract and the owners of its history), Upgrade (how the rows of an     *)
(* earlier release become those of this one), LocalEvidence (the raw pages  *)
(* of a run), AiActivity (phases, attempts and calls of an exploration) and *)
(* InstanceKeys (the keys all of it is signed and sealed with).  A          *)
(* behaviour is one of any of them, with the others at rest in one of their *)
(* initial states.                                                          *)
(***************************************************************************)
EXTENDS SourceManagement

CONSTANTS Process, MaxScript, MaxOp, BatchSize, Nobody   \* Upgrade
CONSTANTS Page, MaxTries, NoManifest                     \* LocalEvidence
CONSTANTS Phase, MaxClaims, MaxEntries, MaxCalls         \* AiActivity
CONSTANTS Service, KeyId, FirstKey, Secret, MaxMaterial, MaxGeneration, MaxOffline,
          MaxLosses                                      \* InstanceKeys

VARIABLES legacy, auto, db, gate, proc                        \* Upgrade
VARIABLES sampled, task, row, try, disk, expired, reader      \* LocalEvidence
VARIABLES operation, aiRun, attempts, invocations, aiJob, worker \* AiActivity
VARIABLES process, command, restore, config, file, keyDb, archive, dump, made, partial,
          gone, losses                                        \* InstanceKeys
VARIABLE part                                                 \* which one moves

U == INSTANCE Upgrade WITH Script <- 1..MaxScript, Op <- 1..MaxOp
E == INSTANCE LocalEvidence
A == INSTANCE AiActivity WITH job <- aiJob
K == INSTANCE InstanceKeys WITH Process <- Service, MaxCommands <- MaxOffline, db <- keyDb

ASSUME RecordsAssumption ==
    /\ U!UpgradeAssumption /\ MaxScript \in Nat /\ MaxOp \in Nat
    /\ E!EvidenceAssumption /\ A!ActivityAssumption /\ K!InstanceAssumption

upgradeVars  == <<legacy, auto, db, gate, proc>>
evidenceVars == <<sampled, task, row, try, disk, expired, reader>>
activityVars == <<operation, aiRun, attempts, invocations, aiJob, worker>>
keyVars      == <<process, command, restore, config, file, keyDb, archive, dump, made,
                  partial, gone, losses>>
MCVars       == <<part, vars, upgradeVars, evidenceVars, activityVars, keyVars>>

\* Failed runs of a source that was never more than a draft.
Untouched ==
    [op |-> [i \in 1..MaxOp |-> [kind |-> "run", born |-> i, status |-> "failed"]],
     status |-> "draft", bound |-> FALSE, moved |-> FALSE, archived |-> FALSE,
     policy |-> FALSE, checkpoint |-> FALSE]

MCInit == /\ part \in {"source", "upgrade", "evidence", "activity", "keys"}
          /\ Init /\ U!Init /\ E!Init /\ A!Init /\ K!Init
          /\ part # "source" => history = <<>>
          /\ part # "upgrade" => auto = FALSE /\ legacy = Untouched
          /\ part # "evidence" => sampled = TRUE

SourceNext   == /\ part = "source" /\ Next
                /\ UNCHANGED <<part, upgradeVars, evidenceVars, activityVars, keyVars>>
UpgradeNext  == /\ part = "upgrade" /\ U!Next
                /\ UNCHANGED <<part, vars, evidenceVars, activityVars, keyVars>>
EvidenceNext == /\ part = "evidence" /\ E!Next
                /\ UNCHANGED <<part, vars, upgradeVars, activityVars, keyVars>>
ActivityNext == /\ part = "activity" /\ A!Next
                /\ UNCHANGED <<part, vars, upgradeVars, evidenceVars, keyVars>>
KeysNext     == /\ part = "keys" /\ K!Next
                /\ UNCHANGED <<part, vars, upgradeVars, evidenceVars, activityVars>>

MCNext == SourceNext \/ UpgradeNext \/ EvidenceNext \/ ActivityNext \/ KeysNext
MCSpec == MCInit /\ [][MCNext]_MCVars

-----------------------------------------------------------------------------
(* The properties of the parts *)

\* Every variable of the part that moves has its type.
AllTypesOK == CASE part = "source"   -> TypeOK
                [] part = "upgrade"  -> U!TypeOK
                [] part = "evidence" -> E!TypeOK
                [] part = "activity" -> A!TypeOK
                [] part = "keys"     -> K!TypeOK

\* Upgrade: what serves finds what an undisturbed migration leaves, and at no moment
\* is more than one AI run of a source under review or published.
UpgradeSound == part = "upgrade" => U!UpgradeSound

\* LocalEvidence and AiActivity: what is kept of an execution for whoever looks at it
\* later is so.  A committed snapshot stays what was committed and a reader of it is
\* told no more and no less; phases, end and bill of an exploration are those of the
\* workers that had it.
TrailTruthful == E!EvidenceTruthful /\ A!ActivityTruthful

\* InstanceKeys: what the database holds can be decrypted, and no process lives on
\* half of a restore.
InstanceSound == K!SecretsReadable /\ K!WholeInstance

\* InstanceKeys: a lost file is not replaced by a new key, and nothing is committed
\* under a key that is not trusted.
KeysSound == K!NeverReplaced /\ K!CommittedUnderTrust
=============================================================================
