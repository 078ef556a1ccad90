----------------------------- MODULE VaultStore -----------------------------
(***************************************************************************)
(* Intake of exact bytes into a local vault (src/artifact_memory/vault.py), *)
(* the encrypted backup of the vault's files and their isolated restore     *)
(* (src/artifact_memory/backup.py).                                         *)
(*                                                                          *)
(* An intake registers an object under its digest, verifies it and writes   *)
(* two immutable records, one after the other; intakes race, die anywhere   *)
(* and are repeated, and objects rot.  A backup copies the files one by one *)
(* while intakes go on, and replaces the one backup file of its directory;  *)
(* a restore hashes that file, and decrypts it in a second reading.         *)
(*                                                                          *)
(* A file of the vault is named by its kind and key and a correct object    *)
(* holds its key.  A single installation is atomic here; ImmutableStore has *)
(* its system calls, and their temporary names, which a backup lists too:   *)
(* one gone before its turn fails the backup as any lost file does, one     *)
(* still there is a file of no name here.  Every encryption has a salt of   *)
(* its own, the backup's generation.                                        *)
(***************************************************************************)
EXTENDS Naturals, FiniteSets

CONSTANTS
  Worker,        \* processes calling intake_bytes
  Requests,      \* [artifact, title, content, expected, sound]
  Rotten,        \* bytes no digest names
  Nothing,       \* no file
  MaxCalls,      \* bound on intakes begun
  MaxRots,       \* bound on files damaged or removed
  MaxBackups     \* bound on backups begun

VARIABLES
  files,     \* the vault: file name -> bytes
  worker,    \* worker[w]: the intake under way
  calls,     \* intakes begun
  rots,      \* damages done
  told,      \* history: [request, outcome] of every intake that answered
  backup,    \* the backup under way
  media,     \* the backup file: [generation, copy, damaged], or Nothing
  receipts,  \* receipts of created backups: [generation, manifest]
  restore,   \* the restore under way, or its answer
  seen       \* history: <<name, bytes>> of every file the vault ever held

vars == <<files, worker, calls, rots, told, backup, media, receipts, restore, seen>>

Contents == {r.content : r \in Requests}
Artifacts == {r.artifact : r \in Requests}

Object(c) == <<"object", c>>
Quarantined(c) == <<"quarantine", c>>
ArtifactFile(a) == <<"artifact", a>>
VersionFile(a) == <<"version", a>>

Name == {Object(c) : c \in Contents} \cup {Quarantined(c) : c \in Contents}
        \cup {ArtifactFile(a) : a \in Artifacts} \cup {VersionFile(a) : a \in Artifacts}

\* The canonical records of a request: the first says what the artifact is, the
\* second, its first version, which content it has.
ArtifactBody(r) == <<r.artifact, r.title>>
VersionBody(r) == <<r.artifact, r.content>>

Idle == [step |-> "idle", request |-> Nothing, registration |-> "none", states |-> {}]

NoBackup == [step |-> "none", generation |-> 0, left |-> {}, copy |-> {}]

NoRestore == [step |-> "none", receipt |-> Nothing, target |-> {}, outcome |-> "none"]

Success == {"registered", "duplicate"}

\* A missing file is told from every record.
BodiesExist ==
  \A r \in Requests : ArtifactBody(r) # Nothing /\ VersionBody(r) # Nothing

IntakeType ==
  [step : {"idle", "verify", "artifact", "version"}, request : Requests \cup {Nothing},
   registration : {"none", "registered", "duplicate"}, states : SUBSET {"created", "duplicate"}]

AnswerType ==
  [request : Requests, outcome : Success \cup {"failed", "mixed", "quarantined"}]

\* The file another program puts into the target of a restore.
Foreign == <<<<"foreign", "foreign">>, Nothing>>

BackupType ==
  [step : {"none", "copy"}, generation : 0 .. MaxBackups, left : SUBSET Name, copy : SUBSET seen]

MediaType == [generation : 1 .. MaxBackups, copy : SUBSET seen, damaged : BOOLEAN]

ReceiptType == [generation : 1 .. MaxBackups, manifest : SUBSET seen]

RestoreType ==
  [step : {"none", "decrypt"}, receipt : receipts \cup {Nothing}, target : SUBSET (seen \cup {Foreign}),
   outcome : {"none", "failed", "rejected", "restored"}]

TypeOK ==
  /\ DOMAIN files = Name
  /\ \A n \in Name : files[n] = Nothing \/ <<n, files[n]>> \in seen
  /\ worker \in [Worker -> IntakeType]
  /\ \A w \in Worker :
       worker[w].step # "idle" => worker[w].request \in Requests /\ worker[w].registration \in Success
  /\ told \subseteq AnswerType
  /\ backup \in BackupType
  /\ backup.step = "copy" => backup.generation # 0
  /\ media \in MediaType \cup {Nothing}
  /\ receipts \subseteq ReceiptType
  /\ restore \in RestoreType
  /\ restore.step = "decrypt" => media \in MediaType

Init ==
  /\ files = [n \in Name |-> Nothing]
  /\ worker = [w \in Worker |-> Idle]
  /\ calls = 0 /\ rots = 0
  /\ told = {} /\ seen = {} /\ receipts = {}
  /\ backup = NoBackup
  /\ media = Nothing
  /\ restore = NoRestore

(***************************************************************************)
(* Intake                                                                   *)
(***************************************************************************)

Put(n, bytes) ==
  /\ files' = [files EXCEPT ![n] = bytes]
  /\ seen' = seen \cup {<<n, bytes>>}

Answer(w, outcome) ==
  /\ told' = told \cup {[request |-> worker[w].request, outcome |-> outcome]}
  /\ worker' = [worker EXCEPT ![w] = Idle]

IntakeOnly == UNCHANGED <<rots, backup, media, receipts, restore>>

\* Whether or not a file is there is all a careless writer looks at.
WrittenOnce(n, bytes) == IF files[n] = Nothing THEN "created" ELSE "duplicate"

\* _write_immutable: what is there stays, and must be the same bytes.
Written(n, bytes) ==
  CASE files[n] = Nothing -> "created"
    [] files[n] = bytes -> "duplicate"
    [] OTHER -> "collision"

Install(n, bytes) ==
  IF files[n] = Nothing THEN Put(n, bytes) ELSE UNCHANGED <<files, seen>>

\* Bytes that are not the expected ones are only kept aside.
Quarantine(w, r) ==
  /\ worker[w].step = "idle" /\ calls < MaxCalls
  /\ r.sound /\ r.expected # r.content
  /\ calls' = calls + 1
  /\ Install(Quarantined(r.content), r.content)
  /\ told' = told \cup {[request |-> r, outcome |->
                           IF Written(Quarantined(r.content), r.content) = "collision"
                           THEN "failed" ELSE "quarantined"]}
  /\ UNCHANGED worker
  /\ IntakeOnly

\* Metadata, or an expected digest, that is no valid one is refused untouched.
RefuseMetadata(w, r) ==
  /\ worker[w].step = "idle" /\ calls < MaxCalls
  /\ ~r.sound
  /\ calls' = calls + 1
  /\ told' = told \cup {[request |-> r, outcome |-> "failed"]}
  /\ UNCHANGED <<files, worker, seen>>
  /\ IntakeOnly

\* register_bytes: an object that is there must be the one its name promises.
Register(w, r) ==
  /\ worker[w].step = "idle" /\ calls < MaxCalls
  /\ r.sound /\ r.expected = r.content
  /\ calls' = calls + 1
  /\ Install(Object(r.content), r.content)
  /\ LET state == Written(Object(r.content), r.content)
     IN IF state = "collision"
        THEN told' = told \cup {[request |-> r, outcome |-> "failed"]} /\ UNCHANGED worker
        ELSE /\ worker' = [worker EXCEPT ![w] = [Idle EXCEPT !.step = "verify", !.request = r,
                             !.registration = IF state = "created" THEN "registered" ELSE state]]
             /\ UNCHANGED told
  /\ IntakeOnly

Verify(w) ==
  /\ worker[w].step = "verify"
  /\ IF files[Object(worker[w].request.content)] = worker[w].request.content
     THEN worker' = [worker EXCEPT ![w].step = "artifact"] /\ UNCHANGED told
     ELSE Answer(w, "failed")
  /\ UNCHANGED <<files, calls, seen>>
  /\ IntakeOnly

\* The answer once both records are on disk: one created and one already there
\* is no answer, the call has to be repeated.
Concluded(w, states) ==
  CASE states = {"duplicate"} -> worker[w].registration
    [] states = {"created"} -> "registered"
    [] OTHER -> "mixed"

WriteArtifact(w) ==
  /\ worker[w].step = "artifact"
  /\ LET r == worker[w].request
         state == Written(ArtifactFile(r.artifact), ArtifactBody(r))
     IN /\ Install(ArtifactFile(r.artifact), ArtifactBody(r))
        /\ IF state = "collision"
           THEN Answer(w, "failed")
           ELSE worker' = [worker EXCEPT ![w].step = "version", ![w].states = {state}]
                /\ UNCHANGED told
  /\ UNCHANGED calls
  /\ IntakeOnly

WriteVersion(w) ==
  /\ worker[w].step = "version"
  /\ LET r == worker[w].request
         state == Written(VersionFile(r.artifact), VersionBody(r))
     IN /\ Install(VersionFile(r.artifact), VersionBody(r))
        /\ Answer(w, IF state = "collision" THEN "failed"
                     ELSE Concluded(w, worker[w].states \cup {state}))
  /\ UNCHANGED calls
  /\ IntakeOnly

Die(w) ==
  /\ worker[w].step # "idle"
  /\ worker' = [worker EXCEPT ![w] = Idle]
  /\ UNCHANGED <<files, calls, told, seen>>
  /\ IntakeOnly

\* The disk damages, or somebody removes, an object.
Rot(n, bytes) ==
  /\ rots < MaxRots
  /\ n \in {Object(c) : c \in Contents} /\ files[n] # Nothing /\ files[n] # bytes
  /\ rots' = rots + 1
  /\ IF bytes = Nothing THEN files' = [files EXCEPT ![n] = Nothing] /\ UNCHANGED seen
                        ELSE Put(n, bytes)
  /\ UNCHANGED <<worker, calls, told, backup, media, receipts, restore>>

(***************************************************************************)
(* Backup                                                                   *)
(***************************************************************************)

BackupOnly == UNCHANGED <<files, worker, calls, told, restore, seen>>

\* The names are listed before the first file is copied.
BeginBackup ==
  /\ backup.step = "none" /\ backup.generation < MaxBackups
  /\ backup' = [step |-> "copy", generation |-> backup.generation + 1,
                left |-> {n \in Name : files[n] # Nothing}, copy |-> {}]
  /\ BackupOnly /\ UNCHANGED <<rots, media, receipts>>

GiveUpBackup == backup' = [NoBackup EXCEPT !.generation = backup.generation]

\* A file that went away fails the whole backup.
CopyFile(n) ==
  /\ backup.step = "copy" /\ n \in backup.left
  /\ IF files[n] = Nothing
     THEN GiveUpBackup
     ELSE backup' = [backup EXCEPT !.left = @ \ {n},
                                   !.copy = @ \cup {<<n, files[n]>>}]
  /\ BackupOnly /\ UNCHANGED <<rots, media, receipts>>

\* os.replace installs the new generation over the one before it.
PublishBackup ==
  /\ backup.step = "copy" /\ backup.left = {}
  /\ media' = [generation |-> backup.generation, copy |-> backup.copy, damaged |-> FALSE]
  /\ receipts' = receipts \cup {[generation |-> backup.generation, manifest |-> backup.copy]}
  /\ GiveUpBackup
  /\ BackupOnly /\ UNCHANGED rots

\* The process dies, its temporary directory never looked at again; or a temporary
\* file it listed is gone (source-unreadable).
AbandonBackup ==
  /\ backup.step = "copy"
  /\ GiveUpBackup
  /\ BackupOnly /\ UNCHANGED <<rots, media, receipts>>

Damage ==
  /\ rots < MaxRots /\ media # Nothing /\ ~media.damaged
  /\ rots' = rots + 1
  /\ media' = [media EXCEPT !.damaged = TRUE]
  /\ BackupOnly /\ UNCHANGED <<backup, receipts>>

(***************************************************************************)
(* Restore                                                                  *)
(***************************************************************************)

RestoreOnly == UNCHANGED <<files, worker, calls, rots, told, backup, media, receipts, seen>>

\* The ciphertext must be the receipt's and the target empty.
BeginRestore(r) ==
  /\ restore.step = "none" /\ restore.outcome # "restored"
  /\ media # Nothing
  /\ restore' = CASE media.generation # r.generation \/ media.damaged ->
                       [restore EXCEPT !.outcome = "failed"]
                  [] restore.target # {} -> [restore EXCEPT !.outcome = "rejected"]
                  [] OTHER -> [restore EXCEPT !.step = "decrypt", !.receipt = r]
  /\ RestoreOnly

\* Somebody puts a file of their own into the target meanwhile.
Occupy ==
  /\ receipts # {} /\ restore.outcome # "restored" /\ restore.target = {}
  /\ restore' = [restore EXCEPT !.target = {Foreign}]
  /\ RestoreOnly

ManifestUnbound(copy, r) == TRUE

ManifestBound(copy, r) == copy = r.manifest

\* The file is read again, decrypted, unpacked, checked and moved into place; a
\* target that is no longer empty cannot be replaced.
FinishRestore ==
  /\ restore.step = "decrypt"
  /\ restore' = IF media.damaged \/ restore.target # {} \/ ~ManifestBound(media.copy, restore.receipt)
                THEN [restore EXCEPT !.step = "none", !.outcome = "failed"]
                ELSE [restore EXCEPT !.step = "none", !.outcome = "restored",
                                     !.target = media.copy]
  /\ RestoreOnly

Next ==
  \/ \E w \in Worker, r \in Requests : Quarantine(w, r)
  \/ \E w \in Worker, r \in Requests : RefuseMetadata(w, r)
  \/ \E w \in Worker, r \in Requests : Register(w, r)
  \/ \E w \in Worker : Verify(w)
  \/ \E w \in Worker : WriteArtifact(w)
  \/ \E w \in Worker : WriteVersion(w)
  \/ \E w \in Worker : Die(w)
  \/ \E n \in Name, bytes \in {Rotten, Nothing} : Rot(n, bytes)
  \/ BeginBackup
  \/ \E n \in Name : CopyFile(n)
  \/ PublishBackup
  \/ AbandonBackup
  \/ Damage
  \/ \E r \in receipts : BeginRestore(r)
  \/ Occupy
  \/ FinishRestore

Spec == Init /\ [][Next]_vars

(***************************************************************************)
(* Every intake told that its bytes are registered, or were already, has    *)
(* its own records in the vault, whatever raced with it: no two of them     *)
(* disagree on what an artifact is or holds.                                *)
(***************************************************************************)
IntakesAgree ==
  \A t \in told : t.outcome \in Success =>
    /\ files[ArtifactFile(t.request.artifact)] = ArtifactBody(t.request)
    /\ files[VersionFile(t.request.artifact)] = VersionBody(t.request)

(***************************************************************************)
(* A restore that reports success placed exactly the files of the receipt   *)
(* it was asked for, each with bytes the vault held under that name, even   *)
(* when another generation replaced the backup file while it was read.      *)
(***************************************************************************)
RestoredAsReceipted ==
  restore.outcome = "restored" =>
    /\ restore.target = restore.receipt.manifest
    /\ restore.target \subseteq seen
=============================================================================
