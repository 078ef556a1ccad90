-------------------------------- MODULE Stores --------------------------------
(***************************************************************************)
(* The components that read and write files, composed: immutable           *)
(* installation, scans, vault objects and backup, repository identity,     *)
(* imports, source adapters, archive inspection, releases, retention and   *)
(* custody.  They share no state.  A behaviour works on the one part       *)
(* chosen in its initial state, and the variables of the other parts rest, *)
(* so the states of the composition are the sum of theirs.                 *)
(***************************************************************************)
EXTENDS ImmutableStore, Sequences

CONSTANTS
  Nothing, Missing, Rotten, Broken, Other, Nobody,       \* what is not there, or not whole
  MaxChanges,                                            \* bound on changes by others
  Paths, Fold, Content, Initial, Policies, Limits, MaxScans,            \* Scan
  Worker, Requests, MaxCalls, MaxRots, MaxBackups,                      \* VaultStore
  Directory, Identity, Junk, Commit, Manifest, Ancestors, Has,
  Creator, Reader, Evaluator,                                           \* RepoIdentity
  LedgerEntry, Refused, MaxEntries, Logs, Importer, BundlePolicies, Bundler,
  MaxTouches, MaxLogEdits, MaxImports,                                  \* Imports
  Packets, PacketRequests, Adapter, RecordId, Kind, Supported, Options,
  MaxWrites, MaxEdits, MaxBound,                                        \* Adapters
  Inode, Containers, EntryFold, MaxBytes,                               \* Archive
  ReleaseCommit, Owner, Signers, Previews, HandMade, Preparer, MaxReceipts,  \* Release
  Location, MaxTime, MaxObservations, MaxDeletions,                     \* Retention
  MaxFills                                                              \* Custody

VARIABLES
  part,
  tree, treeChanges, scan, scans, kept, verdict, steady, unmoved, existed,    \* Scan
  files, worker, calls, rots, heard, backup, media, receipts, restore, seen,  \* VaultStore
  at, working, head, changes, stamps, process, answer, settled,               \* RepoIdentity
  log, imported, lock, importer, edits, handled, imports, credit, reported, collided,
  output, bundler, claims,                                                    \* Imports
  file, linked, sidecar, adapter, admitted, writes, record, asked, replies, bound, \* Adapters
  inode, contents, inspection, receipt, swaps, earlier, restored,             \* Archive
  staged, preparer, prepared, tag, checkout, signers, verifier, verified, published,
  attester, report, steps, past, returned, touched,                           \* Release
  observations, deletions,                                                    \* Retention
  custodian, endpoint, transport, preflight, fills                            \* Custody

Scan == INSTANCE Scan WITH changes <- treeChanges, report <- verdict

VaultStore == INSTANCE VaultStore WITH told <- heard

RepoIdentity == INSTANCE RepoIdentity

Imports ==
  INSTANCE Imports
    WITH Entry <- LedgerEntry, MaxEdits <- MaxLogEdits, Policies <- BundlePolicies, Writer <- Bundler,
         files <- imported, touched <- handled, writer <- bundler

Adapters == INSTANCE Adapters WITH Requests <- PacketRequests, answers <- replies

Archive ==
  INSTANCE Archive
    WITH Fold <- EntryFold, at <- inode, bytes <- contents, changes <- swaps, past <- earlier,
         returned <- restored

Release ==
  INSTANCE Release
    WITH Commit <- ReleaseCommit, head <- checkout, receipts <- verified, changes <- steps

Retention == INSTANCE Retention WITH MaxReceipts <- MaxDeletions, receipts <- deletions

Custody ==
  INSTANCE Custody
    WITH None <- Nothing, MaxEdits <- MaxFills, source <- custodian, adapter <- transport,
         receipt <- preflight, edits <- fills

scanVars == <<tree, treeChanges, scan, scans, kept, verdict, steady, unmoved, existed>>

vaultVars == <<files, worker, calls, rots, heard, backup, media, receipts, restore, seen>>

repoVars == <<at, working, head, changes, stamps, process, answer, settled>>

importVars ==
  <<log, imported, lock, importer, edits, handled, imports, credit, reported, collided,
    output, bundler, claims>>

adapterVars ==
  <<file, linked, sidecar, adapter, admitted, writes, record, asked, replies, bound>>

archiveVars == <<inode, contents, inspection, receipt, swaps, earlier, restored>>

releaseVars ==
  <<staged, preparer, prepared, tag, checkout, signers, verifier, verified, published,
    attester, report, steps, past, returned, touched>>

retentionVars == <<observations, deletions>>

custodyVars == <<custodian, endpoint, transport, preflight, fills>>

\* The components about external copies of the vault.
lifecycleVars == <<retentionVars, custodyVars>>

\* What the theorems ask of the constants beyond the assumption of ImmutableStore.
StoresConstants ==
  /\ Scan!ScanConstants
  /\ VaultStore!BodiesExist /\ MaxBackups \in Nat
  /\ RepoIdentity!RepoConstants
  /\ Imports!ImportConstants
  /\ Adapters!AdapterConstants
  /\ Archive!ArchiveConstants
  /\ Release!ReleaseConstants
  /\ Retention!RetentionConstants
  /\ Custody!CustodyConstants

-----------------------------------------------------------------------------
(* A part that is not chosen rests: its variables hold Nothing throughout,   *)
(* those of ImmutableStore their initial value.                              *)

ScanRests ==
  /\ tree = Nothing /\ treeChanges = Nothing /\ scan = Nothing /\ scans = Nothing
  /\ kept = Nothing /\ verdict = Nothing /\ steady = Nothing /\ unmoved = Nothing
  /\ existed = Nothing

VaultRests ==
  /\ files = Nothing /\ worker = Nothing /\ calls = Nothing /\ rots = Nothing
  /\ heard = Nothing /\ backup = Nothing /\ media = Nothing /\ receipts = Nothing
  /\ restore = Nothing /\ seen = Nothing

RepoRests ==
  /\ at = Nothing /\ working = Nothing /\ head = Nothing /\ changes = Nothing
  /\ stamps = Nothing /\ process = Nothing /\ answer = Nothing /\ settled = Nothing

ImportRests ==
  /\ log = Nothing /\ imported = Nothing /\ lock = Nothing /\ importer = Nothing
  /\ edits = Nothing /\ handled = Nothing /\ imports = Nothing /\ credit = Nothing
  /\ reported = Nothing /\ collided = Nothing /\ output = Nothing /\ bundler = Nothing
  /\ claims = Nothing

AdapterRests ==
  /\ file = Nothing /\ linked = Nothing /\ sidecar = Nothing /\ adapter = Nothing
  /\ admitted = Nothing /\ writes = Nothing /\ record = Nothing /\ asked = Nothing
  /\ replies = Nothing /\ bound = Nothing

ArchiveRests ==
  /\ inode = Nothing /\ contents = Nothing /\ inspection = Nothing /\ receipt = Nothing
  /\ swaps = Nothing /\ earlier = Nothing /\ restored = Nothing

ReleaseRests ==
  /\ staged = Nothing /\ preparer = Nothing /\ prepared = Nothing /\ tag = Nothing
  /\ checkout = Nothing /\ signers = Nothing /\ verifier = Nothing /\ verified = Nothing
  /\ published = Nothing /\ attester = Nothing /\ report = Nothing /\ steps = Nothing
  /\ past = Nothing /\ returned = Nothing /\ touched = Nothing

RetentionRests == observations = Nothing /\ deletions = Nothing

CustodyRests ==
  /\ custodian = Nothing /\ endpoint = Nothing
  /\ transport = Nothing /\ preflight = Nothing /\ fills = Nothing

StoresInit ==
  /\ Init
  /\ part \in {"install", "scan", "vault", "repository", "imports", "adapters", "archive",
               "release", "retention", "custody"}
  /\ \/ part = "scan" /\ Scan!Init
     \/ part # "scan" /\ ScanRests
  /\ \/ part = "vault" /\ VaultStore!Init
     \/ part # "vault" /\ VaultRests
  /\ \/ part = "repository" /\ RepoIdentity!Init
     \/ part # "repository" /\ RepoRests
  /\ \/ part = "imports" /\ Imports!Init
     \/ part # "imports" /\ ImportRests
  /\ \/ part = "adapters" /\ Adapters!Init
     \/ part # "adapters" /\ AdapterRests
  /\ \/ part = "archive" /\ Archive!Init
     \/ part # "archive" /\ ArchiveRests
  /\ \/ part = "release" /\ Release!Init
     \/ part # "release" /\ ReleaseRests
  /\ \/ part = "retention" /\ Retention!Init
     \/ part # "retention" /\ RetentionRests
  /\ \/ part = "custody" /\ Custody!Init
     \/ part # "custody" /\ CustodyRests

\* All but the variables of one part.
ButScan == <<part, vars, vaultVars, repoVars, importVars, adapterVars, archiveVars, releaseVars, lifecycleVars>>
ButVault == <<part, vars, scanVars, repoVars, importVars, adapterVars, archiveVars, releaseVars, lifecycleVars>>
ButRepo == <<part, vars, scanVars, vaultVars, importVars, adapterVars, archiveVars, releaseVars, lifecycleVars>>
ButImports == <<part, vars, scanVars, vaultVars, repoVars, adapterVars, archiveVars, releaseVars, lifecycleVars>>
ButAdapters == <<part, vars, scanVars, vaultVars, repoVars, importVars, archiveVars, releaseVars, lifecycleVars>>
ButArchive == <<part, vars, scanVars, vaultVars, repoVars, importVars, adapterVars, releaseVars, lifecycleVars>>
ButRelease == <<part, vars, scanVars, vaultVars, repoVars, importVars, adapterVars, archiveVars, lifecycleVars>>
ButRetention ==
  <<part, vars, scanVars, vaultVars, repoVars, importVars, adapterVars, archiveVars, releaseVars, custodyVars>>
ButCustody ==
  <<part, vars, scanVars, vaultVars, repoVars, importVars, adapterVars, archiveVars, releaseVars, retentionVars>>

StoresNext ==
  \/ /\ part = "install" /\ Next
     /\ UNCHANGED <<part, scanVars, vaultVars, repoVars, importVars, adapterVars, archiveVars,
                    releaseVars, lifecycleVars>>
  \/ part = "scan" /\ Scan!Next /\ UNCHANGED ButScan
  \/ part = "vault" /\ VaultStore!Next /\ UNCHANGED ButVault
  \/ part = "repository" /\ RepoIdentity!Next /\ UNCHANGED ButRepo
  \/ part = "imports" /\ Imports!Next /\ UNCHANGED ButImports
  \/ part = "adapters" /\ Adapters!Next /\ UNCHANGED ButAdapters
  \/ part = "archive" /\ Archive!Next /\ UNCHANGED ButArchive
  \/ part = "release" /\ Release!Next /\ UNCHANGED ButRelease
  \/ part = "retention" /\ Retention!Next /\ UNCHANGED ButRetention
  \/ part = "custody" /\ Custody!Next /\ UNCHANGED ButCustody

storesVars ==
  <<part, vars, scanVars, vaultVars, repoVars, importVars, adapterVars, archiveVars, releaseVars,
    lifecycleVars>>

StoresSpec == StoresInit /\ [][StoresNext]_storesVars

-----------------------------------------------------------------------------
\* The variables of the chosen part keep their types, and an unfinished call
\* holds what its step reads.
StoresTypeOK ==
  /\ TypeOK
  /\ part = "scan" => Scan!TypeOK
  /\ part = "vault" => VaultStore!TypeOK
  /\ part = "repository" => RepoIdentity!TypeOK
  /\ part = "imports" => Imports!TypeOK
  /\ part = "adapters" => Adapters!TypeOK
  /\ part = "archive" => Archive!TypeOK
  /\ part = "release" => Release!TypeOK
  /\ part = "retention" => Retention!TypeOK
  /\ part = "custody" => Custody!TypeOK

\* A complete manifest accounts for every entry that stood still while the
\* scan ran, and reports nothing that never was there; a verification and a
\* diff tell no difference where nothing moved.  An archive receipt describes
\* the container that was at the path.  A packet admitted is one scan, and a
\* projection answers for the records it was asked about.  A summary of
\* locations or deletions says what its evidence says, in any order.
ObservationsHold ==
  /\ part = "scan" => Scan!CompleteAccounts
  /\ part = "archive" => Archive!ReceiptOfContainer
  /\ part = "adapters" => Adapters!AdmittedIsOne
  /\ part = "retention" => Retention!SummariesHonest

\* Racing writers converge.  Of the intakes of one identity all answer for one
\* record and its bytes; the imports of one ledger are counted once; one
\* bundle at most is told to have been written to a directory.
WritesConverge ==
  /\ part = "vault" => VaultStore!IntakesAgree
  /\ part = "imports" => Imports!ImportsConverge

\* A restore that succeeds returns the vault the named backup receipt
\* describes, whatever decayed or was replaced since; and an endpoint is
\* called ready for a backup only when the owner authorized it.
RestoredAsReceipted ==
  /\ part = "vault" => VaultStore!RestoredAsReceipted
  /\ part = "custody" => Custody!ReadyByOwner

\* An identity, a comparison with HEAD or a freshness that a caller is told
\* was true of one repository at one moment of the call.
AnswersTrue == part = "repository" => RepoIdentity!AnswersTrue

\* A verification receipt and an attestation are about one signed set of
\* assets of the tagged commit, and racing preparers leave one candidate.
ReleaseBound == part = "release" => Release!ReleaseBound
=============================================================================
