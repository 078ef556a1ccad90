# Verification of artifact-memory

TLA+ specifications of artifact-memory: of the coordination plane, what its
processes, hub and vaults may do and what must stay true while they do it, and of the
components around it that read, write and move records and files other programs
change meanwhile; TLC configurations that check them on small instances, and TLAPS
proofs that hold for instances of every size. Paths below are relative to the
repository root; where no file is named, lines are those of
`artifact_memory/coordination_sync.py`.

    tlc -workers 2 -config MCSync_vault.cfg MCSync        # a run of PROJECT.json
    tlapm CoordinationSync_proofs.tla                     # a proof module

## 1. Inventory

The program is a local-first store of canonical JSON records ("vaults"), and a
coordination plane through which several principals exchange two kinds of them,
TaskPackets and WorkReceipts, by way of a hub. There is no server in the
repository: a local-path hub is a directory all processes open, an HTTP hub is
foreign code that the repository only calls.

| component | state | operations | hard behaviour | what makes it correct |
|---|---|---|---|---|
| record relations, admission policy (`coordination.py`, `coordination_sync.py`) | none: functions of a set of records | chain and leaf resolution, WorkReceipt binding, typed admission codes, egress filter | one inconsistent record stops every principal's pull | an admitted record never makes the hub unreadable; filtering by label keeps what it shows consistent |
| hub (local path) | canonical records, retained labels, `hub-config.json`, principal, task and configuration locks | push admission, pull response, configuration replacement | principals race on one task; stale snapshots; a process dies between admission and acknowledgement; administrators race requests | histories unforked, labels resolvable, bindings in force |
| vault | local records, receipts with membership manifests, success marker, pending outcomes, apply lock | local append, apply of a response, consumption of pending outcomes | two processes on one vault; a crash between any two files | evidence only of what was delivered; marker backed and monotonic; provenance before exposure |
| submission batches (`_acknowledged_hub_state`, `_push_bound`, `coordination_http._batch`) | cursors replayed from receipts | selection under record and byte bounds | retries starve fresh records or the reverse; repeated receipts after a crash | each class and each record recurs |
| file installation (`_write_immutable`, `_write_atomic`) | temporary names, directory entries, durable contents | create, sync, link or replace, sync directory | two processes install one path; power fails between any two calls | readers see whole files; what was reported stored stays |
| HTTP client (`coordination_http.py`, `coordination_claim.py`) | retry journal, transport lock, claim lock | submit, continue pages, apply, claim | lost answers, late requests, a crash with a claim in flight | retries submit the same batch; a task is claimed once |
| onboarding (`coordination_onboarding.py`) | attempt, archived checkpoints, publication | attempt, checkpoint, publish, retire, recover | a crash at each of several files; generations advancing meanwhile | a published checkpoint names what was checked |
| kickoff and coordination context (`coordination_kickoff.py`, `coordination_context.py`) | none; reads a vault under its projection lock | pages of a pull, their verification, task selection | a damaged page, a pull between two reads, a task somebody claimed | a pack is true to one membership the hub showed, and selects a task nobody known to the vault has claimed |
| repository identity and freshness (`repo_identity.py`, `coordination_freshness.py`) | one identity file in a checkout | creation, reading of the committed identity, comparison with HEAD | racing creations; commits, edits and moved checkouts between any two reads | an answer was true of one repository at one moment of the call |
| exchange admission (`exchange.py`, `independent_reader.py`) | replay ledger | admission of an envelope, an independent reader's verdict | the ledger claims an envelope before most checks run; receivers race and die | one call decides an envelope; what is accepted was declared and came as declared |
| revocation (`revocation.py`) | SQLite ledger | acknowledgement, its retention, suppression | racing processes create the schema and acknowledge at once | the first acknowledgement stands |
| record evolution (`record_evolution.py`, `knowledge.py`) | none; the store is the integrator's | candidates, admission, supersession | candidates built from a revision that has since been superseded | one current revision |
| projections (`projection.py`) | record file, index, receipt | publish, open, search | three files replaced one by one; an index altered in place | a search answers from one published record set |
| context packs (`context.py`, `independent_context_reader.py`) | none | export, recall | revocations, sensitivity, freshness and contract versions together | a pack discloses only what its caller may see and counts the rest |
| scan, verify, diff (`scan.py`) | a manifest | scan, verification, diff | the tree changes while it is read | a complete manifest accounts for every entry that stood still |
| vault objects, backup (`vault.py`, `backup.py`, `content.py`) | objects, immutable records, backup file | intake, registration, verification, backup, restore | racing intakes, decay, a file replaced between the hash and the decryption | a restore returns the vault its receipt describes |
| retention and locations (`retention.py`, `location.py`) | none | status of copies, deletion receipts, deletion status | observations in any order, some twice | a summary says what its evidence says |
| custody (`custody.py`) | documents the owner fills in | migration, write preflight | partly filled documents | ready only by the owner's own authorization |
| session ledger and bundles (`session_ledger.py`, `codex_history.py`) | imported files, one import lock, bundle directories | import, bundle export | a partial import repeated after the ledger was edited; two writers of one directory | every entry counted once; one bundle at most is told written |
| source adapters (`tracemap_adapter.py`, `wits_adapter.py`) | none | binding of a packet, binding of a provider's answer | a packet replaced while it is copied; records revised while a provider answers | what is admitted is one scan; an answer is about the records asked about |
| archive inspection (`archive.py`) | none | inspection of a ZIP | a container replaced while it is read | the receipt describes the container at the path |
| release (`release*.py`) | staged and published files, tag | prepare, verify, attest | files, tag, keys and HEAD change in between | a receipt is about one signed set of assets of the tagged commit |
| schemas, canonical form, extensions, authenticity | none | validate, digest | byte-level formats | one digest per body |
| benchmark, platform probes, CLI, conformance drivers | outputs | sequential tooling | no shared state of their own | not modelled |

How they interact. A user appends records to a vault. A client process runs `sync`
(or `push`, or `pull`): it resolves its session under the configuration lock and
takes its principal's lock; submits the vault's unacknowledged records, the hub
deciding each; saves the outcomes as the pending envelope; asks the hub for
everything its label may read together with those outcomes; and applies the response
under the vault's apply lock: receipt and manifest first, then each record, then the
success marker, and last it removes the pending envelope. Later pushes replay the
durable receipts to learn what the hub has. An administrator replaces bindings while
no affected principal is at work. A claims route outside the repository turns an open
task into a claimed one. Kickoff packs are built from the vault a pull left behind. The
other components meet through files and records only: revocation receipts suppress
what projections and context packs show, scans and intakes feed a vault, a backup
copies it, imports and adapters add derived records; each is a function or a short
protocol over files that the owner and other programs change at any time.

## 2. Modules

| module | models | 
|---|---|
| `CoordinationRecords` | record relations, what makes a set of records consistent, admission codes, egress and replica checks, as pure operators |
| `CoordinationSync` | hub, vaults, clients and administrator: one action per stretch of code between two points where another process sees shared state |
| `CoordinationUnion` | an abstract specification: one growing consistent union, replicas, and for each a complete reading of a consistent part of it that it also holds; implemented by `CoordinationSync` and `HttpPlane` |
| `FairBatch` | batch selection and the replay of receipts it depends on |
| `ImmutableStore` | the two POSIX installation routines, system call by system call, with dying processes and power failures |
| `AtomicFiles` | an abstract specification: files written whole and in one step, true answers, durability; implemented by `ImmutableStore` |
| `HttpPlane` | the HTTP client against a hub whose answers may be lost or late |
| `Onboarding` | onboarding of one project: its transaction files, retirement and recovery, amid policy changes and plain pulls |
| `Kickoff` | from a hub's answer, page by page, to the pack a session starts from |
| `RepoIdentity` | creation and reading of a repository's identity, freshness, in a checkout that moves |
| `Exchange`, `Revocation` | the two replay ledgers and the calls around them |
| `Projection`, `Context` | publication and search of a vault's records; selection and recall of context packs |
| `Evolution` | candidates and their admission |
| `Scan`, `VaultStore`, `Retention`, `Custody` | trees, vault objects, their backup, and what is said of copies elsewhere |
| `Imports`, `Adapters`, `Archive` | what comes from foreign sources |
| `Release` | preparation, verification and attestation of a release |
| `Knowledge` | the composition of `Exchange`, `Revocation`, `Projection`, `Context`, `Evolution` and `Kickoff` |
| `Stores` | the composition of `ImmutableStore`, `Scan`, `VaultStore`, `RepoIdentity`, `Imports`, `Adapters`, `Archive`, `Release`, `Retention` and `Custody` |
| `MCSync`, `MCSessions`, `MCFairBatch`, `MCHttp`, `MCOnboarding`, `MCKnowledge`, `MCStores` | instances for TLC |
| `CoordinationRecords_proofs` | lemmas about chains, leaves and consistent sets, on which the next two rest |
| `CoordinationSync_proofs`, `HttpPlane_proofs` | theorems about the module of that name, and that it implements `CoordinationUnion` |
| `FairBatch_proofs`, `Onboarding_proofs` | theorems about the module of that name |
| `Knowledge_proofs` | theorems about `Knowledge` and its parts |
| `Stores_proofs` | theorems about the parts of `Stores` that write for good: `ImmutableStore`, `VaultStore`, `RepoIdentity`, `Imports`, `Release`, `Custody` |
| `Observations_proofs` | theorems about those that say what they saw: `Scan`, `Archive`, `Adapters`, `Retention` |

### CoordinationRecords and CoordinationSync

A record stands for an exact (record_id, digest) pair and its body, so equality of
records is equality of pairs. `rev` tells competing genesis revisions of a task
apart, `task` is the TaskPacket's record_id. Only relations and policy decide an
admission here; a body is schema-valid by construction. The order of the codes of
`SubmissionCode` is the order of the checks in the code, so a record with two faults
gets the code the program gives it.

| state | file or variable |
|---|---|
| `hub`, `retained`, `config` | `canonical/coordination`, `policy/labels`, `hub-config.json` of the hub |
| `local[v]` | `canonical/coordination` of a vault |
| `projections[v]`, `marker[v]`, `pending[v]` | `generated/coordination-sync`: receipts with manifests, `last-successful.json`, `pending-submission-outcomes.json` |
| `principalLock`, `taskLock`, `applyLock` | advisory OS locks; they die with their holder and a busy one makes a client's request fail |
| `client[c]`, `admin` | program counter and locals of a process: `label` and `generation` of the resolved session, `seen` the hub snapshot taken at the start of a push, `todo`, `outcomes`, `loaded` the envelope a pull read, `response` |

| action | code |
|---|---|
| `AppendLocal` | a local append in the vault |
| `BindSession` | session resolution and the principal lock, under the configuration lock |
| `LoadOutbox`, `RefusePush` | snapshot of the hub, pending check, candidates; the typed refusals |
| `SettleTask`, `DecideTask`, `TaskLockBusy`, `StoreTask`, `AdmitOther` | the admission loop: duplicates, decision under the task lock, a busy lock (which raises and leaves earlier admissions unreported), the write, other kinds |
| `SavePending` | the pending envelope; `push` ends here, `sync` goes on |
| `BuildResponse`, `RefusePull` | the pull response or `hub-record-invalid` and envelope refusals |
| `RefuseApply`, `ApplyNothing`, `StartApply`, `ExposeRecord`, `AdvanceMarker`, `ConsumePending` | the replica's side, file by file |
| `Crash` | a process dies: locks go, files stay, memory goes |
| `BeginConfigure`, `RetainLabel`, `ReplaceConfig`, `CrashConfigure` | `configure_hub`, all affected locks or none |
| `HubClaim` | the claims route, external: an atomic compare-and-append on the open leaf |

Abstractions. Reading the hub's directory for a snapshot or a response is one step;
the admission decision for a TaskPacket rereads the hub under the task lock, and that
is modelled as the step of its own it is. A receipt and its manifest are one file,
since a reader skips a receipt that lacks its manifest. Timestamps are a small range
a client may pick from in any order, which includes clocks that go backwards. Batch
bounds are in `FairBatch` only: here a push carries all candidates. The configuration
lock is held for one step by a client, and by `admin.pc` for the administrator. A claim
has an id of its own, so `coordination-claim-id-duplicate` cannot be refused.

### FairBatch

A record is its position in the sorted list of paths. One push submits the rotated,
class-ordered records up to the first that does not fit the request, one pull has its
receipt replayed into `known`, `attempted`, the two cursors and `retryFirst`. Any
record fits a request by itself and leaves room, as `MAX_RECORD_BYTES` is an eighth of
`MAX_REQUEST_BYTES`; the run scales both down. What the hub admits is left open.
`CrashedPush` admits but leaves no envelope; `CrashedPull`
leaves a receipt and the envelope, so that the same outcomes are replayed twice.
`waited` and `skips` are history variables, capped at `MaxHistory`, above every value a
property compares them with.

### ImmutableStore

One immutable record path and one replaceable slot in one directory. `disk` and
`volatile` are separate: contents and entries become durable by the file's and
directory's sync, a power failure keeps any subset of the entries not yet synced
together with undefined contents of unsynced files. A reader may look between any two
calls.

### HttpPlane

`sync_http` and `claim_http` against a hub that is foreign code behind a network. The
state is one variable per file or lock (`journal` is `http-pending.json`, `evidence`
what the receipts of a principal add up to, `marker` the receipt `last-successful.json`
names, `transportLock`, `claimLock`) and `client`, the command a process executes.

| action | code |
|---|---|
| `BeginSync`, `RefuseJournal`, `ResendJournal`, `WriteJournal`, `SubmitNothing` | the journal: refuse, resend, or write the batch before the first request names it |
| `HubDecide`, `HubAnswer`, `NextPage` | the hub decides the batch record by record and answers with a receipt and pages (external) |
| `FinishPush`, `RefuseApply`, `ApplyNothing`, `PublishReceipt`, `AdvanceMarker`, `UnlinkJournal` | verification and the local projection, which alone consumes the journal |
| `BeginClaim`, `StartPull`, `PullBusy`, `CheckTask`, `HubClaim`, `VerifyClaim`, `RefuseTask` | a claim between two pulls |
| `Abandon`, `LateEffect` | a timeout, a lost answer or a dying process; what the hub still does of the request |

Abstractions. A request the client gave up leaves its remaining effects in `late`, where
the hub may perform each at any time or never; a lost answer is the case in which
it already did. Which candidates form a batch is `FairBatch`; here any non-empty set of at
most `MaxBatch` may. Receipts carry the hub's own time, so answers are ordered as
given; that two fall into one second is a choice of `RefuseApply`. Label and hub of a
principal do not change (`CoordinationSync` has the change of policy). The projection
is applied in two steps, receipt and then records with marker; all its steps are in
`CoordinationSync`. Pages are counted, and that all carry one receipt is assumed. The
wire format is left out.

### Onboarding

One project, one vault, a local hub (lines of `coordination_onboarding.py` and of
`sync` and `recover_matching_sync_result`). Each durable file is a variable: `attempt`,
`checkpoint`, the archives `failedAttempts`, `failedSyncs`, `staleAttempts`, `publication`,
the four `outputs` in their order, and the vault's `receipts`, `marker`, `pending`.

| action | code |
|---|---|
| `Begin`, `Enter` | lookup of the binding, then the wait for the onboarding lock |
| `RefuseState`, `ResumePublication`, `FinishFailed`, `RetireStale`, `Proceed` | what the files found say: conflict, publish again, finish an interrupted retirement, retire an obsolete attempt, or go on |
| `Bind`, `RefuseBind`, `Admit`, `RefusePush`, `SavePending`, `RetainCheckpoint` | the sync under the principal lock, with the two hooks that write attempt and checkpoint |
| `RefuseApply`, `ApplyNothing`, `PublishReceipt`, `AdvanceMarker`, `Consume` | application of the response, after the sync or in recovery |
| `Recover`, `RefuseRecover` | recovery from the retained checkpoint |
| `RetireFailed`, `ArchiveSync`, `UnlinkSync`, `UnlinkAttempt` | retirement of a rejected attempt, file by file |
| `Publish`, `WriteOutput`, `Bootstrapped` | publication and its outputs |
| `Crash`, `Reconfigure`, `Deliver`, `Pull` | a dying process, a policy change, another vault's delivery, a plain pull |

Abstractions. The repository identity and the vault exist, and the label names the
project. A record is admitted once the records it requires are in the hub. Reading the
transaction files is one step, since the onboarding lock excludes their writers. Outputs
without publication cannot occur, so the refusal of partial outputs does not either. The
contents of packs are left out. Every command has a time of its own: a user who
repeats a failed attempt with its old time is refused with typed conflicts until a
later pull, which the model leaves out.

### Kickoff

| action | code |
|---|---|
| `Admit`, `Rebind`, `Onboard`, `AppendLocal` | others: what the hub admits and shows, label configuration, identity links, local appends |
| `BuildPullResponse`, `VerifyResponse` | the pages of an answer, possibly cut, repeated, swapped or mixed on the way, and their verification |
| `BeginApply`, `WriteRecord`, `PublishMarker`, `PullerDies` | application, file by file |
| `LoadOnboardedProject`, `OpenKickoffPack`, `OpenContextPack`, `ClosePack`, `SessionDies` | lookup by display name, the two reads under the projection lock, the pack |

The hub is reduced to what it would admit and show. The byte limit of a page is a limit
on records, and the records a pull excludes are whatever count `BeginApply` is told.
`hub`, `time` and `issued` say what memberships a pack may be true to.

### RepoIdentity

A directory stands for an inode, so `at` is what the path names now; `working` and
`head` are the manifest and commit of each checkout. `settled` collects, for each call,
what was true at some moment since it began. Others: `EditManifest`, `MoveHead`,
`MoveRoot`. Creation: `VerifyRoot`, `FindManifest`, `LinkManifest`, `ReadBack`,
`ConfirmManifest`. Loading: `ReadIdentity`, `PinCommit`, `CompareCommitted`, `LoadIdentity`. Freshness:
`ReadHead`, `CheckProject`, `CompareHead`, `AnswerFreshness`. `Die` ends a process
anywhere. git's answers are functions of a commit.

### Exchange and Revocation

`Exchange`: `RefuseCopy` a damaged copy, before the claim; `Claim`, `Duplicate`,
`LedgerFails` the replay ledger; `Decide` the ordered checks, conflicts and
resolutions; `Crash` between the two; `Tick` and `Restock` the world. The independent
reader's verdict is an operator on the same bytes, its loop over the bundle a recursive
function of how many items it has looked at, so that both can be compared on every
envelope. `Revocation`: `StartOpen`, `OpenStatement`, `Opened` open the ledger
statement by statement, so that one that dies leaves a prefix the next completes; `Reject`, `AnswerOther`,
`AnswerUnavailable` answer without it; `StartRetain`, `Retain`, `Return` retain the
first receipt in one immediate transaction and return what is stored; processes die
anywhere.

### Projection and Context

`Projection`: `Stage` builds the three files, `ReplaceRecords`, `ReplaceIndex`,
`ReplaceReceipt` install them, `PublisherDies` leaves a mixture; `Open`, `Snapshot`,
`Search`, `RefuseSearch`, `Close` a reader, who looks at the index alone; `Forge`
alters the index in place. `settled` is what the last undisturbed publication left.
`Context`: `Export` and `Recall`, each a function of one input; the inputs range over
revisions, lifecycles, revocations, sensitivity, freshness, evidence and versions.

### Evolution

`Build` and `Admit`. The code returns records and leaves their storage to its caller
(`docs/contracts/v0-record-evolution.md`), so the store is external: it persists a
result in the step that asked for it. A candidate has up to `MaxRelations` relations,
among them two that supersede one record, which is a conflict.

### Scan

A tree of nodes with stamps; `Rewrite`, `Create`, `Delete` are others' changes.
`BeginScan`, `OpenDirectory`, `ListEntry`, `CloseDirectory`, `TakeEntry`, `OpenFile`,
`CloseFile`, `Cancel`, `StopAtEntryLimit`, `FinishScan` read it between `lstat` and
`fstat` pairs; `queue` is the set of entries of the listed directories that are yet to
be handed out, in the order of names (`NextItem`). `Compare` is a verification or a
diff, `RefusePolicy` the refusal to compare manifests of two policies. `unmoved` and `existed` are history variables: what stood still since the
scan began, and what was there at some time.

### VaultStore

`Quarantine`, `RefuseMetadata`, `Register`, `Verify`, `WriteArtifact`, `WriteVersion`,
`Die` an intake; `Rot` decay; `BeginBackup`, `CopyFile`, `PublishBackup`,
`AbandonBackup` a backup taken while intakes go on; `Damage` of the medium;
`BeginRestore`, `Occupy`, `FinishRestore` a restore that hashes the file in one reading
and decrypts it in another. `told` is what intakes answered. The temporary files of intakes
under way, which a backup lists with the others, have no names here: one that is gone is
a reason for `AbandonBackup`, one that is copied restores as it was copied and is no file
of the vault.

### Retention and Custody

`Retention`: `Arrive`, `Describe`, `Request` over sequences of observations;
`content_retrievability` is a loop over them (a recursive function), checked against
what the set of observations says. A contradiction of two observations of equal time is
raised when the loop meets it, even if a newer one follows, but not if the newer one came before.
`Custody`: `Migrate` and `Preflight` between `EditEndpoint` and `EditAdapter` of the
owner, who may fill in any field in any order.

### Imports, Adapters and Archive

`Imports`: `ReadLedger`, `TakeLock`, `Preflight`, `WriteRecord`, `ImporterDies` the
ledger import; `BeginBundle`, `FillBundle`, `RefuseExisting`, `LookAgain`,
`RenameBundle`, `WriterDies` a bundle; the owner may `EditLog`, `TouchFile`,
`TouchOutput`. `Adapters`: the scanner's `WriteFile`, `OpenIndex`, `CloseIndex`,
`LoseFile`, `LinkFile` against `BeginPacket`, `CopyNext`, `BindPacket`; and
`EditRecord` against `Ask`, `ProviderAnswers`, `BindProjectionV2`, `BindProjectionV1`.
`Archive`: `Rewrite` and `Replace` by others, `Open`, `ListDirectory`, `ReadEntries`,
`HashAgain`, `CheckName`. Comparing endpoints cannot see a container that was
rewritten and rewritten back in between, so the receipt's promise is about containers
that were not (`returned` marks them).

### Release

`Prepare`, `PublishOutput`, `PreparerDies`; `BeginVerify`, `CheckTag`,
`SnapshotAssets`, `ReplayAsset`, `SnapshotAgain`, `GiveReceipt`; `BeginAttestation`,
`CompareSubject`, `Attest`. Others: `EditStaged`, `Clear`, `SignTag`, `Checkout`,
`EditSigners`, `Publish`, `EditPublished`. What git archives of a commit, and what
openssl or ssh verify of a signature, are functions of the commit and of the bytes. As
in `Archive`, a file edited and edited back is marked. The three artifacts are
snapshotted in one step, since each is compared with a constant of the verification;
`SHA256SUMS` is compared with the lines of the manifest there too, and a manifest that
lists another digest of it than that of its own lines, which the code refuses, has no
value. A reproduction is made in a directory of its own, and the receipt published beside the
assets is not edited.

## 3. Runs

| run | instance | shows |
|---|---|---|
| `sessions` | four cases, see below | the hub stays readable (`EgressNeverFails`); no vault believes an undelivered record delivered (`EvidenceIsTrue`); requests run under the binding in force (`BindingInForce`); provenance precedes exposure (`ReceivedHasProvenance`); a later response of one principal, label and generation shows what any marker of it does (`ScopeNeverShrinks`); a pending envelope goes only into a receipt of its principal (`PendingAcknowledgedFirst`); `TypeOK` |
| `receipts` | one vault, a task, a fitting and an unfitting WorkReceipt, two times, all phases | what a label may read always passes the replica's checks (`AuthorizedSetsVerify`); the plane implements `CoordinationUnion` (`ImplementsUnion`) |
| `vault` | processes of two principals on one vault, two times | the marker is backed (`MarkerBacked`), and moves forward over responses built in one order and applied in another (`MarkerMovesForward`) |
| `ends` | as `vault`, with one time | bound requests end under fairness (`RequestsEnd`) |
| `fair` | 3 records, requests of 2 records or 4 bytes, records of 1 or 3 bytes, 2 crashes | `NoClassStarved`, `BoundedBypass`, `RetriesRecur` |
| `http` | 2 processes of one principal on one vault, one claimable task another vault delivers too, pages of one record, 2 disturbances | every submission is accounted for by a durable journal or receipt (`JournalGoverns`); paged answers are never overtaken (`AnswerNeverOvertaken`); the journal ends only by being reported (`JournalSettled`); batches and claims recover (`JournalReconciled`, `ClaimRecovered`) |
| `onboarding` | 2 processes, 2 labels, a record that lacks its prerequisite until another vault delivers it, 3 disturbances (crashes, policy changes, deliveries, pulls, commands of the second user) | `PublicationBacked`, `EvidenceArchived`, `OnboardingCompletes` |
| `knowledge` | the modules `Exchange`, `Revocation`, `Projection`, `Context`, `Evolution`, `Kickoff` | types (`KnowledgeTypeOK`); one call decides an envelope (`DecidedOnce`) and accepts what was declared, as the independent reader does (`AcceptanceHonest`); `FirstAcknowledgementStands`; `SearchPinned`; `PacksHonest`; `SuccessionUnforked` |
| `stores` | the modules `ImmutableStore`, `Scan`, `VaultStore`, `RepoIdentity`, `Imports`, `Adapters`, `Archive`, `Release`, `Retention`, `Custody` | types (`StoresTypeOK`); `ReadersSeeWhole`, `ToldIsStored`; what is said of trees, containers, packets and copies (`ObservationsHold`); racing writers converge (`WritesConverge`); `RestoredAsReceipted`; `AnswersTrue`; `ReleaseBound` |
| `envelope` | as `onboarding` | expected violation, see findings |
| `overwrite` | as `ends` | expected violation, see findings |
| `alternate` | requests of one record, one crash | expected violation, see findings |

`knowledge` and `stores` hold several components that share no state, composed by
`Knowledge` and `Stores`. Their variable `part` is chosen in the initial state and
selects one component; the variables of the others rest at one value, so a behaviour is
a behaviour of that one component, and the states are the sum and not the product of
theirs. `Knowledge` extends `Exchange` and `Stores` extends `ImmutableStore`, whose
variables are their own; the others are instances. `MCKnowledge` and `MCStores` give
every constant one value. Where a component would have too many states if everything it
does were mixed, their variable `setting` confines a behaviour to a part of it:
intakes that race, or a vault that is backed up; creations of an identity, or its
readings; and so on. A setting only takes behaviours away, so what is checked are
behaviours of the composition itself, with its own type invariant and properties.
A property of such a run is the conjunction of what each part promises. These two
runs do not check for deadlock: their inputs, calls and changes are bounded and run out.

`MCSessions` composes four cases by `case` in the same way: "compete", two principals on
two vaults with two genesis revisions of one task; "sessions", two processes of one
principal on one vault; "receipts", a process that delivers a task and WorkReceipts
about its claim, judged against its snapshot while the claim is made; "policy", a
principal bound to a wide label, a narrow one or none, in two generations, while a task
travels. So each way a hub could become unreadable (a stale view of a task or of a
claim, a label in force and not retained) is open in the run that checks
`EgressNeverFails`: a decision on an old snapshot, a WorkReceipt admitted beside an open
task, and a binding that takes effect before its label is retained each break it.

Bounds, and why they are enough. The bounds of `knowledge` and `stores` are at the
settings in `MCKnowledge` and `MCStores`: two processes for every race (receivers,
publishers, intakes, creators, importers, preparers), and two changes by others, so that something can change between two reads and
again before the next (one where racing creators, importers or preparers are the question). `Exchange` has two records and bundles
that are whole, partial, doubled, out of revision, too sensitive or invalid; `Retention` three observations of two
locations at two times, which is the least that can tell the order of arrival from the
order of time; `Archive` all containers of two entries over eleven shapes of
entry; `Scan` a directory and names that fold alike. Two of each kind of contender (principals, processes,
revisions, labels) suffice for a race, and every lock is checked with its two
contenders present; crashes are unbounded in `MCSync` since they only return a
process to idle. `MaxTime` is 2 where the order of observations matters: with one
time every response but the one a marker has is refused as stale, and no marker could
move. `MaxGeneration` is 1 where policy changes. Three records and requests of two make
both classes non-empty while one is cut off. The passing runs fire every action,
refusals included.

`BoundedBypass` lets a fresh record wait a `Round` of `2 * N - 1` pushes, and a retry
another `Round` for each crash. A crash makes a second receipt report one batch; its
records that were fresh now count as retries and move the retry cursor, and a retry
just behind that cursor waits for a whole turn again. With three records no wait comes
near the bound; one crash too many for a bound of one push per crash shows with eight
records, one to a request, and three crashes, which is out of this run's reach. That the
bound holds for all sizes is proved (section 4).

Fairness. `CoordinationSync!FairSpec` assumes only that a process that bound a
session keeps executing its own steps unless it crashes (weak fairness of
`PushStep \/ PullStep`): that is the scheduler of the operating system, no lock wait is
involved since a busy lock fails the request. Starting requests, crashes, appends and
the administrator get none. `FairBatch!FairSpec` assumes that syncs keep being
requested, which is the contract's own premise for its promise of recurrence; the
two crashes are bounded because a process that crashes for ever recurs nothing.

`HttpPlane!FairSpec` assumes that a process keeps running and that the hub answers
unless the request fails (weak fairness of a client's own steps), and that the user of
a `Steady` client never stops asking for pulls and for the claim (strong fairness,
because the other process may hold the lock at any one moment; a command refused
`busy` is repeated by its user). Failures, and commands of clients that are not
steady, together are at most `MaxDisturbances`: for ever failing requests recover
nothing.

`Onboarding!FairSpec`: a process keeps running, and the steady user repeats the command
(strong fairness, as another process may hold the principal lock for a moment).
`OnboardingCompletes` speaks of behaviours in which prerequisites are in the hub for
good and none of the hard conflicts named in
`docs/onboarding/coordination-project-onboarding.md` stands. The run does not check for
deadlock: a user told of a rejected record may wait for its prerequisite for ever.

### Findings

1. `overwrite`: `docs/contracts/v0-coordination-plane.md:209` says a non-empty pending
   envelope "cannot be overwritten by a later request". The check (1922) and the
   replacement (2033) are only covered by the lock of one principal, so a push of a
   second principal from the same vault, which checked before the first saved its
   outcomes, replaces them. For the processes of one principal the promise holds
   (`PendingAcknowledgedFirst` in `sessions`).
2. `alternate`: the comment at 1945-1948 says the classes alternate in leading the
   batch. A crash between the success marker (2583) and the consumption of the
   envelope (2760) makes the next pull publish a second receipt with the same
   outcomes; replayed, it makes fresh records look like retries and fresh records lead
   twice in a row. Each crash costs a class one turn and no more (`NoClassStarved`).
3. `envelope`: the docstring at 1855 says that only the envelope included in a
   successful pull is removed. An onboarding attempt keeps its time; a plain pull with a
   later time between two runs makes the retained response older than the vault's view.
   It is refused as `sync-receipt-stale` after its checkpoint was written, and the next
   run recovers from the checkpoint without applying it (2939): the envelope goes, and
   the bootstrap names a receipt, and counts records, that the vault never got.
   Executing those four commands against the code confirms it.

## 4. Proofs

The theorems hold for arbitrary sets of clients, principals, vaults, records, paths,
receivers or intakes, and for any number of crashes, losses, policy changes and
disturbances: none assumes a number. What they assume of the constants is named in the
module that declares them:

- `SyncAssumption`, `RecordAssumption`, `PolicyAssumption` (`CoordinationSync`): records
  refer to constants, open revisions have their successors, records and labels are
  finitely many; `HttpAssumption` and `OnboardingAssumption` say the same of theirs, the
  latter that records are finitely many because it counts them.
- `StoreAssumption`: immutable paths and slots are different paths. `BatchAssumption`:
  each record fits a request by itself, as `MAX_RECORD_BYTES` < `MAX_REQUEST_BYTES`.
  `EnvelopeAssumption`: what the envelope's schema says, pairs and a list of items.
- The `NoFileAssumption` of four modules: the value for "no file" is no file. Without
  it, a written file could read as missing.
- The other components state what their theorems ask of the constants as a definition
  (`RepoConstants`, `ImportConstants`, `ReleaseConstants`, `CustodyConstants`,
  `ScanConstants`, `ArchiveConstants`, `AdapterConstants`, `RetentionConstants`,
  `ContextConstants`, `KickoffConstants`, `EvolutionConstants`, `BodiesExist`, `NoFile \notin Files`), which is
  the hypothesis of the theorem; `StoresConstants` and `KnowledgeConstants` collect them.
  They say that inputs have the form the code reads: records have their fields, a
  container is a sequence of entries, nothing exists outside a directory, a bound is a
  number, and what stands for "nothing" is no value. `MCStores` and `MCKnowledge` assume
  them of what they check, so TLC evaluates each.
- `OnePrincipalPerVault` limits `PendingNeverLost` to
  vaults one principal uses, because with two the promise is false (finding 1).

Each argument starts from an invariant that every step keeps; the property is seldom
one by itself.

**`CoordinationSync`.**

- `TypeCorrect`. The invariant adds to `TypeOK` what a process's program counter says of
  its locals (`Typed`): for example that `response` is a receipt once the counter is
  past `pull`, without which `AdvanceMarker` could store `None` fields.
- `BindingStaysInForce`. `ReplaceConfig` would break `BindingInForce` for a running
  request. `Locked` says that a bound client holds its principal's lock, that an
  administrator at work holds the locks of all principals bound in either table, and
  that a principal outside both tables has no request; so at `ReplaceConfig` no bound
  client belongs to an affected principal.
- `HubStaysReadable` (`EgressNeverFails`). `HubInv` carries to every later step what was
  decided earlier: labels in force are retained; at most one client holds a task's lock
  and what it decided still holds when it stores; a WorkReceipt decided against the
  snapshot `seen` still fits the present hub, because a claimed leaf is final, the hub
  only grows, and a snapshot is a subset of it. The lemmas about chains (what adding a
  genesis or a successor revision does to a chain and its leaves) are proved separately
  over the record operators.
- `ReadingsVerify` (`AuthorizedSetsVerify`): what any label may read of such a hub
  passes the replica's checks.
- `EvidenceStaysTrue`, `ProvenanceFirst`, `MarkerStaysBacked` (`EvidenceIsTrue`,
  `ReceivedHasProvenance`, `MarkerBacked`) and the action property `MarkerNeverGoesBack`
  (`MarkerMovesForward`). `VaultInv` says of every receipt, durable or still in a
  request, that it is the complete reading of a consistent part of the hub under its own
  label, which stays true as the hub only grows; and that the apply lock makes the
  marker a request compared the marker it replaces.
- `ResponsesNeverShrink`: a later response of the same principal, label and generation
  contains what any marker of them shows (`ScopeNeverShrinks`). The lock of the principal
  keeps its markers still from the reading of the hub to the new marker.
- `PendingNeverLost`: an envelope with outcomes goes only once a durable receipt of its
  principal carries exactly these (`PendingAcknowledgedFirst`); the principal lock makes a
  bound request the only one of its vault.
- `SyncImplementsUnion`: `Spec => ImplementsUnion`, the refinement of `CoordinationUnion`.
  Every step is an admission, a reading, an exposure or a stutter there; `VaultInv`
  supplies the consistency that the abstract actions demand.

**`FairBatch`.** `TypeCorrect`, `ClassesServed` (`NoClassStarved`), `RecordsGetTheirTurn`
(`BoundedBypass`). Candidates have different positions, so the one in front fits in every
request and the class that leads is served. `BatchInv` says when the next receipt gives
the lead to fresh records and when to retries, and that only a crash withholds that
turn. `BypassInv` bounds the pushes that passed over a record by twice the way the cursor
of its class has come, and one more if the class leads: a push that passes over it moves
that cursor towards it or leaves its class the lead, and only a second receipt of one
batch moves the cursor anywhere else, that of the retries alone.
Proving this replaced an earlier bound of one push per crash, which does not hold (see
section 3).

**`HttpPlane`.** `TypeCorrect` (an idle command is empty, one past its pages has the
receipt they carried, a claim, also a late one, is for an open revision),
`SubmissionsGoverned` (`JournalGoverns`),
`AnswersAreCurrent` (`AnswerNeverOvertaken`), the action properties `JournalsSettle`
(`JournalSettled`) and `ViewsNeverShrink` (a vault's view never loses a record or passes
to another principal), and `ClaimsAreHeld`: a user is told of a claim only when the hub
holds it. `PlaneInv`: from its journal to its marker a synchronisation is the only one of
its vault, by the transport lock, so the journal names exactly the records not yet
decided and those its outcomes report, a request that arrives late is among them, and
the view an answer was compared with is the one it replaces.

`AnswersStayVerifiable` (`AnswersVerify`): no complete answer of an honest hub fails the
replica's check of its relations. `HttpImplementsUnion`: `Spec => ImplementsUnion`, the
same `CoordinationUnion` the local plane implements. `UnionInv`: each history of the hub
is empty, a genesis, or a genesis and its claim, and each WorkReceipt fits it, whatever
arrives late (the hub decides by its state when a request arrives, not when it was
sent); whatever a command, a journal or a late request names lies in its vault, so an
admission is one of a replica's record; and an answer is the complete reading of a part
of the hub that was consistent, which the vault stores with the view. A restart, a lost
answer or a late effect is a stutter or an admission there. Both properties can be
checked by adding them to `MCHttp.cfg`; the run `http` leaves them to the proof.

**`Onboarding`.** `TypeCorrect` (a command has the locks of its step, and in memory exactly
the active attempt and checkpoint), `PublicationsBacked` (`PublicationBacked`), the action
property `EvidenceStays` (`EvidenceArchived`). `OnboardingInv`: the command that holds the
onboarding lock finds the attempt, checkpoint and publication as it left them; what one
that died left behind is held together by the files alone (`ActiveOK`: a checkpoint
never outlives its attempt and names its label, and its outcomes are the hub's).

**`ImmutableStore`.** `TypeCorrect`, `NamesShowWholeFiles` (`ReadersSeeWhole`),
`ReportsStayTrue` (`ToldIsStored`), and `ImmutableStays`: a visible record is never
replaced by other bytes. `StoreInv` follows a temporary file through filling, sync,
link and directory sync, and says of each outcome what memory and disk then hold.
`InstallationIsAtomic`: `Spec => ImplementsAtomicFiles`. A path reads as the bytes of its
file, or, were the file partly written, as no content at all; the link or rename is the
abstract step that puts it, the return the answer, everything else a stutter. It is
why the other modules may write a file of these routines in one step.

**`VaultStore`.** `IntakesNeverDisagree` (`IntakesAgree`, a conjunct of `WritesConverge`,
and the module's `TypeOK`) and `RestoresReceipted` (`RestoredAsReceipted`).
`VaultStoreInv`: an intake past its first record has that record in the vault, only
objects rot, copies hold only what the vault held, and a restore that decrypts has a
backup file in front of it.

**`Exchange`.** `TypeCorrect`, `EnvelopeDecidedOnce` (`DecidedOnce`), `AcceptedAsDeclared`
(`AcceptanceHonest`). `ExchangeInv`: while the reference is free or a receiver is
between its claim and its answer, nothing was decided; what a receipt accepts was
computed from the envelope. `AcceptanceHonest` has a second half that no behaviour
enters: the independent reader's loop decides every bundle as the reference's set
expressions do. It is proved for bundles of any length, by the least number of items
after which the two would differ (`LeastExists`): induction over numbers is in the
prover's reach in this form, although the induction theorems of its library are not.

**`Revocation`.** `FirstAcknowledgementKept`: a retained receipt is never replaced, and a
process carries the retained one or one the ledger has yet to see (`RevocationInv`).
`RevocationsKeepTypes` adds what a process holds at each of its steps.

**`Evolution`.** `SuccessionStaysUnforked`: an accepted candidate is seen and what it
superseded stays superseded, so that neither is taken twice (`EvolutionInv`).
`RevisionsKeepTypes`: what is kept are whole revisions, and never a draft.

**`Projection`.** `SearchesPinned`. `ProjectionInv`: what an undisturbed publication
replaced is still there until it ends; a search holds an index whose digest is the
settled one, if there was one, and the gate lets no altered index answer. The types of
the module are part of the theorem, as in those that follow.

**`Context`.** `PacksStayHonest` (`PackHonest`): an export that succeeds raised no
objection, and every objection the independent reader could raise to such a pack is one
the export raises; the verdicts part the records, so that the selection, the suppressed
and the counts add up, for inputs of any size.

**`Kickoff`.** `PacksStayTrue` (`PackTrue`). `KickoffInv`: pages that verify hold exactly
the pairs their receipt names, each once, so whatever was cut, repeated, swapped or mixed
on the way, what is applied is what the hub issued; the projection lock keeps the marker
while a pack is open, so its two reads see one membership; and among finitely many
open tasks one has the highest id. The module's types need that the records a puller
has yet to write are its answer's, and that a marker covers records the vault has.

**`RepoIdentity`.** `IdentitiesStayTrue` (`AnswersTrue`). `RepoInv`: a manifest is linked
only where there is none, so that a racing creator reads back its own or the winner's;
what was read at the commit a call pinned is true for ever, as a commit names its
content; and what was read of the checkout was true when `settled` took it.

**`Imports`.** `ImportsStayConvergent` (`ImportsConverge`). `ImportInv`: from its preflight
to its last write an import holds the lock, so an untouched file is as it expects. The
records of a ledger are all different, and each comes after those of the earlier
occurrences of its entry; so an import that dies anywhere leaves records the next one
takes for duplicates, and a record is credited once. For bundles: an output that exists
is refused, so the one told written stays.

**`Release`.** `ReleasesStayBound` (`ReleaseBound`). `ReleaseInv`: a staged asset is still
what the first snapshot found, or was replaced, and then the second snapshot differs
unless the old bytes came back, which `returned` marks; between the two each asset was
compared with what the tagged commit makes. The first attempt failed for a reason:
`past` did not record what a publication replaced after an output was cleared, so with
three changes, one more than the run has, a file could come back unmarked. TLC confirmed
the counterexample, and `Clear` and `PublishOutput` now record it.

**`Custody`.** `OnlyOwnerReadies` (`ReadyByOwner`): a migration carries no authorization
over, so an endpoint that authorizes a write was filled in by its owner.

**`Scan`.** `ManifestsAccount` (`CompleteAccounts`). `ScanInv` has two halves. What was
read is true: a directory whose stamp did not move between the two looks was listed
whole, a file whose stamp did not move was read whole. Nothing is lost: while no failure
is on record, a path that stood still has its entry, is in `queue`, or lies below a
directory that still waits, and each directory waits once. At the end nothing waits; a
shortest path without an entry would lie in a directory that has one, which was listed.

**`Archive`.** `ReceiptsOfOneContainer` (`ReceiptOfContainer`). `ArchiveInv`: equal hashes
before and after mean the container was not rewritten, or came back. That what one
inspection says agrees with a definition without an order of inspection
is an invariant of the loop over the entries, for containers of any length.

**`Adapters`.** `AdmittedStaysOne` (`AdmittedIsOne`). `AdapterInv`: an index is of one scan
and agrees only with that scan's manifest and facts, so the comparison of the copies
decides, whenever each was made; a projection is bound to the request that is rebuilt
from the records.

**`Retention`.** `SummariesStayHonest` (`SummariesHonest`): the loop holds the latest
observation of each location among those it has met, for any list.

The induction theorems of the library take an operator, which is out of the prover's
reach. `LoopExists` shows that the values of a loop exist, so that the recursive
functions of `Archive` and `Retention` satisfy their equations, and `StaysIn` that what
each turn preserves holds after every turn, both by looking at the first turn at which
it would not.

**`Knowledge` and `Stores`.** The properties of the two runs are stated of the
compositions: `SearchesStayPinned`, `FirstAcknowledgementsStand`,
`SuccessionsStayUnforked`, `PacksStayHonestAndTrue` (`PacksHonest`),
`ObservationsStayHonest` (`ObservationsHold`), `WritesStayConvergent`
(`WritesConverge`), `RestoresAndEndpointsStayHonest` (`RestoredAsReceipted`),
`AnswersStayTrue`, `ReleaseStaysBound`. Each follows from the theorems above: a step of the
composition is a step of the chosen part and leaves the others, and `part` never
changes. `KnowledgeTypesHold` (`KnowledgeTypeOK`) and `StoresTypesHold` (`StoresTypeOK`)
join the types of all parts in the same way. A type here says of an unfinished call what
its step reads: the records a receiver had when it claimed, the index a search opened and
its receipt, the answer a puller applies; the queue and entries of a scan, what an
inspection listed, the files a verification's manifest lists, the subjects an attestation
compared, the request of an import or an intake. Histories that no step reads are typed
only where an argument needs it.

Model-checked only: liveness (`RequestsEnd`, `RetriesRecur`, `JournalReconciled`,
`ClaimRecovered`, `OnboardingCompletes`), which is beyond this prover. Every invariant
and every action property of a passing run, and every refinement, is proved.

## 5. Not modelled

The reason for each component is in `components` of PROJECT.json.

- Byte formats: canonical form, schemas, validator, extensions, signatures
  (`canonical.py`, `validator.py`, `extensions.py`, `authenticity.py`). A record is
  valid by construction or not, and is its own digest. Fixed vectors test
  these functions; no property here depends on their bytes.
- Functions of one document or one call: `lineage.py`, `artifact_lineage.py`,
  `resolver.py`, tombstones, retention timing and custody receipts, adapter manifests.
  Each validates or builds one document from its arguments, keeps no state and
  meets no other actor; a model of it would repeat its body.
- Older versions beside those modelled: v1 exchange admission, whose checks are
  a subset of v2's, and the v1 codex import.
- What packs say: bootstrap packs, the wording of a kickoff prompt.
- Checks of single path components for links and special files
  (`_read_local_regular_file`, `_validate_storage_root`), which answer one system call;
  the Windows branches of file installation and manifest creation.
- Foreign programs: openssl, tar, git, restic, ssh. They are functions of their
  input, or choices where they may fail.
- Sequential tooling: command line, benchmark, platform probes, conformance drivers and
  slices, scripts, release metadata tables. They call the components above one after
  another and compare results.
- The servers of the HTTP plane and of the claims route, which are not in the
  repository: they are modelled as far as the client relies on them.

Four hazards of PROJECT.json have no property; their notes say why: what would be
promised is stated nowhere in the repository.

## 6. Plan

The exchange of records through a hub under concurrency and crashes came first, then
the components that read and write files and records around it; then the
theorems of section 4, which now cover every safety property of the passing runs. What
is left:

1. action properties of the components around the plane, as `ImmutableStays` and
   `ViewsNeverShrink` are: what a publication, a restore or a bundle never replaces;
2. refinement of `AtomicFiles` by the other writers of files (`repo_identity.py`,
   `session_ledger.py`, `projection.py`), whose installation is one step in their modules;
3. the Windows branches, should they be modelled: a write-through move in place of link
   and directory sync, against the same `AtomicFiles`.
