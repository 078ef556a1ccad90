-------------------------- MODULE CoordinationSync --------------------------
(***************************************************************************)
(* One local-path hub, the vaults that push to it and pull from it, and    *)
(* the administrator who replaces its bindings (coordination_sync.py).     *)
(*                                                                         *)
(* A client is one process running sync, push or pull for one session      *)
(* over one vault.  Each action is the code between two points where       *)
(* another process can see or change shared state: a lock taken or         *)
(* released, or a file installed.  Every file is installed atomically      *)
(* (module ImmutableStore), every lock is an advisory OS lock that a       *)
(* refused or crashed process loses, and no lock request of a client       *)
(* waits: a busy lock makes the request fail.                              *)
(***************************************************************************)
EXTENDS CoordinationRecords

CONSTANTS
  Client,           \* processes
  Vault,
  VaultOf,          \* VaultOf[c]: the vault a client works on
  PrincipalOf,      \* PrincipalOf[c]: the principal its session is bound to
  Bindings,         \* the binding tables an administrator may install
  InitialBinding,
  Drafts,           \* Drafts[v]: the records the users of v may append
  Phases,           \* the phases requests ask for
  MaxGeneration,    \* bound on scope_generation
  MaxTime,          \* bound on completed_at
  Admin,            \* the administrator, as a lock holder
  None              \* no record, no label, no holder, no file

VARIABLES
  hub,            \* records under the hub's canonical/coordination
  retained,       \* label revisions under the hub's policy/labels
  config,         \* hub-config.json: [binding, generation]
  local,          \* local[v]: records under the vault's canonical/coordination
  projections,    \* projections[v]: receipts with their membership manifest
  marker,         \* marker[v]: the receipt last-successful.json names
  pending,        \* pending[v]: pending-submission-outcomes.json
  principalLock,  \* principalLock[p], taskLock[t], applyLock[v]: the holder
  taskLock,
  applyLock,
  client,         \* client[c]: the request a process is executing
  admin           \* the configuration replacement in progress

hubVars == <<hub, retained, config>>
vaultVars == <<local, projections, marker, pending>>
lockVars == <<principalLock, taskLock, applyLock>>
vars == <<hubVars, vaultVars, lockVars, client, admin>>

Time == 1 .. MaxTime

Generation == 0 .. MaxGeneration

BindingTables == [Principal -> Label \cup {None}]

ASSUME SyncAssumption ==
  /\ VaultOf \in [Client -> Vault]
  /\ PrincipalOf \in [Client -> Principal]
  /\ Bindings \subseteq BindingTables
  /\ InitialBinding \in Bindings
  /\ Drafts \in [Vault -> SUBSET Record]
  /\ Phases \subseteq {"push", "pull", "both"}
  /\ MaxGeneration \in Nat
  /\ MaxTime \in Nat
  /\ Admin \notin Client
  /\ None # Admin
  /\ None \notin Client /\ None \notin Label /\ None \notin Record
  /\ None \notin Phases

\* What a process remembers between steps; Idle outside a request.
Idle == [pc |-> "idle", phase |-> None, label |-> None, generation |-> 0,
         todo |-> {}, seen |-> {}, current |-> None, outcomes |-> {},
         loaded |-> None, response |-> None]

NotConfiguring == [pc |-> "idle", next |-> None, todo |-> {}]

-----------------------------------------------------------------------------
(***************************************************************************)
(* Helpers                                                                 *)
(***************************************************************************)

V(c) == VaultOf[c]

P(c) == PrincipalOf[c]

Bound(binding) == {p \in Principal : binding[p] # None}

LabelsOfEveryone(binding) == {binding[p] : p \in Principal}

LabelsOf(binding) == {binding[p] : p \in Bound(binding)}

\* Pairs whose admission the vault holds durable evidence of.
Known(v, p) == Evidence(projections[v], p)

Goto(c, s) == client' = [client EXCEPT ![c] = s]

ReleaseLocks(h) ==
  /\ principalLock' = [p \in Principal |->
                         IF principalLock[p] = h THEN None ELSE principalLock[p]]
  /\ taskLock' = [t \in Task |-> IF taskLock[t] = h THEN None ELSE taskLock[t]]
  /\ applyLock' = [v \in Vault |-> IF applyLock[v] = h THEN None ELSE applyLock[v]]

\* The request ends, with a result or with a typed failure.
Finish(c) == Goto(c, Idle) /\ ReleaseLocks(c)

-----------------------------------------------------------------------------
(***************************************************************************)
(* Local work                                                              *)
(***************************************************************************)

\* A local append.  A WorkReceipt quotes the digest of an existing revision.
AppendLocal(v, r) ==
  /\ r \in Drafts[v] \ local[v]
  /\ r.kind = "receipt" => r.ref \in hub \cup local[v]
  /\ local' = [local EXCEPT ![v] = @ \cup {r}]
  /\ UNCHANGED <<hubVars, projections, marker, pending, lockVars, client, admin>>

-----------------------------------------------------------------------------
(***************************************************************************)
(* Binding: the session is resolved and its principal lock taken while the *)
(* configuration lock is held, which only an administrator holds for more  *)
(* than this step.                                                         *)
(***************************************************************************)

BindingIgnoresHolder(c) ==
  /\ admin.pc = "idle"
  /\ config.binding[P(c)] # None

BindingAvailable(c) ==
  /\ admin.pc = "idle"
  /\ config.binding[P(c)] # None
  /\ principalLock[P(c)] = None

BindSession(c, ph) ==
  /\ client[c].pc = "idle"
  /\ BindingAvailable(c)
  /\ principalLock' = [principalLock EXCEPT ![P(c)] = c]
  /\ Goto(c, [Idle EXCEPT !.pc = IF ph = "pull" THEN "pull" ELSE "push",
                          !.phase = ph,
                          !.label = config.binding[P(c)],
                          !.generation = config.generation])
  /\ UNCHANGED <<hubVars, vaultVars, taskLock, applyLock, admin>>

-----------------------------------------------------------------------------
(***************************************************************************)
(* Push                                                                    *)
(***************************************************************************)

\* The pending envelope can be read under this binding.
PendingLoads(c) ==
  pending[V(c)] # None =>
    /\ pending[V(c)].principal = P(c)
    /\ pending[V(c)].generation <= client[c].generation
    /\ pending[V(c)].label \in {client[c].label} \cup retained

MayPushRegardless(c) == PendingLoads(c)

MayPush(c) ==
  /\ PendingLoads(c)
  /\ pending[V(c)] # None => pending[V(c)].outcomes = {}

\* Select the outbox and take one snapshot of the hub.
LoadOutbox(c) ==
  /\ client[c].pc = "push"
  /\ MayPush(c)
  /\ Goto(c, [client[c] EXCEPT !.pc = "admit",
                               !.todo = local[V(c)] \ Known(V(c), P(c)),
                               !.seen = hub])
  /\ UNCHANGED <<hubVars, vaultVars, lockVars, admin>>

RefuseUnreadablePending(c) ==
  /\ client[c].pc = "push"
  /\ ~PendingLoads(c)
  /\ Finish(c)
  /\ UNCHANGED <<hubVars, vaultVars, admin>>

RefusePush(c) ==
  /\ client[c].pc = "push"
  /\ ~MayPush(c)
  /\ Finish(c)
  /\ UNCHANGED <<hubVars, vaultVars, admin>>

\* What admission compares a TaskPacket with: the snapshot refreshed, under
\* the task lock, for this one identity.
SeenAtSnapshot(c, r) == client[c].seen

SeenUnderLock(c, r) == client[c].seen \cup Revisions(hub, r.task)

Code(c, r, H) == SubmissionCode(r, client[c].label, P(c), H)

Decided(c, r, code, H) ==
  [client[c] EXCEPT !.pc = "admit",
                    !.todo = @ \ {r},
                    !.seen = H,
                    !.current = None,
                    !.outcomes = @ \cup {Outcome(r, code)}]

\* A TaskPacket that needs no write: refused, or already in the hub.
SettleTask(c, r) ==
  LET H == SeenUnderLock(c, r)
      code == Code(c, r, H)
  IN  /\ client[c].pc = "admit"
      /\ IsTask(r)
      /\ taskLock[r.task] = None
      /\ code # "admitted" \/ r \in H
      /\ Goto(c, Decided(c, r, code, H))
      /\ UNCHANGED <<hubVars, vaultVars, lockVars, admin>>

\* A TaskPacket to be written: the task lock is held from the decision ...
DecideTask(c, r) ==
  LET H == SeenUnderLock(c, r)
  IN  /\ client[c].pc = "admit"
      /\ IsTask(r)
      /\ taskLock[r.task] = None
      /\ Code(c, r, H) = "admitted"
      /\ r \notin H
      /\ taskLock' = [taskLock EXCEPT ![r.task] = c]
      /\ Goto(c, [client[c] EXCEPT !.pc = "write", !.seen = H, !.current = r])
      /\ UNCHANGED <<hubVars, vaultVars, principalLock, applyLock, admin>>

\* ... to the write.
StoreTask(c) ==
  LET r == client[c].current
  IN  /\ client[c].pc = "write"
      /\ hub' = hub \cup {r}
      /\ taskLock' = [taskLock EXCEPT ![r.task] = None]
      /\ Goto(c, Decided(c, r, "admitted", client[c].seen \cup {r}))
      /\ UNCHANGED <<retained, config, vaultVars, principalLock, applyLock, admin>>

\* A busy task lock fails the whole push; what it already wrote stays.
TaskLockBusy(c, r) ==
  /\ client[c].pc = "admit"
  /\ IsTask(r)
  /\ taskLock[r.task] # None
  /\ Finish(c)
  /\ UNCHANGED <<hubVars, vaultVars, admin>>

\* Other kinds are judged against the snapshot, without a lock.
AdmitOther(c, r) ==
  LET code == Code(c, r, client[c].seen)
      new == IF code = "admitted" THEN {r} ELSE {}
  IN  /\ client[c].pc = "admit"
      /\ ~IsTask(r)
      /\ hub' = hub \cup new
      /\ Goto(c, Decided(c, r, code, client[c].seen \cup new))
      /\ UNCHANGED <<retained, config, vaultVars, lockVars, admin>>

SavePending(c) ==
  /\ client[c].pc = "admit"
  /\ client[c].todo = {}
  /\ pending' = [pending EXCEPT ![V(c)] =
                   [principal |-> P(c), label |-> client[c].label,
                    generation |-> client[c].generation,
                    outcomes |-> client[c].outcomes]]
  /\ IF client[c].phase = "both"
     THEN /\ Goto(c, [client[c] EXCEPT !.pc = "pull", !.seen = {},
                                       !.outcomes = {}])
          /\ UNCHANGED lockVars
     ELSE Finish(c)
  /\ UNCHANGED <<hubVars, local, projections, marker, admin>>

-----------------------------------------------------------------------------
(***************************************************************************)
(* Pull                                                                    *)
(***************************************************************************)

Receipt(c, t) ==
  LET shown == AuthorizedRecords(hub, client[c].label)
  IN  [principal |-> P(c),
       label |-> client[c].label,
       generation |-> client[c].generation,
       time |-> t,
       members |-> shown,
       excluded |-> Cardinality(hub \ shown) + Cardinality(retained),
       outcomes |-> IF pending[V(c)] = None THEN {} ELSE pending[V(c)].outcomes]

BuildResponse(c, t) ==
  /\ client[c].pc = "pull"
  /\ PendingLoads(c)
  /\ EgressValid(hub, retained)
  /\ Goto(c, [client[c] EXCEPT !.pc = "apply",
                               !.loaded = pending[V(c)],
                               !.response = Receipt(c, t)])
  /\ UNCHANGED <<hubVars, vaultVars, lockVars, admin>>

RefusePull(c) ==
  /\ client[c].pc = "pull"
  /\ ~(PendingLoads(c) /\ EgressValid(hub, retained))
  /\ Finish(c)
  /\ UNCHANGED <<hubVars, vaultVars, admin>>

SameScope(a, b) == a.label = b.label /\ a.generation = b.generation

\* The order a vault's successful receipts keep, m being the current one.
InOrder(m, r) ==
  /\ m.principal = r.principal
  /\ m.generation <= r.generation
  /\ m.time <= r.time
  /\ m.time = r.time => m = r

Regresses(m, r) == SameScope(m, r) /\ ~(m.members \subseteq r.members)

ApplicableUnlocked(c) ==
  LET m == marker[V(c)]
      r == client[c].response
  IN  /\ PullRelationsValid(r.members)
      /\ m # None => InOrder(m, r) /\ ~Regresses(m, r)

Applicable(c) ==
  LET m == marker[V(c)]
      r == client[c].response
  IN  /\ PullRelationsValid(r.members)
      /\ applyLock[V(c)] = None
      /\ m # None => InOrder(m, r) /\ ~Regresses(m, r)

NothingNew(c) ==
  LET m == marker[V(c)]
      r == client[c].response
  IN  /\ m # None
      /\ SameScope(m, r)
      /\ m.members = r.members
      /\ m.excluded = r.excluded
      /\ r.outcomes = {}

RefuseApply(c) ==
  /\ client[c].pc = "apply"
  /\ ~Applicable(c)
  /\ Finish(c)
  /\ UNCHANGED <<hubVars, vaultVars, admin>>

ApplyNothing(c) ==
  /\ client[c].pc = "apply"
  /\ Applicable(c)
  /\ NothingNew(c)
  /\ Goto(c, [client[c] EXCEPT !.pc = "consume"])
  /\ UNCHANGED <<hubVars, vaultVars, lockVars, admin>>

ReceiptLater(c) == projections[V(c)]

\* The receipt and its manifest become durable before any record is exposed.
\* Readers skip a projection with only one of the two files, so the pair is
\* one file here.
ReceiptFirst(c) == projections[V(c)] \cup {client[c].response}

ExposeNothing(c) == {}

RecordsToExpose(c) == client[c].response.members \ local[V(c)]

StartApply(c) ==
  /\ client[c].pc = "apply"
  /\ Applicable(c)
  /\ ~NothingNew(c)
  /\ applyLock' = [applyLock EXCEPT ![V(c)] = c]
  /\ projections' = [projections EXCEPT ![V(c)] = ReceiptFirst(c)]
  /\ Goto(c, [client[c] EXCEPT !.pc = "expose", !.todo = RecordsToExpose(c)])
  /\ UNCHANGED <<hubVars, local, marker, pending, principalLock, taskLock, admin>>

ExposeRecord(c, r) ==
  /\ client[c].pc = "expose"
  /\ local' = [local EXCEPT ![V(c)] = @ \cup {r}]
  /\ Goto(c, [client[c] EXCEPT !.todo = @ \ {r}])
  /\ UNCHANGED <<hubVars, projections, marker, pending, lockVars, admin>>

AdvanceMarker(c) ==
  /\ client[c].pc = "expose"
  /\ client[c].todo = {}
  /\ marker' = [marker EXCEPT ![V(c)] = client[c].response]
  /\ applyLock' = [applyLock EXCEPT ![V(c)] = None]
  /\ Goto(c, [client[c] EXCEPT !.pc = "consume"])
  /\ UNCHANGED <<hubVars, local, projections, pending, principalLock, taskLock,
                 admin>>

\* Only the exact envelope the response acknowledged is removed.
Consumable(c) == client[c].loaded # None /\ pending[V(c)] = client[c].loaded

ConsumePending(c) ==
  /\ client[c].pc = "consume"
  /\ pending' = IF Consumable(c)
                THEN [pending EXCEPT ![V(c)] = None]
                ELSE pending
  /\ Finish(c)
  /\ UNCHANGED <<hubVars, local, projections, marker, admin>>

-----------------------------------------------------------------------------
(***************************************************************************)
(* Crashes, the administrator, and the claims route                        *)
(***************************************************************************)

Crash(c) ==
  /\ client[c].pc # "idle"
  /\ Finish(c)
  /\ UNCHANGED <<hubVars, vaultVars, admin>>

AffectedByNextOnly(binding) == Bound(binding)

AffectedPrincipals(binding) == Bound(config.binding) \cup Bound(binding)

RetainNothing(binding) == {}

LabelsToRetain(binding) == LabelsOf(binding)

\* The configuration lock and every affected principal lock, all or none.
BeginConfigure(binding, g) ==
  /\ admin.pc = "idle"
  /\ g >= config.generation
  /\ \A p \in AffectedPrincipals(binding) : principalLock[p] = None
  /\ principalLock' = [p \in Principal |-> IF p \in AffectedPrincipals(binding)
                                           THEN Admin ELSE principalLock[p]]
  /\ admin' = [pc |-> "retain",
               next |-> [binding |-> binding, generation |-> g],
               todo |-> LabelsToRetain(binding)]
  /\ UNCHANGED <<hubVars, vaultVars, taskLock, applyLock, client>>

RetainLabel(l) ==
  /\ admin.pc = "retain"
  /\ l \in admin.todo
  /\ retained' = retained \cup {l}
  /\ admin' = [admin EXCEPT !.todo = @ \ {l}]
  /\ UNCHANGED <<hub, config, vaultVars, lockVars, client>>

ReplaceConfig ==
  /\ admin.pc = "retain"
  /\ admin.todo = {}
  /\ config' = admin.next
  /\ admin' = NotConfiguring
  /\ ReleaseLocks(Admin)
  /\ UNCHANGED <<hub, retained, vaultVars, client>>

CrashConfigure ==
  /\ admin.pc # "idle"
  /\ admin' = NotConfiguring
  /\ ReleaseLocks(Admin)
  /\ UNCHANGED <<hubVars, vaultVars, client>>

\* The hub's claims route: one atomic compare-and-append on the unique open
\* leaf, for the principal it is assigned to.
HubClaim(o) ==
  /\ o.kind = "open"
  /\ Leaves(Revisions(hub, o.task)) = {o}
  /\ config.binding[o.writer] # None
  /\ hub' = hub \cup {Successor(o)}
  /\ UNCHANGED <<retained, config, vaultVars, lockVars, client, admin>>

-----------------------------------------------------------------------------
Init ==
  /\ hub = {}
  /\ retained = LabelsOf(InitialBinding)
  /\ config = [binding |-> InitialBinding, generation |-> 0]
  /\ local = [v \in Vault |-> {}]
  /\ projections = [v \in Vault |-> {}]
  /\ marker = [v \in Vault |-> None]
  /\ pending = [v \in Vault |-> None]
  /\ principalLock = [p \in Principal |-> None]
  /\ taskLock = [t \in Task |-> None]
  /\ applyLock = [v \in Vault |-> None]
  /\ client = [c \in Client |-> Idle]
  /\ admin = NotConfiguring

PushStep(c) ==
  \/ LoadOutbox(c)
  \/ RefusePush(c)
  \/ \E r \in client[c].todo :
       SettleTask(c, r) \/ DecideTask(c, r) \/ TaskLockBusy(c, r) \/ AdmitOther(c, r)
  \/ StoreTask(c)
  \/ SavePending(c)

PullStep(c) ==
  \/ \E t \in Time : BuildResponse(c, t)
  \/ RefusePull(c)
  \/ RefuseApply(c)
  \/ ApplyNothing(c)
  \/ StartApply(c)
  \/ \E r \in client[c].todo : ExposeRecord(c, r)
  \/ AdvanceMarker(c)
  \/ ConsumePending(c)

AdminStep ==
  \/ \E b \in Bindings, g \in Generation : BeginConfigure(b, g)
  \/ \E l \in Label : RetainLabel(l)
  \/ ReplaceConfig
  \/ CrashConfigure

Next ==
  \/ \E v \in Vault, r \in Record : AppendLocal(v, r)
  \/ \E c \in Client :
       \/ \E ph \in Phases : BindSession(c, ph)
       \/ PushStep(c)
       \/ PullStep(c)
       \/ Crash(c)
  \/ AdminStep
  \/ \E o \in hub : HubClaim(o)

Spec == Init /\ [][Next]_vars

\* Once bound, a process keeps running unless it crashes.
FairSpec == Spec /\ \A c \in Client : WF_vars(PushStep(c) \/ PullStep(c))
-----------------------------------------------------------------------------
(***************************************************************************)
(* Properties                                                              *)
(***************************************************************************)

PCs == {"idle", "push", "admit", "write", "pull", "apply", "expose", "consume"}

OutcomeType == [record : Record, code : Codes]

EnvelopeType ==
  [principal : Principal, label : Label, generation : Generation,
   outcomes : SUBSET OutcomeType]

ReceiptType ==
  [principal : Principal, label : Label, generation : Generation, time : Time,
   members : SUBSET Record, excluded : Nat, outcomes : SUBSET OutcomeType]

\* No file differs from every file.
ASSUME NoFileAssumption == None \notin ReceiptType /\ None \notin EnvelopeType

ConfigType == [binding : BindingTables, generation : Generation]

RequestType ==
  [pc : PCs, phase : Phases \cup {None}, label : Label \cup {None},
   generation : Generation, todo : SUBSET Record, seen : SUBSET Record,
   current : Record \cup {None}, outcomes : SUBSET OutcomeType,
   loaded : EnvelopeType \cup {None}, response : ReceiptType \cup {None}]

AdminType ==
  [pc : {"idle", "retain"}, next : ConfigType \cup {None}, todo : SUBSET Label]

\* Every variable keeps its type.
TypeOK ==
  /\ hub \in SUBSET Record
  /\ retained \in SUBSET Label
  /\ config \in ConfigType
  /\ local \in [Vault -> SUBSET Record]
  /\ projections \in [Vault -> SUBSET ReceiptType]
  /\ marker \in [Vault -> ReceiptType \cup {None}]
  /\ pending \in [Vault -> EnvelopeType \cup {None}]
  /\ principalLock \in [Principal -> Client \cup {Admin, None}]
  /\ taskLock \in [Task -> Client \cup {None}]
  /\ applyLock \in [Vault -> Client \cup {None}]
  /\ client \in [Client -> RequestType]
  /\ admin \in AdminType

\* A bound request works under the binding, label and generation that are
\* still in force: replacing the configuration cannot race a request that
\* was already authenticated (the principal lock against BeginConfigure).
BindingInForce ==
  \A c \in Client : client[c].pc # "idle" =>
    /\ config.binding[P(c)] = client[c].label
    /\ config.generation = client[c].generation

\* No interleaving of pushes by different principals, claims, crashes and
\* policy replacements leaves the hub in a state in which _authorized_records
\* fails hub-record-invalid, which would stop every principal's pull: labels
\* stay resolvable, histories unforked, receipts bound to the current leaf.
EgressNeverFails == EgressValid(hub, retained)

\* Whatever subset of the hub a label may see, the replica's own check of it
\* succeeds: filtering by project never separates a WorkReceipt from the
\* chain it binds, so sync-record-history-invalid is unreachable.
AuthorizedSetsVerify ==
  \A l \in Label : PullRelationsValid(AuthorizedRecords(hub, l))

\* A pair a vault holds evidence of, and therefore never submits again, is
\* in the hub: no crash between admission, pending envelope and receipt
\* turns a local append into one that is silently never delivered.
EvidenceIsTrue ==
  \A v \in Vault :
    /\ \A p \in Principal : Known(v, p) \subseteq hub
    /\ pending[v] # None => AdmittedIn(pending[v].outcomes) \subseteq hub

\* The success marker always names a durable projection whose records are
\* all present, wherever a crash falls in the apply.
MarkerBacked ==
  \A v \in Vault : marker[v] # None =>
    /\ marker[v] \in projections[v]
    /\ marker[v].members \subseteq local[v]

\* A record that reached a vault through sync is named by a receipt already
\* durable there, whose own label could read its project: provenance is
\* persisted before exposure, also when a narrowing or a crash intervenes.
ReceivedHasProvenance ==
  \A v \in Vault : \A r \in local[v] \ Drafts[v] :
    \E rc \in projections[v] :
      /\ r \in rc.members
      /\ r.project \in Policy[rc.label].read \ Policy[rc.label].deny

\* Under one unchanged scope a response built later never shows less than what
\* the same principal was shown, in this vault or another:
\* sync-membership-regression guards a state the local hub cannot produce.
ScopeNeverShrinks ==
  \A c \in Client, v \in Vault :
    LET m == marker[v]
        r == client[c].response
    IN  client[c].pc = "apply" /\ m # None /\ m.principal = r.principal
          => ~Regresses(m, r)

\* A vault's success marker keeps its principal and never goes back to an
\* older generation, an earlier observation or, within one scope, a smaller
\* membership, although it is written long after it was compared.
MarkerStep ==
  \A v \in Vault : marker[v] # None /\ marker'[v] # marker[v] =>
    /\ InOrder(marker[v], marker'[v])
    /\ ~Regresses(marker[v], marker'[v])

MarkerMovesForward == [][MarkerStep]_vars

\* A non-empty pending envelope disappears only once a durable receipt of the
\* same principal carries exactly its outcomes: "it cannot be overwritten by
\* a later request".
PendingStep ==
  \A v \in Vault :
    /\ pending[v] # None
    /\ pending[v].outcomes # {}
    /\ pending'[v] # pending[v]
    => \E rc \in projections[v] :
         /\ rc.principal = pending[v].principal
         /\ rc.outcomes = pending[v].outcomes

PendingAcknowledgedFirst == [][PendingStep]_vars

\* No request waits for another: every bound request ends, and gives up its
\* locks, whatever the other processes are doing or where they crashed.
RequestsEnd ==
  \A c \in Client : client[c].pc # "idle" ~> client[c].pc = "idle"

\* The hub and its vaults implement the abstract union: each step admits one
\* record that keeps the hub consistent, claims a leaf, appends or receives
\* one record, shows a complete reading of the hub, or changes none of these.
Shown(m) ==
  IF m = None THEN None ELSE [label |-> m.label, members |-> m.members]

Union == INSTANCE CoordinationUnion
           WITH union <- hub, replica <- local, Outside <- {},
                view <- [v \in Vault |-> Shown(marker[v])]

ImplementsUnion == Union!Spec
=============================================================================
