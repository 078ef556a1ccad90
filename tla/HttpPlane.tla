----------------------------- MODULE HttpPlane -----------------------------
(***************************************************************************)
(* The HTTP coordination client: sync_http (coordination_http.py), which   *)
(* submits a journalled batch and collects the pages of one answer, and    *)
(* claim_http (coordination_claim.py), which claims one task between two   *)
(* pulls.  The hub is foreign code behind a network that loses and delays. *)
(*                                                                         *)
(* A request the client gave up may still reach the hub at any later time. *)
(* That an answer is lost is not told apart from that: the hub acts, and   *)
(* the client does not learn of it.  So the network is the set late of the *)
(* effects abandoned requests may still have.  The hub stamps receipts     *)
(* with its own clock, so answers are ordered as it gave them; that two of *)
(* them fall into one second is a choice (RefuseApply).               *)
(***************************************************************************)
EXTENDS CoordinationRecords

CONSTANTS
  Client,           \* processes
  Vault,
  VaultOf,          \* VaultOf[c]: the vault a client works on
  PrincipalOf,      \* PrincipalOf[c]: the configured principal
  LabelOf,          \* LabelOf[p]: the label bound to p, configured and at the hub
  Drafts,           \* Drafts[v]: the records users write into v
  Others,           \* records other vaults deliver to the hub
  PageSize,         \* bound on the records of a page
  MaxBatch,         \* bound on the records of a request
  Steady,           \* clients whose users issue commands for ever
  MaxDisturbances,  \* bound on failures and on commands of other clients
  None

VARIABLES
  hub,             \* records the hub stores
  late,            \* effects of abandoned requests the hub may still perform
  local,           \* local[v]: canonical records of a vault
  evidence,        \* evidence[v][p]: what the receipts of p in v add up to
  marker,          \* marker[v]: the receipt last-successful.json names
  journal,         \* journal[v]: http-pending.json
  transportLock,   \* transportLock[v]: the client inside sync_http
  claimLock,       \* claimLock[v]: the client inside claim_http
  client,          \* client[c]: the command a process is executing
  told,            \* told[c]: open revisions c was told it holds the claim of
  disturbances     \* failures and commands of clients not Steady so far

vaultVars == <<local, evidence, marker, journal>>
lockVars == <<transportLock, claimLock>>
vars == <<hub, late, vaultVars, lockVars, client, told, disturbances>>

ASSUME HttpAssumption ==
  /\ VaultOf \in [Client -> Vault]
  /\ PrincipalOf \in [Client -> Principal]
  /\ LabelOf \in [Principal -> Label]
  /\ Drafts \in [Vault -> SUBSET Record]
  /\ Others \subseteq Record
  /\ PageSize \in Nat \ {0} /\ MaxBatch \in Nat \ {0} /\ MaxDisturbances \in Nat
  /\ Steady \subseteq Client
  /\ None \notin Client /\ None \notin Record /\ None # "claim"

Phases == {"push", "pull", "both"}

\* goal: the phase of a sync, or "claim"; target: the open revision to claim;
\* answer: the successor the hub named; undecided: the records of the batch
\* the hub has not decided; page: the pages of the answer received so far.
Idle == [pc |-> "idle", goal |-> None, target |-> None, answer |-> None,
         preclaimed |-> FALSE, undecided |-> {}, outcomes |-> {},
         receipt |-> None, page |-> 0]

V(c) == VaultOf[c]

P(c) == PrincipalOf[c]

L(c) == LabelOf[P(c)]

At(c, pc) == client[c].pc = pc

Goto(c, s) == client' = [client EXCEPT ![c] = s]

\* The command ends; what it held is released.
Finish(c) ==
  /\ Goto(c, Idle)
  /\ transportLock' = [v \in Vault |-> IF transportLock[v] = c THEN None
                                       ELSE transportLock[v]]
  /\ claimLock' = [v \in Vault |-> IF claimLock[v] = c THEN None ELSE claimLock[v]]

\* The command ends, by a result or a typed failure, and changes nothing else.
End(c) ==
  /\ Finish(c)
  /\ UNCHANGED <<hub, late, vaultVars, told>>

Disturb ==
  /\ disturbances < MaxDisturbances
  /\ disturbances' = disturbances + 1

Calm == UNCHANGED disturbances

-----------------------------------------------------------------------------
AppendLocal(v, r) ==
  /\ r \in Drafts[v] \ local[v]
  /\ local' = [local EXCEPT ![v] = @ \cup {r}]
  /\ UNCHANGED <<hub, late, evidence, marker, journal, lockVars, client, told>>
  /\ Calm

-----------------------------------------------------------------------------
(***************************************************************************)
(* sync_http: the journal                                                  *)
(***************************************************************************)

Issued(c) == IF c \in Steady THEN Calm ELSE Disturb

TransportIgnored(c) == TRUE

TransportFree(c) == transportLock[V(c)] = None

BeginSync(c, phase) ==
  /\ At(c, "idle")
  /\ TransportFree(c)
  /\ transportLock' = [transportLock EXCEPT ![V(c)] = c]
  /\ Goto(c, [Idle EXCEPT !.pc = "journal", !.goal = phase])
  /\ UNCHANGED <<hub, late, vaultVars, claimLock, told>>
  /\ Issued(c)

Submit(c, refs) == [client[c] EXCEPT !.pc = "submit", !.undecided = refs]

\* The batches _batch may choose: how it chooses is FairBatch.
Batches(c) ==
  LET candidates == local[V(c)] \ evidence[V(c)][P(c)].known
  IN  {B \in SUBSET candidates : B # {} /\ Cardinality(B) <= MaxBatch}

ResendableByBoth(c) ==
  client[c].goal = "both" /\ journal[V(c)].principal = P(c)

\* An unreconciled batch refuses a push, and a command of another principal.
Resendable(c) ==
  client[c].goal # "push" /\ journal[V(c)].principal = P(c)

RefuseJournal(c) ==
  /\ At(c, "journal")
  /\ journal[V(c)] # None
  /\ ~Resendable(c)
  /\ End(c)
  /\ Calm

ResendJournal(c) ==
  /\ At(c, "journal")
  /\ journal[V(c)] # None
  /\ Resendable(c)
  /\ Goto(c, Submit(c, journal[V(c)].refs))
  /\ UNCHANGED <<hub, late, vaultVars, lockVars, told>>
  /\ Calm

JournalNothing(c, B) == None

JournalOf(c, B) == [principal |-> P(c), refs |-> B]

\* The batch is durable before the first request names it.
WriteJournal(c, B) ==
  /\ At(c, "journal")
  /\ journal[V(c)] = None
  /\ client[c].goal \in {"push", "both"}
  /\ journal' = [journal EXCEPT ![V(c)] = JournalOf(c, B)]
  /\ Goto(c, Submit(c, B))
  /\ UNCHANGED <<hub, late, local, evidence, marker, lockVars, told>>
  /\ Calm

SubmitNothing(c) ==
  /\ At(c, "journal")
  /\ journal[V(c)] = None
  /\ client[c].goal \in {"push", "both"} => Batches(c) = {}
  /\ Goto(c, Submit(c, {}))
  /\ UNCHANGED <<hub, late, vaultVars, lockVars, told>>
  /\ Calm

-----------------------------------------------------------------------------
(***************************************************************************)
(* The exchange                                                            *)
(***************************************************************************)

\* The hub decides one submitted record under the policy of its principal.
Decide(r, p) ==
  LET code == SubmissionCode(r, LabelOf[p], p, hub)
  IN  [code |-> code, hub |-> IF code = "admitted" THEN hub \cup {r} ELSE hub]

HubDecide(c, r) ==
  LET d == Decide(r, P(c))
  IN  /\ At(c, "submit")
      /\ r \in client[c].undecided
      /\ hub' = d.hub
      /\ Goto(c, [client[c] EXCEPT !.undecided = @ \ {r},
                                   !.outcomes = @ \cup {Outcome(r, d.code)}])
      /\ UNCHANGED <<late, vaultVars, lockVars, told>>
      /\ Calm

\* The hub reads its membership and answers with a receipt and the first page.
HubAnswer(c) ==
  LET shown == AuthorizedRecords(hub, L(c))
  IN  /\ At(c, "submit")
      /\ client[c].undecided = {}
      /\ Goto(c, [client[c] EXCEPT !.pc = "pages", !.page = 1, !.outcomes = {},
                    !.receipt = [principal |-> P(c), members |-> shown,
                                 excluded |-> Cardinality(hub \ shown),
                                 outcomes |-> client[c].outcomes]])
      /\ UNCHANGED <<hub, late, vaultVars, lockVars, told>>
      /\ Calm

PageCount(members) ==
  IF members = {} THEN 1 ELSE (Cardinality(members) + PageSize - 1) \div PageSize

NextPage(c) ==
  /\ At(c, "pages")
  /\ client[c].page < PageCount(client[c].receipt.members)
  /\ Goto(c, [client[c] EXCEPT !.page = @ + 1])
  /\ UNCHANGED <<hub, late, vaultVars, lockVars, told>>
  /\ Calm

Complete(c) ==
  /\ At(c, "pages")
  /\ client[c].page = PageCount(client[c].receipt.members)
  /\ PullRelationsValid(client[c].receipt.members)

\* A push stops at the verified answer and leaves the journal to a pull.
FinishPush(c) ==
  /\ Complete(c)
  /\ client[c].goal = "push"
  /\ End(c)
  /\ Calm

-----------------------------------------------------------------------------
(***************************************************************************)
(* Applying the response                                                   *)
(***************************************************************************)

Regresses(m, r) == ~(m.members \subseteq r.members)

NothingNewMembers(m, r) == m.members = r.members /\ m.excluded = r.excluded

NothingNew(m, r) ==
  m.members = r.members /\ m.excluded = r.excluded /\ r.outcomes = {}

Acceptable(c) ==
  LET m == marker[V(c)]
      r == client[c].receipt
  IN  m # None => m.principal = r.principal /\ ~Regresses(m, r)

Applying(c) == Complete(c) /\ client[c].goal # "push"

\* Refused for the vault's current view, or because the hub gave two different
\* answers the same time.
RefuseApply(c) ==
  /\ Applying(c)
  /\ marker[V(c)] # None
  /\ End(c)
  /\ IF Acceptable(c) THEN Disturb ELSE Calm

ApplyNothing(c) ==
  /\ Applying(c)
  /\ Acceptable(c)
  /\ marker[V(c)] # None
  /\ NothingNew(marker[V(c)], client[c].receipt)
  /\ Goto(c, [client[c] EXCEPT !.pc = "unlink"])
  /\ UNCHANGED <<hub, late, vaultVars, lockVars, told>>
  /\ Calm

ReplayedOutcomes(e, rc) ==
  [known |-> e.known \cup rc.members \cup AdmittedIn(rc.outcomes),
   attempted |-> e.attempted \cup rc.outcomes]

\* Evidence accumulates over receipts, whatever their order.
Replayed(e, rc) ==
  [known |-> e.known \cup rc.members \cup AdmittedIn(rc.outcomes),
   attempted |-> e.attempted \cup AttemptedIn(rc.outcomes)]

\* First the receipt; the steps between are those of CoordinationSync ...
PublishReceipt(c) ==
  /\ Applying(c)
  /\ Acceptable(c)
  /\ marker[V(c)] # None => ~NothingNew(marker[V(c)], client[c].receipt)
  /\ evidence' = [evidence EXCEPT ![V(c)][P(c)] = Replayed(@, client[c].receipt)]
  /\ Goto(c, [client[c] EXCEPT !.pc = "expose"])
  /\ UNCHANGED <<hub, late, local, marker, journal, lockVars, told>>
  /\ Calm

\* ... then its records and the success marker.
AdvanceMarker(c) ==
  /\ At(c, "expose")
  /\ local' = [local EXCEPT ![V(c)] = @ \cup client[c].receipt.members]
  /\ marker' = [marker EXCEPT ![V(c)] = client[c].receipt]
  /\ Goto(c, [client[c] EXCEPT !.pc = "unlink"])
  /\ UNCHANGED <<hub, late, evidence, journal, lockVars, told>>
  /\ Calm

\* Where a claim goes on after one of its pulls.
AfterPull(c) ==
  [client[c] EXCEPT !.pc = IF client[c].answer = None THEN "check" ELSE "verify",
                    !.receipt = None, !.page = 0]

UnlinkJournal(c) ==
  /\ At(c, "unlink")
  /\ journal' = [journal EXCEPT ![V(c)] = None]
  /\ IF client[c].goal = "claim"
     THEN /\ Goto(c, AfterPull(c))
          /\ transportLock' = [transportLock EXCEPT ![V(c)] = None]
          /\ UNCHANGED claimLock
     ELSE Finish(c)
  /\ UNCHANGED <<hub, late, local, evidence, marker, told>>
  /\ Calm
-----------------------------------------------------------------------------
(***************************************************************************)
(* claim_http                                                              *)
(***************************************************************************)

BeginClaim(c, o) ==
  /\ At(c, "idle")
  /\ claimLock[V(c)] = None
  /\ claimLock' = [claimLock EXCEPT ![V(c)] = c]
  /\ Goto(c, [Idle EXCEPT !.pc = "pull", !.goal = "claim", !.target = o])
  /\ UNCHANGED <<hub, late, vaultVars, transportLock, told>>
  /\ Issued(c)

\* The pull before the claim, and the one after it.
StartPull(c) ==
  /\ At(c, "pull")
  /\ TransportFree(c)
  /\ transportLock' = [transportLock EXCEPT ![V(c)] = c]
  /\ Goto(c, [client[c] EXCEPT !.pc = "journal", !.outcomes = {}])
  /\ UNCHANGED <<hub, late, vaultVars, claimLock, told>>
  /\ Calm

PullBusy(c) ==
  /\ At(c, "pull")
  /\ ~TransportFree(c)
  /\ End(c)
  /\ Calm

\* Another process holds the projection lock while it applies a response.
ProjectionBusy(c) == \E d \in Client : V(d) = V(c) /\ At(d, "expose")

ClaimableOpen(m, o, p) == Leaves(Revisions(m.members, o.task)) = {o} /\ m.principal = p

\* The requested revision is visible, open, assigned to p under its label, and
\* still the leaf or the predecessor of the leaf.
Claimable(m, o, p) ==
  /\ m.principal = p
  /\ o \in m.members
  /\ o.kind = "open" /\ o.writer = p /\ o.label = LabelOf[p]
  /\ Leaves(Revisions(m.members, o.task)) \subseteq {o, Successor(o)}

Checked(c) ==
  ~ProjectionBusy(c) /\ Claimable(marker[V(c)], client[c].target, P(c))

CheckTask(c) ==
  /\ At(c, "check")
  /\ Checked(c)
  /\ Goto(c, [client[c] EXCEPT
                !.pc = "claim",
                !.preclaimed = Successor(client[c].target) \in marker[V(c)].members])
  /\ UNCHANGED <<hub, late, vaultVars, lockVars, told>>
  /\ Calm

\* The hub's claims route: it appends the successor of the exact open leaf, or
\* names it again to the principal it belongs to; anything else conflicts.
Claims(o, p) ==
  /\ o.writer = p
  /\ Leaves(Revisions(hub, o.task)) \in {{o}, {Successor(o)}}

HubClaim(c) ==
  LET o == client[c].target
      replay == Successor(o) \in hub
  IN  /\ At(c, "claim")
      /\ Claims(o, P(c))
      /\ client[c].preclaimed => replay
      /\ hub' = hub \cup {Successor(o)}
      /\ Goto(c, [client[c] EXCEPT !.pc = "pull", !.answer = Successor(o)])
      /\ UNCHANGED <<late, vaultVars, lockVars, told>>
      /\ Calm

\* Success only when the second pull shows the named successor as the leaf.
Verified(c) ==
  /\ Checked(c)
  /\ Leaves(Revisions(marker[V(c)].members, client[c].target.task)) = {client[c].answer}

VerifyClaim(c) ==
  /\ At(c, "verify")
  /\ Verified(c)
  /\ told' = [told EXCEPT ![c] = @ \cup {client[c].target}]
  /\ Finish(c)
  /\ UNCHANGED <<hub, late, vaultVars>>
  /\ Calm

\* Before the claim as after it: the typed refusals.
RefuseTask(c) ==
  /\ At(c, "check") \/ At(c, "verify")
  /\ ~(At(c, "check") /\ Checked(c)) /\ ~(At(c, "verify") /\ Verified(c))
  /\ End(c)
  /\ Calm

-----------------------------------------------------------------------------
(***************************************************************************)
(* Failures, late requests, other vaults                                   *)
(***************************************************************************)

\* What the hub may still do of a request the client no longer waits for.
Remaining(c) ==
  IF At(c, "submit")
  THEN {[vault |-> V(c), principal |-> P(c), record |-> r, claim |-> FALSE] :
          r \in client[c].undecided}
  ELSE IF At(c, "claim")
  THEN {[vault |-> V(c), principal |-> P(c), record |-> client[c].target,
         claim |-> TRUE]}
  ELSE {}

\* A timeout, a lost connection, a refused or unreadable answer; or the
\* process dies, wherever it is.
Abandon(c) ==
  /\ client[c].pc # "idle"
  /\ late' = late \cup Remaining(c)
  /\ Finish(c)
  /\ UNCHANGED <<hub, vaultVars, told>>
  /\ Disturb

LateEffect(x) ==
  /\ late' = late \ {x}
  /\ hub' = IF ~x.claim THEN Decide(x.record, x.principal).hub
            ELSE IF Claims(x.record, x.principal) THEN hub \cup {Successor(x.record)}
            ELSE hub
  /\ UNCHANGED <<vaultVars, lockVars, client, told>>
  /\ Calm

OtherAppend(r) ==
  /\ SubmissionCode(r, r.label, r.writer, hub) = "admitted"
  /\ hub' = hub \cup {r}
  /\ UNCHANGED <<late, vaultVars, lockVars, client, told>>
  /\ Calm

-----------------------------------------------------------------------------
Init ==
  /\ hub = {}
  /\ late = {}
  /\ local = [v \in Vault |-> {}]
  /\ evidence = [v \in Vault |-> [p \in Principal |-> [known |-> {}, attempted |-> {}]]]
  /\ marker = [v \in Vault |-> None]
  /\ journal = [v \in Vault |-> None]
  /\ transportLock = [v \in Vault |-> None]
  /\ claimLock = [v \in Vault |-> None]
  /\ client = [c \in Client |-> Idle]
  /\ told = [c \in Client |-> {}]
  /\ disturbances = 0

SyncStep(c) ==
  \/ RefuseJournal(c)
  \/ ResendJournal(c)
  \/ \E B \in Batches(c) : WriteJournal(c, B)
  \/ SubmitNothing(c)
  \/ \E r \in Record : HubDecide(c, r)
  \/ HubAnswer(c)
  \/ NextPage(c)
  \/ FinishPush(c)
  \/ RefuseApply(c)
  \/ ApplyNothing(c)
  \/ PublishReceipt(c)
  \/ AdvanceMarker(c)
  \/ UnlinkJournal(c)

ClaimStep(c) ==
  \/ StartPull(c)
  \/ PullBusy(c)
  \/ CheckTask(c)
  \/ RefuseTask(c)
  \/ HubClaim(c)
  \/ VerifyClaim(c)

Open == {r \in Record : r.kind = "open"}

Next ==
  \/ \E v \in Vault, r \in Record : AppendLocal(v, r)
  \/ \E c \in Client :
       \/ \E phase \in Phases : BeginSync(c, phase)
       \/ \E o \in Open : BeginClaim(c, o)
       \/ SyncStep(c)
       \/ ClaimStep(c)
       \/ Abandon(c)
  \/ \E x \in late : LateEffect(x)
  \/ \E r \in Others : OtherAppend(r)

Spec == Init /\ [][Next]_vars

\* A process keeps running, its hub answers unless the request fails, and the
\* users of steady clients keep asking for pulls and for their claims.
FairSpec ==
  /\ Spec
  /\ \A c \in Client : WF_vars(SyncStep(c) \/ ClaimStep(c))
  /\ \A c \in Steady :
       /\ SF_vars(BeginSync(c, "pull"))
       /\ \A o \in Open : SF_vars(BeginClaim(c, o))
-----------------------------------------------------------------------------
(***************************************************************************)
(* Properties                                                              *)
(***************************************************************************)

ReceiptType ==
  [principal : Principal, members : SUBSET Record, excluded : Nat,
   outcomes : SUBSET [record : Record, code : Codes]]

JournalType == [principal : Principal, refs : SUBSET Record]

\* No file differs from every file.
ASSUME NoFileAssumption == None \notin ReceiptType /\ None \notin JournalType

CommandType ==
  [pc : {"idle", "journal", "submit", "pages", "expose", "unlink", "pull",
         "check", "claim", "verify"},
   goal : Phases \cup {"claim", None}, target : Record \cup {None},
   answer : Record \cup {None}, preclaimed : BOOLEAN,
   undecided : SUBSET Record, outcomes : SUBSET [record : Record, code : Codes],
   receipt : ReceiptType \cup {None}, page : Nat]

LateType == [vault : Vault, principal : Principal, record : Record, claim : BOOLEAN]

VariablesTyped ==
  /\ hub \subseteq Record
  /\ late \subseteq LateType
  /\ local \in [Vault -> SUBSET Record]
  /\ evidence \in [Vault -> [Principal -> [known : SUBSET Record,
                                            attempted : SUBSET Record]]]
  /\ marker \in [Vault -> ReceiptType \cup {None}]
  /\ journal \in [Vault -> JournalType \cup {None}]
  /\ transportLock \in [Vault -> Client \cup {None}]
  /\ claimLock \in [Vault -> Client \cup {None}]
  /\ client \in [Client -> CommandType]
  /\ told \in [Client -> SUBSET Record]
  /\ disturbances \in 0 .. MaxDisturbances

\* What the program counter says of the rest of a command.
CommandTyped(q) ==
  /\ q \in CommandType
  /\ q.pc = "idle" => q = Idle
  /\ q.pc # "idle" => q.goal \in Phases \cup {"claim"}
  /\ q.goal = "claim" => q.target \in Open
  /\ q.pc \in {"pull", "check", "claim", "verify"} => q.goal = "claim"
  /\ q.pc \in {"pages", "expose"} => q.receipt \in ReceiptType

\* Every variable keeps its type; a command has, at each step, what it reads
\* there: a claim its open revision, a collected answer its receipt.  A late
\* claim is one of an open revision.
TypeOK ==
  /\ VariablesTyped
  /\ \A c \in Client : CommandTyped(client[c])
  /\ \A x \in late : x.claim => x.record \in Open

\* Whatever a hub may ever receive from a vault, also late, was named by a
\* durable journal first and is so named until a durable receipt reports it:
\* a crash never leaves a submission behind that no retry accounts for.
JournalGoverns ==
  LET accounted(v, p) ==
        (IF journal[v] # None /\ journal[v].principal = p
         THEN journal[v].refs ELSE {})
          \cup evidence[v][p].attempted
  IN  /\ \A c \in Client : At(c, "submit") =>
           client[c].undecided \subseteq accounted(V(c), P(c))
      /\ \A x \in late : ~x.claim => x.record \in accounted(x.vault, x.principal)

\* A complete answer is never older than the view it is applied to, although
\* its pages arrive one by one while other processes work on the vault: what
\* sync-membership-regression guards against does not happen over HTTP.
AnswerNeverOvertaken ==
  \A c \in Client :
    LET m == marker[V(c)]
    IN  /\ Complete(c)
        /\ client[c].goal # "push"
        /\ m # None
        /\ m.principal = P(c)
        => ~Regresses(m, client[c].receipt)

\* "Only successful local projection consumes the journal": it disappears only
\* once the vault's current receipt reports exactly the journalled batch, and
\* never changes into another one before.
JournalSettled ==
  [][\A v \in Vault : journal[v] # None /\ journal'[v] # journal[v] =>
       /\ journal'[v] = None
       /\ marker[v] # None
       /\ marker[v].principal = journal[v].principal
       /\ AttemptedIn(marker[v].outcomes) = journal[v].refs]_vars

\* A complete answer never fails the check of its relations, although the hub
\* filters it and goes on growing while its pages arrive.
AnswersVerify ==
  \A c \in Client : At(c, "pages") => PullRelationsValid(client[c].receipt.members)

\* The client, its hub and the hub's other vaults implement the abstract union
\* as the local plane does: whatever is lost, given up or late, the hub stays
\* consistent, and a vault shows a complete reading of a consistent part of it.
Shown(m) ==
  IF m = None THEN None ELSE [label |-> LabelOf[m.principal], members |-> m.members]

Union == INSTANCE CoordinationUnion
           WITH union <- hub, replica <- local, Outside <- Others,
                view <- [v \in Vault |-> Shown(marker[v])]

ImplementsUnion == Union!Spec

\* Once disturbances end, the pulls of a steady user reconcile every batch.
JournalReconciled ==
  \A c \in Steady : journal[V(c)] # None ~> journal[V(c)] = None

\* A claim the hub holds, also one whose answer was lost or that was made in
\* a request already given up, is confirmed to the assigned principal's user
\* who asks again for the same open revision.
ClaimRecovered ==
  \A c \in Steady : \A o \in Open :
    Successor(o) \in hub /\ o.writer = P(c) ~> o \in told[c]
=============================================================================
