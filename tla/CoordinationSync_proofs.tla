----------------------- MODULE CoordinationSync_proofs -----------------------
(***************************************************************************)
(* Proofs about CoordinationSync, for any number of clients, vaults,       *)
(* records, tasks, labels and bindings: its types, that a principal writes *)
(* under the binding in force, that the hub stays readable for everyone,   *)
(* what a vault may say of it, and that both implement CoordinationUnion.  *)
(*                                                                         *)
(* The argument for the hub.  A task's revisions in the hub are none, one  *)
(* genesis, or one genesis and its claim; the task lock makes this         *)
(* inductive, because a genesis waiting to be written holds the lock of a  *)
(* task that has no revision yet.  A WorkReceipt was judged against a      *)
(* snapshot, but a claimed leaf is final, so a chain that was complete in  *)
(* the snapshot is still the whole chain.  The label of a record was bound *)
(* when it was admitted, and bound labels are retained before they are     *)
(* bound.                                                                  *)
(***************************************************************************)
EXTENDS CoordinationSync, CoordinationRecords_proofs, FiniteSetTheorems, TLAPS

(***************************************************************************)
(* The facts TypeOK needs to be inductive: what a request has at each pc.  *)
(***************************************************************************)
RequestsTyped ==
  \A c \in Client :
    /\ client[c].pc # "idle" => client[c].label \in Label
    /\ client[c].pc = "write" =>
         client[c].current \in Record /\ IsTask(client[c].current)
    /\ client[c].pc \in {"apply", "expose"} => client[c].response \in ReceiptType

AdminTyped == admin.pc = "retain" => admin.next \in ConfigType

Typed == TypeOK /\ RequestsTyped /\ AdminTyped

LEMMA IdleTyped == Idle \in RequestType /\ NotConfiguring \in AdminType
  BY SyncAssumption DEF Idle, RequestType, PCs, Generation, NotConfiguring, AdminType

(***************************************************************************)
(* A request that ends leaves well-typed locks and an idle client.         *)
(***************************************************************************)
LEMMA FinishTyped ==
  ASSUME Typed, NEW c \in Client, Finish(c)
  PROVE  /\ client' \in [Client -> RequestType]
         /\ principalLock' \in [Principal -> Client \cup {Admin, None}]
         /\ taskLock' \in [Task -> Client \cup {None}]
         /\ applyLock' \in [Vault -> Client \cup {None}]
         /\ \A d \in Client : client'[d] = IF d = c THEN Idle ELSE client[d]
  BY IdleTyped DEF Typed, TypeOK, Finish, Goto, ReleaseLocks

LEMMA AdminReleaseTyped ==
  ASSUME Typed, ReleaseLocks(Admin)
  PROVE  /\ principalLock' \in [Principal -> Client \cup {Admin, None}]
         /\ taskLock' \in [Task -> Client \cup {None}]
         /\ applyLock' \in [Vault -> Client \cup {None}]
  BY DEF Typed, TypeOK, ReleaseLocks

LEMMA CodeTyped ==
  ASSUME NEW r, NEW l, NEW p, NEW H
  PROVE  SubmissionCode(r, l, p, H) \in Codes
  BY DEF SubmissionCode, PolicyCode, Codes

LEMMA InitTyped == Init => Typed
  <1> SUFFICES ASSUME Init PROVE Typed
    OBVIOUS
  <1>1. retained \in SUBSET Label /\ config \in ConfigType
    BY SyncAssumption DEF Init, LabelsOf, Bound, BindingTables, ConfigType, Generation
  <1>2. TypeOK
    BY <1>1, IdleTyped DEF Init, TypeOK
  <1>3. RequestsTyped /\ AdminTyped
    BY DEF Init, RequestsTyped, AdminTyped, Idle, NotConfiguring
  <1> QED
    BY <1>2, <1>3 DEF Typed

(***************************************************************************)
(* Every step of a request changes its own client record only.             *)
(***************************************************************************)
LEMMA GotoTyped ==
  ASSUME Typed, NEW c \in Client, NEW s \in RequestType, Goto(c, s),
         s.pc # "idle" => s.label \in Label,
         s.pc = "write" => s.current \in Record /\ IsTask(s.current),
         s.pc \in {"apply", "expose"} => s.response \in ReceiptType
  PROVE  client' \in [Client -> RequestType] /\ RequestsTyped'
  <1>1. client' \in [Client -> RequestType]
    BY DEF Typed, TypeOK, Goto
  <1>2. \A d \in Client : client'[d] = IF d = c THEN s ELSE client[d]
    BY DEF Typed, TypeOK, Goto
  <1>3. RequestsTyped'
    BY <1>2 DEF Typed, RequestsTyped
  <1> QED
    BY <1>1, <1>3

LEMMA FinishRequestsTyped ==
  ASSUME Typed, NEW c \in Client, Finish(c)
  PROVE  RequestsTyped'
  BY FinishTyped DEF Typed, RequestsTyped, Idle

(***************************************************************************)
(* The record a request holds after deciding one submission.               *)
(***************************************************************************)
LEMMA DecidedTyped ==
  ASSUME Typed, NEW c \in Client, NEW r \in Record, NEW code \in Codes,
         NEW H \in SUBSET Record
  PROVE  /\ Decided(c, r, code, H) \in RequestType
         /\ Decided(c, r, code, H).pc = "admit"
         /\ Decided(c, r, code, H).label = client[c].label
  <1>1. client[c] \in RequestType
    BY DEF Typed, TypeOK
  <1>2. Outcome(r, code) \in OutcomeType
    BY DEF Outcome, OutcomeType
  <1>3. client[c].todo \ {r} \in SUBSET Record
    BY <1>1 DEF RequestType
  <1>4. client[c].outcomes \cup {Outcome(r, code)} \in SUBSET OutcomeType
    BY <1>1, <1>2 DEF RequestType
  <1> QED
    BY <1>1, <1>3, <1>4 DEF Decided, RequestType, PCs

LEMMA SeenTyped ==
  ASSUME Typed, NEW c \in Client, NEW r
  PROVE  SeenUnderLock(c, r) \in SUBSET Record
  BY DEF SeenUnderLock, Revisions, Typed, TypeOK, RequestType

LEMMA PushTyped ==
  ASSUME Typed, NEW c \in Client, PushStep(c)
  PROVE  Typed'
  <1> USE DEF hubVars, vaultVars, lockVars
  <1> DEFINE q == client[c]
  <1>q. q \in RequestType
    BY DEF Typed, TypeOK
  <1>l. q.pc # "idle" => q.label \in Label
    BY DEF Typed, RequestsTyped
  <1>1. CASE LoadOutbox(c)
    <2>1. [q EXCEPT !.pc = "admit", !.todo = local[V(c)] \ Known(V(c), P(c)), !.seen = hub]
            \in RequestType
      BY <1>q, SyncAssumption DEF Typed, TypeOK, RequestType, PCs, V
    <2> QED
      BY <2>1, <1>1, <1>q, <1>l, GotoTyped DEF LoadOutbox, RequestType, Typed, TypeOK, AdminTyped
  <1>2. CASE RefusePush(c)
    BY <1>2, FinishTyped, FinishRequestsTyped DEF RefusePush, Typed, TypeOK, AdminTyped
  <1>3. ASSUME NEW r \in q.todo, SettleTask(c, r)
        PROVE  Typed'
    <2> DEFINE H == SeenUnderLock(c, r)
               s == Decided(c, r, Code(c, r, H), H)
    <2>1. r \in Record /\ H \in SUBSET Record /\ Code(c, r, H) \in Codes
      BY <1>q, SeenTyped, CodeTyped DEF RequestType, Code
    <2>2. s \in RequestType /\ s.pc = "admit" /\ s.label = q.label
      BY <2>1, DecidedTyped
    <2>3. Goto(c, s) /\ q.pc # "idle" /\ UNCHANGED <<hubVars, vaultVars, lockVars, admin>>
      BY <1>3 DEF SettleTask
    <2> HIDE DEF s
    <2> QED
      BY <2>2, <2>3, <1>l, GotoTyped DEF Typed, TypeOK, AdminTyped
  <1>4. ASSUME NEW r \in q.todo, DecideTask(c, r)
        PROVE  Typed'
    <2> DEFINE H == SeenUnderLock(c, r)
               s == [q EXCEPT !.pc = "write", !.seen = H, !.current = r]
    <2>1. r \in Record /\ H \in SUBSET Record /\ IsTask(r) /\ r.task \in Task
      BY <1>4, <1>q, SeenTyped, RecordAssumption DEF RequestType, DecideTask, TaskRevision
    <2>2. s \in RequestType /\ s.pc = "write" /\ s.label = q.label /\ s.current = r
      BY <2>1, <1>q DEF RequestType, PCs
    <2>3. /\ Goto(c, s) /\ q.pc # "idle"
          /\ taskLock' = [taskLock EXCEPT ![r.task] = c]
          /\ UNCHANGED <<hubVars, vaultVars, principalLock, applyLock, admin>>
      BY <1>4 DEF DecideTask
    <2> HIDE DEF s
    <2>4. client' \in [Client -> RequestType] /\ RequestsTyped'
      BY <2>1, <2>2, <2>3, <1>l, GotoTyped
    <2> QED
      BY <2>1, <2>3, <2>4 DEF Typed, TypeOK, AdminTyped
  <1>5. ASSUME NEW r \in q.todo, TaskLockBusy(c, r)
        PROVE  Typed'
    BY <1>5, FinishTyped, FinishRequestsTyped DEF TaskLockBusy, Typed, TypeOK, AdminTyped
  <1>6. ASSUME NEW r \in q.todo, AdmitOther(c, r)
        PROVE  Typed'
    <2> DEFINE code == Code(c, r, q.seen)
               new == IF code = "admitted" THEN {r} ELSE {}
               s == Decided(c, r, code, q.seen \cup new)
    <2>1. r \in Record /\ q.seen \cup new \in SUBSET Record /\ code \in Codes
      BY <1>q, CodeTyped DEF RequestType, Code
    <2>2. s \in RequestType /\ s.pc = "admit" /\ s.label = q.label
      BY <2>1, DecidedTyped
    <2>3. /\ Goto(c, s) /\ q.pc # "idle" /\ hub' = hub \cup new
          /\ UNCHANGED <<retained, config, vaultVars, lockVars, admin>>
      BY <1>6 DEF AdmitOther
    <2> HIDE DEF s
    <2>4. client' \in [Client -> RequestType] /\ RequestsTyped'
      BY <2>2, <2>3, <1>l, GotoTyped
    <2> QED
      BY <2>1, <2>3, <2>4 DEF Typed, TypeOK, AdminTyped
  <1>7. CASE StoreTask(c)
    <2> DEFINE r == q.current
               s == Decided(c, r, "admitted", q.seen \cup {r})
    <2>1. r \in Record /\ IsTask(r) /\ r.task \in Task
      BY <1>7, RecordAssumption DEF StoreTask, Typed, RequestsTyped, TaskRevision
    <2>2. q.seen \cup {r} \in SUBSET Record /\ "admitted" \in Codes
      BY <2>1, <1>q DEF RequestType, Codes
    <2>3. s \in RequestType /\ s.pc = "admit" /\ s.label = q.label
      BY <2>1, <2>2, DecidedTyped
    <2>4. /\ Goto(c, s) /\ q.pc # "idle" /\ hub' = hub \cup {r}
          /\ taskLock' = [taskLock EXCEPT ![r.task] = None]
          /\ UNCHANGED <<retained, config, vaultVars, principalLock, applyLock, admin>>
      BY <1>7 DEF StoreTask
    <2> HIDE DEF s
    <2>5. client' \in [Client -> RequestType] /\ RequestsTyped'
      BY <2>3, <2>4, <1>l, GotoTyped
    <2> QED
      BY <2>1, <2>4, <2>5 DEF Typed, TypeOK, AdminTyped
  <1>8. CASE SavePending(c)
    <2> DEFINE e == [principal |-> P(c), label |-> q.label, generation |-> q.generation,
                     outcomes |-> q.outcomes]
               s == [q EXCEPT !.pc = "pull", !.seen = {}, !.outcomes = {}]
    <2>1. /\ q.pc = "admit" /\ pending' = [pending EXCEPT ![V(c)] = e]
          /\ UNCHANGED <<hubVars, local, projections, marker, admin>>
          /\ \/ Goto(c, s) /\ UNCHANGED lockVars
             \/ Finish(c)
      BY <1>8 DEF SavePending
    <2>2. e \in EnvelopeType
      BY <2>1, <1>q, <1>l, SyncAssumption DEF EnvelopeType, RequestType, P
    <2>3. pending' \in [Vault -> EnvelopeType \cup {None}]
      BY <2>1, <2>2, SyncAssumption DEF Typed, TypeOK, V
    <2>4. s \in RequestType /\ s.pc = "pull" /\ s.label = q.label
      BY <1>q DEF RequestType, PCs
    <2> HIDE DEF s, e
    <2>5. CASE Goto(c, s) /\ UNCHANGED lockVars
      BY <2>1, <2>3, <2>4, <2>5, <1>l, GotoTyped DEF Typed, TypeOK, AdminTyped
    <2>6. CASE Finish(c)
      BY <2>1, <2>3, <2>6, FinishTyped, FinishRequestsTyped DEF Typed, TypeOK, AdminTyped
    <2> QED
      BY <2>1, <2>5, <2>6
  <1> QED
    BY <1>1, <1>2, <1>3, <1>4, <1>5, <1>6, <1>7, <1>8 DEF PushStep

LEMMA ReceiptTyped ==
  ASSUME Typed, NEW c \in Client, NEW t \in Time, client[c].pc = "pull"
  PROVE  Receipt(c, t) \in ReceiptType
  <1> DEFINE shown == AuthorizedRecords(hub, client[c].label)
  <1>1. hub \in SUBSET Record /\ retained \in SUBSET Label
    BY DEF Typed, TypeOK
  <1>2. IsFiniteSet(hub \ shown) /\ IsFiniteSet(retained)
    BY <1>1, RecordAssumption, FS_Subset
  <1>3. Cardinality(hub \ shown) + Cardinality(retained) \in Nat
    BY <1>2, FS_CardinalityType
  <1>4. P(c) \in Principal /\ V(c) \in Vault
    BY SyncAssumption DEF P, V
  <1>5. client[c].label \in Label /\ client[c].generation \in Generation
    BY DEF Typed, TypeOK, RequestsTyped, RequestType
  <1>6. shown \in SUBSET Record
    BY <1>1 DEF AuthorizedRecords
  <1>7. (IF pending[V(c)] = None THEN {} ELSE pending[V(c)].outcomes) \in SUBSET OutcomeType
    BY <1>4 DEF Typed, TypeOK, EnvelopeType
  <1> QED
    BY <1>3, <1>4, <1>5, <1>6, <1>7 DEF Receipt, ReceiptType

LEMMA PullTyped ==
  ASSUME Typed, NEW c \in Client, PullStep(c)
  PROVE  Typed'
  <1> USE DEF hubVars, vaultVars, lockVars
  <1> DEFINE q == client[c]
  <1>q. q \in RequestType
    BY DEF Typed, TypeOK
  <1>l. q.pc # "idle" => q.label \in Label
    BY DEF Typed, RequestsTyped
  <1>v. V(c) \in Vault
    BY SyncAssumption DEF V
  <1>1. ASSUME NEW t \in Time, BuildResponse(c, t)
        PROVE  Typed'
    <2> DEFINE s == [q EXCEPT !.pc = "apply", !.loaded = pending[V(c)],
                              !.response = Receipt(c, t)]
    <2>1. /\ q.pc = "pull" /\ Goto(c, s)
          /\ UNCHANGED <<hubVars, vaultVars, lockVars, admin>>
      BY <1>1 DEF BuildResponse
    <2>2. Receipt(c, t) \in ReceiptType
      BY <2>1, ReceiptTyped
    <2>3. pending[V(c)] \in EnvelopeType \cup {None}
      BY <1>v DEF Typed, TypeOK
    <2>4. s \in RequestType /\ s.pc = "apply" /\ s.label = q.label /\ s.response = Receipt(c, t)
      BY <2>2, <2>3, <1>q DEF RequestType, PCs
    <2> HIDE DEF s
    <2> QED
      BY <2>1, <2>2, <2>4, <1>l, GotoTyped DEF Typed, TypeOK, AdminTyped
  <1>2. CASE RefusePull(c)
    BY <1>2, FinishTyped, FinishRequestsTyped DEF RefusePull, Typed, TypeOK, AdminTyped
  <1>3. CASE RefuseApply(c)
    BY <1>3, FinishTyped, FinishRequestsTyped DEF RefuseApply, Typed, TypeOK, AdminTyped
  <1>4. CASE ApplyNothing(c)
    <2> DEFINE s == [q EXCEPT !.pc = "consume"]
    <2>1. q.pc = "apply" /\ Goto(c, s) /\ UNCHANGED <<hubVars, vaultVars, lockVars, admin>>
      BY <1>4 DEF ApplyNothing
    <2>2. s \in RequestType /\ s.pc = "consume" /\ s.label = q.label
      BY <1>q DEF RequestType, PCs
    <2> HIDE DEF s
    <2> QED
      BY <2>1, <2>2, <1>l, GotoTyped DEF Typed, TypeOK, AdminTyped
  <1>5. CASE StartApply(c)
    <2> DEFINE s == [q EXCEPT !.pc = "expose", !.todo = RecordsToExpose(c)]
    <2>1. /\ q.pc = "apply" /\ Goto(c, s)
          /\ applyLock' = [applyLock EXCEPT ![V(c)] = c]
          /\ projections' = [projections EXCEPT ![V(c)] = ReceiptFirst(c)]
          /\ UNCHANGED <<hubVars, local, marker, pending, principalLock, taskLock, admin>>
      BY <1>5 DEF StartApply
    <2>2. q.response \in ReceiptType
      BY <2>1 DEF Typed, RequestsTyped
    <2>3. RecordsToExpose(c) \in SUBSET Record
      BY <2>2 DEF RecordsToExpose, ReceiptType
    <2>4. projections[V(c)] \in SUBSET ReceiptType
      BY <1>v DEF Typed, TypeOK
    <2>5. projections' \in [Vault -> SUBSET ReceiptType]
      BY <2>1, <2>2, <2>4 DEF ReceiptFirst, Typed, TypeOK
    <2>6. /\ s \in RequestType /\ s.pc = "expose" /\ s.label = q.label
          /\ s.response = q.response
      BY <2>3, <1>q DEF RequestType, PCs
    <2> HIDE DEF s
    <2>7. client' \in [Client -> RequestType] /\ RequestsTyped'
      BY <2>1, <2>2, <2>6, <1>l, GotoTyped
    <2> QED
      BY <2>1, <2>5, <2>7 DEF Typed, TypeOK, AdminTyped
  <1>6. ASSUME NEW r \in q.todo, ExposeRecord(c, r)
        PROVE  Typed'
    <2> DEFINE s == [q EXCEPT !.todo = @ \ {r}]
    <2>1. /\ q.pc = "expose" /\ Goto(c, s)
          /\ local' = [local EXCEPT ![V(c)] = @ \cup {r}]
          /\ UNCHANGED <<hubVars, projections, marker, pending, lockVars, admin>>
      BY <1>6 DEF ExposeRecord
    <2>2. r \in Record /\ q.todo \ {r} \in SUBSET Record
      BY <1>q DEF RequestType
    <2>3. local' \in [Vault -> SUBSET Record]
      BY <2>1, <2>2, <1>v DEF Typed, TypeOK
    <2>4. /\ s \in RequestType /\ s.pc = "expose" /\ s.label = q.label
          /\ s.response = q.response
      BY <2>1, <2>2, <1>q DEF RequestType
    <2>5. q.response \in ReceiptType
      BY <2>1 DEF Typed, RequestsTyped
    <2> HIDE DEF s
    <2>6. client' \in [Client -> RequestType] /\ RequestsTyped'
      BY <2>1, <2>4, <2>5, <1>l, GotoTyped
    <2> QED
      BY <2>1, <2>3, <2>6 DEF Typed, TypeOK, AdminTyped
  <1>7. CASE AdvanceMarker(c)
    <2> DEFINE s == [q EXCEPT !.pc = "consume"]
    <2>1. /\ q.pc = "expose" /\ Goto(c, s)
          /\ marker' = [marker EXCEPT ![V(c)] = q.response]
          /\ applyLock' = [applyLock EXCEPT ![V(c)] = None]
          /\ UNCHANGED <<hubVars, local, projections, pending, principalLock, taskLock, admin>>
      BY <1>7 DEF AdvanceMarker
    <2>2. q.response \in ReceiptType
      BY <2>1 DEF Typed, RequestsTyped
    <2>3. marker' \in [Vault -> ReceiptType \cup {None}]
      BY <2>1, <2>2, <1>v DEF Typed, TypeOK
    <2>4. s \in RequestType /\ s.pc = "consume" /\ s.label = q.label
      BY <1>q DEF RequestType, PCs
    <2> HIDE DEF s
    <2>5. client' \in [Client -> RequestType] /\ RequestsTyped'
      BY <2>1, <2>4, <1>l, GotoTyped
    <2> QED
      BY <2>1, <2>3, <2>5 DEF Typed, TypeOK, AdminTyped
  <1>8. CASE ConsumePending(c)
    <2>1. /\ Finish(c) /\ UNCHANGED <<hubVars, local, projections, marker, admin>>
          /\ \/ pending' = [pending EXCEPT ![V(c)] = None]
             \/ pending' = pending
      BY <1>8 DEF ConsumePending
    <2>2. pending' \in [Vault -> EnvelopeType \cup {None}]
      BY <2>1 DEF Typed, TypeOK
    <2> QED
      BY <2>1, <2>2, FinishTyped, FinishRequestsTyped DEF Typed, TypeOK, AdminTyped
  <1> QED
    BY <1>1, <1>2, <1>3, <1>4, <1>5, <1>6, <1>7, <1>8 DEF PullStep

LEMMA AdminStepTyped ==
  ASSUME Typed, AdminStep
  PROVE  Typed'
  <1> USE DEF hubVars, vaultVars, lockVars
  <1>1. ASSUME NEW b \in Bindings, NEW g \in Generation, BeginConfigure(b, g)
        PROVE  Typed'
    <2>1. b \in BindingTables
      BY SyncAssumption
    <2>2. admin' \in AdminType /\ admin'.next \in ConfigType
      BY <1>1, <2>1 DEF BeginConfigure, AdminType, ConfigType, LabelsToRetain, LabelsOf,
        Bound, BindingTables
    <2>3. principalLock' \in [Principal -> Client \cup {Admin, None}]
      BY <1>1 DEF BeginConfigure, Typed, TypeOK
    <2> QED
      BY <1>1, <2>2, <2>3 DEF BeginConfigure, Typed, TypeOK, RequestsTyped, AdminTyped
  <1>2. ASSUME NEW l \in Label, RetainLabel(l)
        PROVE  Typed'
    BY <1>2 DEF RetainLabel, Typed, TypeOK, AdminType, RequestsTyped, AdminTyped
  <1>3. CASE ReplaceConfig
    <2>1. config' \in ConfigType
      BY <1>3 DEF ReplaceConfig, Typed, AdminTyped
    <2>2. admin' \in AdminType /\ admin'.pc = "idle"
      BY <1>3, IdleTyped DEF ReplaceConfig, NotConfiguring
    <2> QED
      BY <1>3, <2>1, <2>2, AdminReleaseTyped
      DEF ReplaceConfig, Typed, TypeOK, RequestsTyped, AdminTyped
  <1>4. CASE CrashConfigure
    <2>1. admin' \in AdminType /\ admin'.pc = "idle"
      BY <1>4, IdleTyped DEF CrashConfigure, NotConfiguring
    <2> QED
      BY <1>4, <2>1, AdminReleaseTyped
      DEF CrashConfigure, Typed, TypeOK, RequestsTyped, AdminTyped
  <1> QED
    BY <1>1, <1>2, <1>3, <1>4 DEF AdminStep

LEMMA NextTyped ==
  ASSUME Typed, [Next]_vars
  PROVE  Typed'
  <1> USE DEF hubVars, vaultVars, lockVars
  <1>1. ASSUME NEW v \in Vault, NEW r \in Record, AppendLocal(v, r)
        PROVE  Typed'
    BY <1>1 DEF AppendLocal, Typed, TypeOK, RequestsTyped, AdminTyped
  <1>2. ASSUME NEW c \in Client, NEW ph \in Phases, BindSession(c, ph)
        PROVE  Typed'
    <2> DEFINE s == [Idle EXCEPT !.pc = IF ph = "pull" THEN "pull" ELSE "push",
                          !.phase = ph,
                          !.label = config.binding[P(c)],
                          !.generation = config.generation]
    <2>1. /\ BindingAvailable(c) /\ Goto(c, s)
          /\ principalLock' = [principalLock EXCEPT ![P(c)] = c]
          /\ UNCHANGED <<hubVars, vaultVars, taskLock, applyLock, admin>>
      BY <1>2 DEF BindSession
    <2>2. P(c) \in Principal
      BY SyncAssumption DEF P
    <2>3. config.binding[P(c)] \in Label /\ config.generation \in Generation
      BY <2>1, <2>2 DEF BindingAvailable, Typed, TypeOK, ConfigType, BindingTables
    <2>4. s \in RequestType /\ s.pc \in {"pull", "push"} /\ s.label = config.binding[P(c)]
      BY <2>3, IdleTyped DEF Idle, RequestType, PCs
    <2> HIDE DEF s
    <2>5. client' \in [Client -> RequestType] /\ RequestsTyped'
      BY <2>1, <2>3, <2>4, GotoTyped
    <2> QED
      BY <2>1, <2>5 DEF Typed, TypeOK, AdminTyped
  <1>3. ASSUME NEW c \in Client, Crash(c)
        PROVE  Typed'
    BY <1>3, FinishTyped, FinishRequestsTyped DEF Crash, Typed, TypeOK, AdminTyped
  <1>4. ASSUME NEW o \in hub, HubClaim(o)
        PROVE  Typed'
    BY <1>4, RecordAssumption DEF HubClaim, Typed, TypeOK, RequestsTyped, AdminTyped
  <1>5. CASE UNCHANGED vars
    BY <1>5 DEF vars, Typed, TypeOK, RequestsTyped, AdminTyped
  <1> QED
    BY <1>1, <1>2, <1>3, <1>4, <1>5, PushTyped, PullTyped, AdminStepTyped DEF Next

(***************************************************************************)
(* Type correctness: no step of a client, an administrator or a claimant   *)
(* stores anything but a record, a label, a receipt or an envelope where   *)
(* one is expected, and every lock is held by a process or nobody.         *)
(***************************************************************************)
THEOREM TypeCorrect == Spec => []TypeOK
  <1>1. Init => Typed
    BY InitTyped
  <1>2. Typed /\ [Next]_vars => Typed'
    BY NextTyped
  <1>3. Typed => TypeOK
    BY DEF Typed
  <1> QED
    BY <1>1, <1>2, <1>3, PTL DEF Spec
-----------------------------------------------------------------------------
(***************************************************************************)
(* The principal lock.  BindingInForce alone is not inductive: it needs    *)
(* that a bound request holds its principal's lock and that an             *)
(* administrator holds every lock its replacement can affect.              *)
(***************************************************************************)
RequestsLocked ==
  \A c \in Client : client[c].pc # "idle" => principalLock[P(c)] = c

AdminLocked ==
  admin.pc = "retain" =>
    \A p \in AffectedPrincipals(admin.next.binding) : principalLock[p] = Admin

Locked == Typed /\ RequestsLocked /\ AdminLocked /\ BindingInForce

(***************************************************************************)
(* A step of a bound request goes on under the same binding, or ends it.   *)
(***************************************************************************)
Continues(c) ==
  /\ client[c].pc # "idle"
  /\ client'[c].label = client[c].label
  /\ client'[c].generation = client[c].generation
  /\ \A d \in Client \ {c} : client'[d] = client[d]
  /\ UNCHANGED principalLock

LEMMA GotoContinues ==
  ASSUME Typed, NEW c \in Client, NEW s, Goto(c, s), client[c].pc # "idle",
         s.label = client[c].label, s.generation = client[c].generation,
         UNCHANGED principalLock
  PROVE  Continues(c)
  BY DEF Typed, TypeOK, Goto, Continues

LEMMA DecidedKeepsBinding ==
  ASSUME Typed, NEW c \in Client, NEW r, NEW code, NEW H
  PROVE  /\ Decided(c, r, code, H).label = client[c].label
         /\ Decided(c, r, code, H).generation = client[c].generation
  <1>1. client[c] \in RequestType
    BY DEF Typed, TypeOK
  <1> QED
    BY <1>1 DEF Decided, RequestType

LEMMA RequestStep ==
  ASSUME Typed, NEW c \in Client, PushStep(c) \/ PullStep(c)
  PROVE  /\ Finish(c) \/ Continues(c)
         /\ UNCHANGED <<retained, config, admin>>
  <1> USE DEF hubVars, vaultVars, lockVars
  <1> DEFINE q == client[c]
  <1>q. q \in RequestType
    BY DEF Typed, TypeOK
  <1>1. CASE LoadOutbox(c)
    BY <1>1, <1>q, GotoContinues DEF LoadOutbox, RequestType
  <1>2. CASE RefusePush(c)
    BY <1>2 DEF RefusePush
  <1>3. ASSUME NEW r \in q.todo, SettleTask(c, r)
        PROVE  Continues(c) /\ UNCHANGED <<retained, config, admin>>
    BY <1>3, GotoContinues, DecidedKeepsBinding DEF SettleTask
  <1>4. ASSUME NEW r \in q.todo, DecideTask(c, r)
        PROVE  Continues(c) /\ UNCHANGED <<retained, config, admin>>
    BY <1>4, <1>q, GotoContinues DEF DecideTask, RequestType
  <1>5. ASSUME NEW r \in q.todo, TaskLockBusy(c, r)
        PROVE  Finish(c) /\ UNCHANGED <<retained, config, admin>>
    BY <1>5 DEF TaskLockBusy
  <1>6. ASSUME NEW r \in q.todo, AdmitOther(c, r)
        PROVE  Continues(c) /\ UNCHANGED <<retained, config, admin>>
    BY <1>6, GotoContinues, DecidedKeepsBinding DEF AdmitOther
  <1>7. CASE StoreTask(c)
    BY <1>7, GotoContinues, DecidedKeepsBinding DEF StoreTask
  <1>8. CASE SavePending(c)
    BY <1>8, <1>q, GotoContinues DEF SavePending, RequestType
  <1>9. ASSUME NEW t \in Time, BuildResponse(c, t)
        PROVE  Continues(c) /\ UNCHANGED <<retained, config, admin>>
    BY <1>9, <1>q, GotoContinues DEF BuildResponse, RequestType
  <1>10. CASE RefusePull(c)
    BY <1>10 DEF RefusePull
  <1>11. CASE RefuseApply(c)
    BY <1>11 DEF RefuseApply
  <1>12. CASE ApplyNothing(c)
    BY <1>12, <1>q, GotoContinues DEF ApplyNothing, RequestType
  <1>13. CASE StartApply(c)
    BY <1>13, <1>q, GotoContinues DEF StartApply, RequestType
  <1>14. ASSUME NEW r \in q.todo, ExposeRecord(c, r)
         PROVE  Continues(c) /\ UNCHANGED <<retained, config, admin>>
    BY <1>14, <1>q, GotoContinues DEF ExposeRecord, RequestType
  <1>15. CASE AdvanceMarker(c)
    BY <1>15, <1>q, GotoContinues DEF AdvanceMarker, RequestType
  <1>16. CASE ConsumePending(c)
    BY <1>16 DEF ConsumePending
  <1> QED
    BY <1>1, <1>2, <1>3, <1>4, <1>5, <1>6, <1>7, <1>8, <1>9, <1>10, <1>11, <1>12,
      <1>13, <1>14, <1>15, <1>16 DEF PushStep, PullStep

LEMMA ContinuesLocked ==
  ASSUME Locked, NEW c \in Client, Continues(c), UNCHANGED <<config, admin>>
  PROVE  RequestsLocked' /\ AdminLocked' /\ BindingInForce'
  BY DEF Locked, Continues, RequestsLocked, AdminLocked, BindingInForce, AffectedPrincipals

LEMMA FinishLocked ==
  ASSUME Locked, NEW c \in Client, Finish(c), UNCHANGED <<config, admin>>
  PROVE  RequestsLocked' /\ AdminLocked' /\ BindingInForce'
  <1>1. \A d \in Client : client'[d] = IF d = c THEN Idle ELSE client[d]
    BY FinishTyped DEF Locked
  <1>2. \A p \in Principal :
          principalLock'[p] = IF principalLock[p] = c THEN None ELSE principalLock[p]
    BY DEF Finish, ReleaseLocks
  <1>3. RequestsLocked' /\ BindingInForce'
    BY <1>1, <1>2, SyncAssumption DEF Locked, RequestsLocked, BindingInForce, Idle, P
  <1>4. AdminLocked'
    BY <1>2, SyncAssumption DEF Locked, AdminLocked, AffectedPrincipals, Bound
  <1> QED
    BY <1>3, <1>4

LEMMA BindLocked ==
  ASSUME Locked, NEW c \in Client, NEW ph \in Phases, BindSession(c, ph)
  PROVE  RequestsLocked' /\ AdminLocked' /\ BindingInForce'
  <1> DEFINE s == [Idle EXCEPT !.pc = IF ph = "pull" THEN "pull" ELSE "push",
                          !.phase = ph,
                          !.label = config.binding[P(c)],
                          !.generation = config.generation]
  <1>1. /\ admin.pc = "idle" /\ principalLock[P(c)] = None
        /\ principalLock' = [principalLock EXCEPT ![P(c)] = c]
        /\ client' = [client EXCEPT ![c] = s]
        /\ config' = config /\ admin' = admin
    BY DEF BindSession, BindingAvailable, Goto, hubVars
  <1>2. s.label = config.binding[P(c)] /\ s.generation = config.generation
    BY DEF Idle
  <1> HIDE DEF s
  <1>3. \A d \in Client : client'[d] = IF d = c THEN s ELSE client[d]
    BY <1>1 DEF Locked, Typed, TypeOK
  <1>4. \A p \in Principal :
          principalLock'[p] = IF p = P(c) THEN c ELSE principalLock[p]
    BY <1>1 DEF Locked, Typed, TypeOK
  <1>5. RequestsLocked'
    BY <1>1, <1>3, <1>4, SyncAssumption DEF Locked, RequestsLocked, P
  <1>6. BindingInForce'
    BY <1>1, <1>2, <1>3 DEF Locked, BindingInForce
  <1>7. AdminLocked'
    BY <1>1 DEF AdminLocked
  <1> QED
    BY <1>5, <1>6, <1>7

LEMMA ConfigureLocked ==
  ASSUME Locked, AdminStep
  PROVE  RequestsLocked' /\ AdminLocked' /\ BindingInForce'
  <1> USE DEF hubVars, vaultVars, lockVars
  <1>1. ASSUME NEW b \in Bindings, NEW g \in Generation, BeginConfigure(b, g)
        PROVE  RequestsLocked' /\ AdminLocked' /\ BindingInForce'
    <2>1. /\ \A p \in AffectedPrincipals(b) : principalLock[p] = None
          /\ admin' = [pc |-> "retain", next |-> [binding |-> b, generation |-> g],
                       todo |-> LabelsToRetain(b)]
          /\ config' = config /\ client' = client
      BY <1>1 DEF BeginConfigure
    <2>2. \A p \in Principal :
            principalLock'[p] = IF p \in AffectedPrincipals(b) THEN Admin ELSE principalLock[p]
      BY <1>1 DEF BeginConfigure
    <2>3. RequestsLocked'
      BY <2>1, <2>2, SyncAssumption DEF Locked, RequestsLocked, P
    <2>4. AdminLocked'
      BY <2>1, <2>2 DEF AdminLocked, AffectedPrincipals, Bound
    <2> QED
      BY <2>1, <2>3, <2>4 DEF Locked, BindingInForce
  <1>2. ASSUME NEW l \in Label, RetainLabel(l)
        PROVE  RequestsLocked' /\ AdminLocked' /\ BindingInForce'
    <2>1. admin'.pc = admin.pc /\ admin'.next = admin.next
      BY <1>2 DEF RetainLabel, Locked, Typed, TypeOK, AdminType
    <2> QED
      BY <1>2, <2>1 DEF RetainLabel, Locked, RequestsLocked, AdminLocked, BindingInForce,
        AffectedPrincipals
  <1>3. ASSUME ReleaseLocks(Admin), client' = client
        PROVE  RequestsLocked'
    BY <1>3, SyncAssumption DEF ReleaseLocks, Locked, RequestsLocked, P
  <1>4. CASE ReplaceConfig
    <2>1. \A c \in Client : client[c].pc = "idle"
      <3> SUFFICES ASSUME NEW c \in Client, client[c].pc # "idle" PROVE FALSE
        OBVIOUS
      <3>1. config.binding[P(c)] \in Label /\ P(c) \in Principal
        BY SyncAssumption DEF Locked, BindingInForce, Typed, RequestsTyped, P
      <3>2. P(c) \in AffectedPrincipals(admin.next.binding)
        BY <3>1, SyncAssumption DEF AffectedPrincipals, Bound
      <3>3. principalLock[P(c)] = Admin
        BY <1>4, <3>2 DEF ReplaceConfig, Locked, AdminLocked
      <3> QED
        BY <3>3, SyncAssumption DEF Locked, RequestsLocked
    <2> QED
      BY <1>3, <1>4, <2>1
      DEF ReplaceConfig, NotConfiguring, AdminLocked, BindingInForce
  <1>5. CASE CrashConfigure
    BY <1>3, <1>5 DEF CrashConfigure, NotConfiguring, AdminLocked, Locked, BindingInForce
  <1> QED
    BY <1>1, <1>2, <1>4, <1>5 DEF AdminStep

LEMMA NextLocked ==
  ASSUME Locked, [Next]_vars
  PROVE  Locked'
  <1> USE DEF hubVars, vaultVars, lockVars
  <1>1. Typed'
    BY NextTyped DEF Locked
  <1>2. ASSUME UNCHANGED <<config, principalLock, client, admin>>
        PROVE  RequestsLocked' /\ AdminLocked' /\ BindingInForce'
    BY <1>2 DEF Locked, RequestsLocked, AdminLocked, BindingInForce, AffectedPrincipals
  <1>3. ASSUME NEW v \in Vault, NEW r \in Record, AppendLocal(v, r)
        PROVE  UNCHANGED <<config, principalLock, client, admin>>
    BY <1>3 DEF AppendLocal
  <1>4. ASSUME NEW o \in hub, HubClaim(o)
        PROVE  UNCHANGED <<config, principalLock, client, admin>>
    BY <1>4 DEF HubClaim
  <1>5. ASSUME NEW c \in Client, PushStep(c) \/ PullStep(c)
        PROVE  RequestsLocked' /\ AdminLocked' /\ BindingInForce'
    BY <1>5, RequestStep, ContinuesLocked, FinishLocked DEF Locked
  <1>6. ASSUME NEW c \in Client, Crash(c)
        PROVE  RequestsLocked' /\ AdminLocked' /\ BindingInForce'
    BY <1>6, FinishLocked DEF Crash
  <1>7. ASSUME UNCHANGED vars
        PROVE  RequestsLocked' /\ AdminLocked' /\ BindingInForce'
    BY <1>2, <1>7 DEF vars
  <1>8. RequestsLocked' /\ AdminLocked' /\ BindingInForce'
    BY <1>2, <1>3, <1>4, <1>5, <1>6, <1>7, BindLocked, ConfigureLocked DEF Next
  <1> QED
    BY <1>1, <1>8 DEF Locked

(***************************************************************************)
(* A bound request works under the binding, label and generation in force, *)
(* from authentication until it ends or crashes: no administrative         *)
(* replacement, however interleaved, can revoke or rotate under it.        *)
(***************************************************************************)
THEOREM BindingStaysInForce == Spec => []BindingInForce
  <1>1. Init => Locked
    BY InitTyped DEF Init, Locked, RequestsLocked, AdminLocked, BindingInForce, Idle,
      NotConfiguring
  <1>2. Locked /\ [Next]_vars => Locked'
    BY NextLocked
  <1>3. Locked => BindingInForce
    BY DEF Locked
  <1> QED
    BY <1>1, <1>2, <1>3, PTL DEF Spec

-----------------------------------------------------------------------------
(***************************************************************************)
(* The inductive invariant                                                 *)
(***************************************************************************)
Unforked == \A t \in Task : HistoryOK(hub, t)

WriterReady ==
  \A c \in Client : client[c].pc = "write" =>
    /\ client[c].current.kind = "open"
    /\ taskLock[client[c].current.task] = c
    /\ Revisions(hub, client[c].current.task) = {}

SeenInHub ==
  \A c \in Client : client[c].pc \in {"admit", "write"} => client[c].seen \subseteq hub

Labelled(r) == r.label \in retained /\ Declares(r.label, r.project)

HubLabelled ==
  /\ \A r \in hub : Labelled(r)
  /\ \A c \in Client : client[c].pc = "write" => Labelled(client[c].current)

HubReceiptsBound ==
  \A r \in hub : r.kind = "receipt" => ReceiptBindingValid(r, hub, r.label)

LabelsRetained ==
  /\ LabelsOf(config.binding) \subseteq retained
  /\ admin.pc = "retain" =>
       LabelsOf(admin.next.binding) \subseteq retained \cup admin.todo

HubOK == Unforked /\ WriterReady /\ SeenInHub /\ HubLabelled /\ HubReceiptsBound

HubInv == Locked /\ LabelsRetained /\ HubOK

LEMMA HubInvImpliesEgress == HubInv => EgressNeverFails
  <1> SUFFICES ASSUME HubInv PROVE EgressNeverFails
    OBVIOUS
  <1>1. ChainsValid(hub)
    BY HistoryValid DEF HubInv, HubOK, Unforked, ChainsValid
  <1> QED
    BY <1>1 DEF HubInv, HubOK, HubLabelled, Labelled, HubReceiptsBound, EgressNeverFails,
      EgressValid, Consistent

-----------------------------------------------------------------------------
(***************************************************************************)
(* Steps that leave the hub alone                                          *)
(***************************************************************************)
LEMMA QuietStep ==
  ASSUME HubInv, hub' = hub, retained \subseteq retained',
         \A d \in Client : client'[d].pc = "write" =>
           /\ client'[d] = client[d]
           /\ taskLock'[client[d].current.task] = taskLock[client[d].current.task],
         \A d \in Client : client'[d].pc = "admit" => client'[d].seen \subseteq hub
  PROVE  HubOK'
  <1> USE DEF HubInv, HubOK
  <1>1. Unforked' /\ HubReceiptsBound'
    BY DEF Unforked, HistoryOK, HubReceiptsBound, ReceiptBindingValid
  <1>2. WriterReady'
    BY DEF WriterReady
  <1>3. SeenInHub'
    BY DEF SeenInHub
  <1>4. HubLabelled'
    BY DEF HubLabelled, Labelled
  <1> QED
    BY <1>1, <1>2, <1>3, <1>4

LEMMA QuietRequestStep ==
  ASSUME HubInv, NEW c \in Client, hub' = hub, retained' = retained,
         \A d \in Client \ {c} : client'[d] = client[d],
         \A t \in Task : taskLock'[t] = taskLock[t] \/ taskLock[t] = c,
         client'[c].pc # "write",
         client'[c].pc = "admit" => client'[c].seen \subseteq hub
  PROVE  HubOK'
  <1>1. ASSUME NEW d \in Client, client'[d].pc = "write"
        PROVE  /\ client'[d] = client[d]
               /\ taskLock'[client[d].current.task] = taskLock[client[d].current.task]
    <2>1. d # c /\ client'[d] = client[d]
      BY <1>1
    <2>2. client[d].current.task \in Task
      BY <1>1, <2>1, RecordAssumption DEF HubInv, Locked, Typed, RequestsTyped, TaskRevision
    <2>3. taskLock[client[d].current.task] = d
      BY <1>1, <2>1 DEF HubInv, HubOK, WriterReady
    <2> QED
      BY <2>1, <2>2, <2>3
  <1>2. ASSUME NEW d \in Client, client'[d].pc = "admit"
        PROVE  client'[d].seen \subseteq hub
    BY <1>2 DEF HubInv, HubOK, SeenInHub
  <1> QED
    BY <1>1, <1>2, QuietStep

LEMMA FinishHub ==
  ASSUME HubInv, NEW c \in Client, Finish(c), UNCHANGED <<hub, retained>>
  PROVE  HubOK'
  <1>1. \A d \in Client : client'[d] = IF d = c THEN Idle ELSE client[d]
    BY FinishTyped DEF HubInv, Locked
  <1>2. \A t \in Task : taskLock'[t] = taskLock[t] \/ taskLock[t] = c
    BY DEF Finish, ReleaseLocks
  <1>3. Idle.pc = "idle"
    BY DEF Idle
  <1> QED
    BY <1>1, <1>2, <1>3, QuietRequestStep

LEMMA GotoHub ==
  ASSUME HubInv, NEW c \in Client, NEW s, Goto(c, s), UNCHANGED <<hub, retained, taskLock>>,
         s.pc # "write", s.pc = "admit" => s.seen \subseteq hub
  PROVE  HubOK'
  <1>1. \A d \in Client : client'[d] = IF d = c THEN s ELSE client[d]
    BY DEF HubInv, Locked, Typed, TypeOK, Goto
  <1> QED
    BY <1>1, QuietRequestStep

-----------------------------------------------------------------------------
(***************************************************************************)
(* Steps of a push                                                         *)
(***************************************************************************)
LEMMA AdmittedFacts ==
  ASSUME HubInv, NEW c \in Client, client[c].pc # "idle", NEW r \in Record, NEW H,
         Code(c, r, H) = "admitted"
  PROVE  /\ Labelled(r)
         /\ r.label = client[c].label
         /\ r.kind # "claimed"
         /\ r.kind = "open" => ~IdentityTaken(r, H)
         /\ r.kind = "receipt" => ReceiptBindingValid(r, H, r.label)
  <1>1. PolicyCode(r, client[c].label) = "admitted"
    BY DEF Code, SubmissionCode
  <1>2. r.kind # "label" /\ r.label = client[c].label /\ Declares(r.label, r.project)
    BY <1>1 DEF PolicyCode
  <1>3. client[c].label \in LabelsOf(config.binding)
    <2>1. client[c].label \in Label /\ config.binding[P(c)] = client[c].label
      BY DEF HubInv, Locked, Typed, RequestsTyped, BindingInForce
    <2> QED
      BY <2>1, SyncAssumption DEF LabelsOf, Bound, P
  <1>4. Labelled(r)
    BY <1>2, <1>3 DEF HubInv, LabelsRetained, Labelled
  <1> QED
    BY <1>1, <1>2, <1>4 DEF Code, SubmissionCode

LEMMA DecidedFields ==
  ASSUME HubInv, NEW c \in Client, NEW r, NEW code, NEW H
  PROVE  Decided(c, r, code, H).pc = "admit" /\ Decided(c, r, code, H).seen = H
  <1>1. client[c] \in RequestType
    BY DEF HubInv, Locked, Typed, TypeOK
  <1> QED
    BY <1>1 DEF Decided, RequestType

LEMMA DecideTaskHub ==
  ASSUME HubInv, NEW c \in Client, NEW r \in client[c].todo, DecideTask(c, r)
  PROVE  HubOK'
  <1> DEFINE H == SeenUnderLock(c, r)
             s == [client[c] EXCEPT !.pc = "write", !.seen = H, !.current = r]
  <1>0. HubInv /\ HubOK /\ Typed
    BY DEF HubInv, Locked
  <1>1. /\ client[c].pc = "admit" /\ IsTask(r) /\ taskLock[r.task] = None
        /\ Code(c, r, H) = "admitted" /\ r \notin H
        /\ taskLock' = [taskLock EXCEPT ![r.task] = c]
        /\ client' = [client EXCEPT ![c] = s]
        /\ hub' = hub /\ retained' = retained
    BY DEF DecideTask, Goto, hubVars
  <1>2. client[c] \in RequestType /\ r \in Record
    BY <1>0 DEF TypeOK, Typed, RequestType
  <1>3. s.pc = "write" /\ s.seen = H /\ s.current = r
    BY <1>2 DEF RequestType
  <1>4. r.kind = "open" /\ r.task \in Task
    BY <1>1, <1>2, AdmittedFacts, RecordAssumption DEF IsTask, TaskKinds, TaskRevision
  <1>5. Revisions(hub, r.task) = {}
    <2>1. ~IdentityTaken(r, H)
      BY <1>1, <1>2, <1>4, AdmittedFacts
    <2> QED
      BY <1>1, <2>1 DEF IdentityTaken, SeenUnderLock, Revisions
  <1>6. H \subseteq hub
    BY <1>0, <1>1 DEF HubOK, SeenInHub, SeenUnderLock, Revisions
  <1>7. Labelled(r)
    BY <1>1, <1>2, AdmittedFacts
  <1> HIDE DEF s, H
  <1>8. \A d \in Client : client'[d] = IF d = c THEN s ELSE client[d]
    BY <1>0, <1>1 DEF Typed, TypeOK
  <1>9. \A t \in Task : taskLock'[t] = IF t = r.task THEN c ELSE taskLock[t]
    BY <1>0, <1>1 DEF Typed, TypeOK
  <1>10. Unforked' /\ HubReceiptsBound'
    BY <1>0, <1>1 DEF HubOK, Unforked, HistoryOK, HubReceiptsBound, ReceiptBindingValid
  <1>11. WriterReady'
    <2> SUFFICES ASSUME NEW d \in Client, client'[d].pc = "write"
                 PROVE  /\ client'[d].current.kind = "open"
                        /\ taskLock'[client'[d].current.task] = d
                        /\ Revisions(hub', client'[d].current.task) = {}
      BY DEF WriterReady
    <2>1. CASE d = c
      BY <2>1, <1>1, <1>3, <1>4, <1>5, <1>8, <1>9
    <2>2. CASE d # c
      <3>1. client'[d] = client[d] /\ client[d].pc = "write"
        BY <2>2, <1>8
      <3>2. client[d].current.task \in Task
        BY <3>1, <1>0, RecordAssumption DEF Typed, RequestsTyped, TaskRevision
      <3>3. taskLock[client[d].current.task] = d
        BY <3>1, <1>0 DEF HubOK, WriterReady
      <3>4. client[d].current.task # r.task
        BY <3>3, <1>1, SyncAssumption
      <3> QED
        BY <3>1, <3>2, <3>3, <3>4, <1>0, <1>1, <1>9 DEF HubOK, WriterReady
    <2> QED
      BY <2>1, <2>2
  <1>12. SeenInHub'
    BY <1>0, <1>1, <1>3, <1>6, <1>8 DEF HubOK, SeenInHub
  <1>13. HubLabelled'
    BY <1>0, <1>1, <1>3, <1>7, <1>8 DEF HubOK, HubLabelled, Labelled
  <1> QED
    BY <1>10, <1>11, <1>12, <1>13 DEF HubOK

LEMMA StoreTaskHub ==
  ASSUME HubInv, NEW c \in Client, StoreTask(c)
  PROVE  HubOK'
  <1> DEFINE r == client[c].current
             s == Decided(c, r, "admitted", client[c].seen \cup {r})
  <1>0. HubInv /\ HubOK /\ Typed
    BY DEF HubInv, Locked
  <1>1. /\ client[c].pc = "write" /\ hub' = hub \cup {r} /\ retained' = retained
        /\ taskLock' = [taskLock EXCEPT ![r.task] = None]
        /\ client' = [client EXCEPT ![c] = s]
    BY DEF StoreTask, Goto
  <1>2. r \in Record /\ IsTask(r) /\ r.task \in Task
    BY <1>0, <1>1, RecordAssumption DEF Typed, RequestsTyped, TaskRevision
  <1>3. /\ r.kind = "open" /\ taskLock[r.task] = c /\ Revisions(hub, r.task) = {}
        /\ Labelled(r) /\ client[c].seen \subseteq hub
    BY <1>0, <1>1 DEF HubOK, WriterReady, HubLabelled, SeenInHub
  <1>4. s.pc = "admit" /\ s.seen = client[c].seen \cup {r}
    BY DecidedFields
  <1> HIDE DEF s, r
  <1>5. \A d \in Client : client'[d] = IF d = c THEN s ELSE client[d]
    BY <1>0, <1>1 DEF Typed, TypeOK
  <1>6. \A t \in Task : taskLock'[t] = IF t = r.task THEN None ELSE taskLock[t]
    BY <1>0, <1>1 DEF Typed, TypeOK
  <1>7. ASSUME NEW t
        PROVE  Revisions(hub', t) = IF t = r.task THEN {r} ELSE Revisions(hub, t)
    <2>1. Revisions(hub \cup {r}, t) =
            IF t = r.task THEN Revisions(hub, t) \cup {r} ELSE Revisions(hub, t)
      BY <1>2, AddTask
    <2> QED
      BY <2>1, <1>1, <1>3
  <1>8. Unforked'
    <2> SUFFICES ASSUME NEW t \in Task PROVE HistoryOK(hub', t)
      BY DEF Unforked
    <2>1. CASE t = r.task
      BY <2>1, <1>2, <1>3, <1>7 DEF HistoryOK
    <2>2. CASE t # r.task
      BY <2>2, <1>0, <1>7 DEF HubOK, Unforked, HistoryOK
    <2> QED
      BY <2>1, <2>2
  <1>9. WriterReady'
    <2> SUFFICES ASSUME NEW d \in Client, client'[d].pc = "write"
                 PROVE  /\ client'[d].current.kind = "open"
                        /\ taskLock'[client'[d].current.task] = d
                        /\ Revisions(hub', client'[d].current.task) = {}
      BY DEF WriterReady
    <2>1. client'[d] = client[d] /\ client[d].pc = "write" /\ d # c
      BY <1>4, <1>5
    <2>2. client[d].current.task \in Task
      BY <2>1, <1>0, RecordAssumption DEF Typed, RequestsTyped, TaskRevision
    <2>3. taskLock[client[d].current.task] = d
      BY <2>1, <1>0 DEF HubOK, WriterReady
    <2>4. client[d].current.task # r.task
      BY <2>1, <2>3, <1>3
    <2> QED
      BY <2>1, <2>2, <2>3, <2>4, <1>0, <1>6, <1>7 DEF HubOK, WriterReady
  <1>10. SeenInHub'
    BY <1>0, <1>1, <1>3, <1>4, <1>5 DEF HubOK, SeenInHub
  <1>11. HubLabelled'
    BY <1>0, <1>1, <1>3, <1>4, <1>5 DEF HubOK, HubLabelled, Labelled
  <1>12. HubReceiptsBound'
    <2> SUFFICES ASSUME NEW x \in hub', x.kind = "receipt"
                 PROVE  ReceiptBindingValid(x, hub', x.label)
      BY DEF HubReceiptsBound
    <2>1. x \in hub /\ ReceiptBindingValid(x, hub, x.label)
      BY <1>0, <1>1, <1>3 DEF HubOK, HubReceiptsBound
    <2>2. Revisions(hub, x.ref.task) # {}
      BY <2>1 DEF ReceiptBindingValid
    <2>3. Revisions(hub', x.ref.task) = Revisions(hub, x.ref.task)
      BY <2>2, <1>3, <1>7
    <2> QED
      BY <2>1, <2>3, SameChainSameBinding
  <1> QED
    BY <1>8, <1>9, <1>10, <1>11, <1>12 DEF HubOK

(***************************************************************************)
(* A WorkReceipt judged against a snapshot binds in the hub of today.      *)
(***************************************************************************)
LEMMA ReceiptStillBound ==
  ASSUME HubInv, NEW S, S \subseteq hub, NEW r \in Record, r.kind = "receipt",
         NEW l, ReceiptBindingValid(r, S, l)
  PROVE  ReceiptBindingValid(r, hub, l)
  <1>1. r.ref \in Record /\ r.ref.kind \in TaskKinds
    BY RecordAssumption
  <1>2. r.ref.task \in Task
    BY <1>1, RecordAssumption DEF IsTask, TaskRevision
  <1>3. HistoryOK(hub, r.ref.task)
    BY <1>2 DEF HubInv, HubOK, Unforked
  <1>4. /\ ChainValid(Revisions(S, r.ref.task))
        /\ Leaves(Revisions(S, r.ref.task)) = {r.ref}
        /\ r.ref.kind = "claimed"
    BY DEF ReceiptBindingValid, ReceiptAgrees
  <1>5. Revisions(hub, r.ref.task) = Revisions(S, r.ref.task)
    <2> DEFINE x == r.ref
               t == x.task
    <2>1. /\ HistoryOK(hub, t) /\ ChainValid(Revisions(S, t))
          /\ Leaves(Revisions(S, t)) = {x} /\ x.kind = "claimed"
      BY <1>3, <1>4
    <2> HIDE DEF x, t
    <2>2. Revisions(hub, t) = Revisions(S, t)
      BY <2>1, ClaimedChainIsWhole
    <2> QED
      BY <2>2 DEF t, x
  <1> QED
    BY <1>5, SameChainSameBinding

LEMMA AdmitOtherHub ==
  ASSUME HubInv, NEW c \in Client, NEW r \in client[c].todo, AdmitOther(c, r)
  PROVE  HubOK'
  <1> DEFINE code == Code(c, r, client[c].seen)
             new == IF code = "admitted" THEN {r} ELSE {}
             s == Decided(c, r, code, client[c].seen \cup new)
  <1>0. HubInv /\ HubOK /\ Typed
    BY DEF HubInv, Locked
  <1>1. /\ client[c].pc = "admit" /\ ~IsTask(r) /\ hub' = hub \cup new
        /\ retained' = retained /\ taskLock' = taskLock
        /\ client' = [client EXCEPT ![c] = s]
    BY DEF AdmitOther, Goto, lockVars
  <1>2. r \in Record /\ client[c].seen \subseteq hub
    BY <1>0, <1>1 DEF Typed, TypeOK, RequestType, HubOK, SeenInHub
  <1>3. s.pc = "admit" /\ s.seen = client[c].seen \cup new
    BY DecidedFields
  <1>4. ASSUME NEW x \in new
        PROVE  Labelled(x) /\ (x.kind = "receipt" => ReceiptBindingValid(x, hub, x.label))
    <2>1. x = r /\ code = "admitted"
      BY <1>4
    <2>2. Labelled(r) /\ (r.kind = "receipt" => ReceiptBindingValid(r, client[c].seen, r.label))
      BY <2>1, <1>1, <1>2, AdmittedFacts
    <2> QED
      BY <2>1, <2>2, <1>2, ReceiptStillBound
  <1>5. \A t : Revisions(hub', t) = Revisions(hub, t)
    BY <1>1 DEF Revisions, IsTask
  <1> HIDE DEF s, new, code
  <1>6. \A d \in Client : client'[d] = IF d = c THEN s ELSE client[d]
    BY <1>0, <1>1 DEF Typed, TypeOK
  <1>7. Unforked'
    BY <1>0, <1>5 DEF HubOK, Unforked, HistoryOK
  <1>8. WriterReady'
    <2> SUFFICES ASSUME NEW d \in Client, client'[d].pc = "write"
                 PROVE  /\ client'[d].current.kind = "open"
                        /\ taskLock'[client'[d].current.task] = d
                        /\ Revisions(hub', client'[d].current.task) = {}
      BY DEF WriterReady
    <2>1. client'[d] = client[d] /\ client[d].pc = "write"
      BY <1>3, <1>6
    <2>2. /\ client[d].current.kind = "open"
          /\ taskLock[client[d].current.task] = d
          /\ Revisions(hub, client[d].current.task) = {}
      BY <2>1, <1>0 DEF HubOK, WriterReady
    <2>3. Revisions(hub', client[d].current.task) = {}
      BY <2>2, <1>5
    <2> QED
      BY <2>1, <2>2, <2>3, <1>1
  <1>9. SeenInHub'
    BY <1>0, <1>1, <1>2, <1>3, <1>6 DEF HubOK, SeenInHub
  <1>10. HubLabelled'
    BY <1>0, <1>1, <1>3, <1>4, <1>6 DEF HubOK, HubLabelled, Labelled
  <1>11. HubReceiptsBound'
    <2> SUFFICES ASSUME NEW x \in hub', x.kind = "receipt"
                 PROVE  ReceiptBindingValid(x, hub', x.label)
      BY DEF HubReceiptsBound
    <2>1. ReceiptBindingValid(x, hub, x.label)
      BY <1>0, <1>1, <1>4 DEF HubOK, HubReceiptsBound
    <2> QED
      BY <2>1, <1>5, SameChainSameBinding
  <1> QED
    BY <1>7, <1>8, <1>9, <1>10, <1>11 DEF HubOK

LEMMA HubClaimHub ==
  ASSUME HubInv, NEW o \in hub, HubClaim(o)
  PROVE  HubOK'
  <1> DEFINE r == Successor(o)
  <1>0. HubInv /\ HubOK /\ Typed
    BY DEF HubInv, Locked
  <1>1. /\ o.kind = "open" /\ Leaves(Revisions(hub, o.task)) = {o} /\ hub' = hub \cup {r}
        /\ UNCHANGED <<retained, taskLock, client>>
    BY DEF HubClaim, lockVars
  <1>2. o \in Record /\ o \in Revisions(hub, o.task)
    BY <1>0, <1>1 DEF Typed, TypeOK, Revisions, IsTask, TaskKinds
  <1>3. /\ r \in Record /\ r.kind = "claimed" /\ r.task = o.task /\ r.label = o.label
        /\ r.project = o.project /\ IsTask(r) /\ o.task \in Task
    BY <1>1, <1>2, SuccessorFacts
  <1>4. Revisions(hub, o.task) = {o}
    <2>1. PICK g \in Record : /\ g.kind = "open"
                              /\ \/ Revisions(hub, o.task) = {g}
                                 \/ Revisions(hub, o.task) = {g, Successor(g)}
      BY <1>0, <1>2, <1>3 DEF HubOK, Unforked, HistoryOK
    <2>2. Leaves({g, Successor(g)}) = {Successor(g)} /\ Successor(g).kind = "claimed"
      BY <2>1, SuccessorFacts, LeavesOfHistory
    <2> QED
      BY <2>1, <2>2, <1>1, <1>2
  <1> HIDE DEF r
  <1>5. ASSUME NEW t
        PROVE  Revisions(hub', t) = IF t = o.task THEN {o, r} ELSE Revisions(hub, t)
    <2>1. Revisions(hub \cup {r}, t) =
            IF t = r.task THEN Revisions(hub, t) \cup {r} ELSE Revisions(hub, t)
      BY <1>3, AddTask
    <2> QED
      BY <2>1, <1>1, <1>3, <1>4
  <1>6. Unforked'
    <2> SUFFICES ASSUME NEW t \in Task PROVE HistoryOK(hub', t)
      BY DEF Unforked
    <2>1. CASE t = o.task
      BY <2>1, <1>1, <1>2, <1>5 DEF HistoryOK, r
    <2>2. CASE t # o.task
      BY <2>2, <1>0, <1>5 DEF HubOK, Unforked, HistoryOK
    <2> QED
      BY <2>1, <2>2
  <1>7. WriterReady'
    BY <1>0, <1>1, <1>2, <1>4, <1>5 DEF HubOK, WriterReady
  <1>8. SeenInHub'
    BY <1>0, <1>1 DEF HubOK, SeenInHub
  <1>9. HubLabelled'
    BY <1>0, <1>1, <1>3 DEF HubOK, HubLabelled, Labelled
  <1>10. HubReceiptsBound'
    <2> SUFFICES ASSUME NEW x \in hub', x.kind = "receipt"
                 PROVE  ReceiptBindingValid(x, hub', x.label)
      BY DEF HubReceiptsBound
    <2>1. x \in hub /\ ReceiptBindingValid(x, hub, x.label)
      BY <1>0, <1>1, <1>3 DEF HubOK, HubReceiptsBound
    <2>2. x.ref.task # o.task
      BY <2>1, <1>1 DEF ReceiptBindingValid, ReceiptAgrees
    <2>3. Revisions(hub', x.ref.task) = Revisions(hub, x.ref.task)
      BY <2>2, <1>5
    <2> QED
      BY <2>1, <2>3, SameChainSameBinding
  <1> QED
    BY <1>6, <1>7, <1>8, <1>9, <1>10 DEF HubOK

-----------------------------------------------------------------------------
LEMMA PushHub ==
  ASSUME HubInv, NEW c \in Client, PushStep(c)
  PROVE  HubOK'
  <1> USE DEF hubVars, vaultVars, lockVars
  <1> DEFINE q == client[c]
  <1>q. q \in RequestType
    BY DEF HubInv, Locked, Typed, TypeOK
  <1>1. CASE LoadOutbox(c)
    <2> DEFINE s == [q EXCEPT !.pc = "admit",
                              !.todo = local[V(c)] \ Known(V(c), P(c)),
                              !.seen = hub]
    <2>1. Goto(c, s) /\ UNCHANGED <<hub, retained, taskLock>>
      BY <1>1 DEF LoadOutbox
    <2>2. s.pc = "admit" /\ s.seen = hub
      BY <1>q DEF RequestType
    <2> HIDE DEF s
    <2> QED
      BY <2>1, <2>2, GotoHub
  <1>2. CASE RefusePush(c)
    BY <1>2, FinishHub DEF RefusePush
  <1>3. ASSUME NEW r \in q.todo, SettleTask(c, r)
        PROVE  HubOK'
    <2> DEFINE H == SeenUnderLock(c, r)
               s == Decided(c, r, Code(c, r, H), H)
    <2>1. q.pc = "admit" /\ Goto(c, s) /\ UNCHANGED <<hub, retained, taskLock>>
      BY <1>3 DEF SettleTask
    <2>2. H \subseteq hub
      BY <2>1 DEF HubInv, HubOK, SeenInHub, SeenUnderLock, Revisions
    <2>3. s.pc = "admit" /\ s.seen = H
      BY DecidedFields
    <2> HIDE DEF s, H
    <2> QED
      BY <2>1, <2>2, <2>3, GotoHub
  <1>4. ASSUME NEW r \in q.todo, DecideTask(c, r)
        PROVE  HubOK'
    BY <1>4, DecideTaskHub
  <1>5. ASSUME NEW r \in q.todo, TaskLockBusy(c, r)
        PROVE  HubOK'
    BY <1>5, FinishHub DEF TaskLockBusy
  <1>6. ASSUME NEW r \in q.todo, AdmitOther(c, r)
        PROVE  HubOK'
    BY <1>6, AdmitOtherHub
  <1>7. CASE StoreTask(c)
    BY <1>7, StoreTaskHub
  <1>8. CASE SavePending(c)
    <2> DEFINE s == [q EXCEPT !.pc = "pull", !.seen = {}, !.outcomes = {}]
    <2>1. /\ UNCHANGED <<hub, retained>>
          /\ \/ Goto(c, s) /\ UNCHANGED taskLock
             \/ Finish(c)
      BY <1>8 DEF SavePending
    <2>2. s.pc = "pull"
      BY <1>q DEF RequestType
    <2> HIDE DEF s
    <2> QED
      BY <2>1, <2>2, GotoHub, FinishHub
  <1> QED
    BY <1>1, <1>2, <1>3, <1>4, <1>5, <1>6, <1>7, <1>8 DEF PushStep

LEMMA PullHub ==
  ASSUME HubInv, NEW c \in Client, PullStep(c)
  PROVE  HubOK'
  <1> USE DEF hubVars, vaultVars, lockVars
  <1> DEFINE q == client[c]
  <1>q. q \in RequestType
    BY DEF HubInv, Locked, Typed, TypeOK
  <1>1. ASSUME NEW t \in Time, BuildResponse(c, t)
        PROVE  HubOK'
    <2> DEFINE s == [q EXCEPT !.pc = "apply", !.loaded = pending[V(c)],
                              !.response = Receipt(c, t)]
    <2>1. Goto(c, s) /\ UNCHANGED <<hub, retained, taskLock>>
      BY <1>1 DEF BuildResponse
    <2>2. s.pc = "apply"
      BY <1>q DEF RequestType
    <2> HIDE DEF s
    <2> QED
      BY <2>1, <2>2, GotoHub
  <1>2. CASE RefusePull(c)
    BY <1>2, FinishHub DEF RefusePull
  <1>3. CASE RefuseApply(c)
    BY <1>3, FinishHub DEF RefuseApply
  <1>4. CASE ApplyNothing(c)
    BY <1>4, <1>q, GotoHub DEF ApplyNothing, RequestType
  <1>5. CASE StartApply(c)
    <2> DEFINE s == [q EXCEPT !.pc = "expose", !.todo = RecordsToExpose(c)]
    <2>1. Goto(c, s) /\ UNCHANGED <<hub, retained, taskLock>>
      BY <1>5 DEF StartApply
    <2>2. s.pc = "expose"
      BY <1>q DEF RequestType
    <2> HIDE DEF s
    <2> QED
      BY <2>1, <2>2, GotoHub
  <1>6. ASSUME NEW r \in q.todo, ExposeRecord(c, r)
        PROVE  HubOK'
    <2> DEFINE s == [q EXCEPT !.todo = @ \ {r}]
    <2>1. q.pc = "expose" /\ Goto(c, s) /\ UNCHANGED <<hub, retained, taskLock>>
      BY <1>6 DEF ExposeRecord
    <2>2. s.pc = "expose"
      BY <2>1, <1>q DEF RequestType
    <2> HIDE DEF s
    <2> QED
      BY <2>1, <2>2, GotoHub
  <1>7. CASE AdvanceMarker(c)
    BY <1>7, <1>q, GotoHub DEF AdvanceMarker, RequestType
  <1>8. CASE ConsumePending(c)
    BY <1>8, FinishHub DEF ConsumePending
  <1> QED
    BY <1>1, <1>2, <1>3, <1>4, <1>5, <1>6, <1>7, <1>8 DEF PullStep

(***************************************************************************)
(* Steps that leave hub and clients alone, the administrator's included    *)
(***************************************************************************)
LEMMA StillClientsHub ==
  ASSUME HubInv, hub' = hub, retained \subseteq retained', client' = client,
         \A t \in Task : taskLock'[t] = taskLock[t] \/ taskLock[t] = Admin
  PROVE  HubOK'
  <1>1. ASSUME NEW d \in Client, client'[d].pc = "write"
        PROVE  /\ client'[d] = client[d]
               /\ taskLock'[client[d].current.task] = taskLock[client[d].current.task]
    <2>1. client[d].current.task \in Task
      BY <1>1, RecordAssumption DEF HubInv, Locked, Typed, RequestsTyped, TaskRevision
    <2>2. taskLock[client[d].current.task] = d
      BY <1>1 DEF HubInv, HubOK, WriterReady
    <2> QED
      BY <2>1, <2>2, SyncAssumption
  <1>2. ASSUME NEW d \in Client, client'[d].pc = "admit"
        PROVE  client'[d].seen \subseteq hub
    BY <1>2 DEF HubInv, HubOK, SeenInHub
  <1> QED
    BY <1>1, <1>2, QuietStep

LEMMA AdminHub ==
  ASSUME HubInv, AdminStep
  PROVE  HubOK' /\ LabelsRetained'
  <1> USE DEF hubVars, vaultVars, lockVars
  <1>0. Typed /\ LabelsRetained
    BY DEF HubInv, Locked
  <1>1. ASSUME NEW b \in Bindings, NEW g \in Generation, BeginConfigure(b, g)
        PROVE  HubOK' /\ LabelsRetained'
    <2>1. UNCHANGED <<hub, retained, config, client, taskLock>>
      BY <1>1 DEF BeginConfigure
    <2>2. admin'.next.binding = b /\ admin'.todo = LabelsOf(b)
      BY <1>1 DEF BeginConfigure, LabelsToRetain
    <2> QED
      BY <2>1, <2>2, <1>0, StillClientsHub DEF LabelsRetained, LabelsOf, Bound
  <1>2. ASSUME NEW l \in Label, RetainLabel(l)
        PROVE  HubOK' /\ LabelsRetained'
    <2>1. /\ UNCHANGED <<hub, config, client, taskLock>> /\ retained' = retained \cup {l}
          /\ admin.pc = "retain"
          /\ admin' = [admin EXCEPT !.todo = @ \ {l}]
      BY <1>2 DEF RetainLabel
    <2>2. admin'.next = admin.next /\ admin'.todo = admin.todo \ {l}
      BY <2>1, <1>0 DEF Typed, TypeOK, AdminType
    <2> QED
      BY <2>1, <2>2, <1>0, StillClientsHub DEF LabelsRetained, LabelsOf, Bound
  <1>3. ASSUME ReleaseLocks(Admin)
        PROVE  \A t \in Task : taskLock'[t] = taskLock[t] \/ taskLock[t] = Admin
    BY <1>3 DEF ReleaseLocks
  <1>4. CASE ReplaceConfig
    <2>1. UNCHANGED <<hub, retained, client>> /\ admin'.pc = "idle"
      BY <1>4 DEF ReplaceConfig, NotConfiguring
    <2>2. config'.binding = admin.next.binding /\ LabelsOf(admin.next.binding) \subseteq retained
      BY <1>4, <1>0 DEF ReplaceConfig, LabelsRetained
    <2> QED
      BY <2>1, <2>2, <1>3, <1>4, StillClientsHub
      DEF ReplaceConfig, LabelsRetained, LabelsOf, Bound
  <1>5. CASE CrashConfigure
    <2>1. UNCHANGED <<hub, retained, config, client>> /\ admin'.pc = "idle"
      BY <1>5 DEF CrashConfigure, NotConfiguring
    <2> QED
      BY <2>1, <1>0, <1>3, <1>5, StillClientsHub
      DEF CrashConfigure, LabelsRetained, LabelsOf, Bound
  <1> QED
    BY <1>1, <1>2, <1>4, <1>5 DEF AdminStep

LEMMA NextHub ==
  ASSUME HubInv, [Next]_vars
  PROVE  HubInv'
  <1> USE DEF hubVars, vaultVars, lockVars
  <1>1. Locked'
    BY NextLocked DEF HubInv
  <1>2. ASSUME UNCHANGED <<retained, config, admin>>
        PROVE  LabelsRetained'
    BY <1>2 DEF HubInv, LabelsRetained, LabelsOf, Bound
  <1>3. ASSUME NEW v \in Vault, NEW r \in Record, AppendLocal(v, r)
        PROVE  HubOK' /\ LabelsRetained'
    BY <1>2, <1>3, StillClientsHub DEF AppendLocal
  <1>4. ASSUME NEW c \in Client, NEW ph \in Phases, BindSession(c, ph)
        PROVE  HubOK' /\ LabelsRetained'
    <2> DEFINE s == [Idle EXCEPT !.pc = IF ph = "pull" THEN "pull" ELSE "push",
                          !.phase = ph,
                          !.label = config.binding[P(c)],
                          !.generation = config.generation]
    <2>1. Goto(c, s) /\ UNCHANGED <<hub, retained, config, taskLock, admin>>
      BY <1>4 DEF BindSession
    <2>2. s.pc \in {"pull", "push"}
      BY DEF Idle
    <2> HIDE DEF s
    <2> QED
      BY <1>2, <2>1, <2>2, GotoHub
  <1>5. ASSUME NEW c \in Client, PushStep(c) \/ PullStep(c)
        PROVE  HubOK' /\ LabelsRetained'
    BY <1>2, <1>5, PushHub, PullHub, RequestStep DEF HubInv, Locked
  <1>6. ASSUME NEW c \in Client, Crash(c)
        PROVE  HubOK' /\ LabelsRetained'
    BY <1>2, <1>6, FinishHub DEF Crash
  <1>7. ASSUME NEW o \in hub, HubClaim(o)
        PROVE  HubOK' /\ LabelsRetained'
    BY <1>2, <1>7, HubClaimHub DEF HubClaim
  <1>8. ASSUME UNCHANGED vars
        PROVE  HubOK' /\ LabelsRetained'
    BY <1>2, <1>8, StillClientsHub DEF vars
  <1>9. HubOK' /\ LabelsRetained'
    BY <1>3, <1>4, <1>5, <1>6, <1>7, <1>8, AdminHub DEF Next
  <1> QED
    BY <1>1, <1>9 DEF HubInv

LEMMA InitHub == Init => HubInv
  <1> SUFFICES ASSUME Init PROVE HubInv
    OBVIOUS
  <1>1. Locked
    BY InitTyped DEF Init, Locked, RequestsLocked, AdminLocked, BindingInForce, Idle,
      NotConfiguring
  <1>2. LabelsRetained
    BY DEF Init, LabelsRetained, NotConfiguring
  <1>3. HubOK
    BY DEF Init, HubOK, Unforked, HistoryOK, Revisions, WriterReady, SeenInHub,
      HubLabelled, HubReceiptsBound, Idle
  <1> QED
    BY <1>1, <1>2, <1>3 DEF HubInv

(***************************************************************************)
(* No interleaving of pushes, claims, crashes and replaced policies makes  *)
(* the hub fail every principal's pull: task histories are unforked, every *)
(* WorkReceipt binds the current leaf, every label resolves.               *)
(***************************************************************************)
THEOREM HubStaysReadable == Spec => []EgressNeverFails
  <1>1. Init => HubInv
    BY InitHub
  <1>2. HubInv /\ [Next]_vars => HubInv'
    BY NextHub
  <1>3. HubInv => EgressNeverFails
    BY HubInvImpliesEgress
  <1> QED
    BY <1>1, <1>2, <1>3, PTL DEF Spec

-----------------------------------------------------------------------------
(***************************************************************************)
(* The vaults.  Every receipt, durable or still in a request, is the       *)
(* complete reading of a consistent part of the hub under its own label;   *)
(* the hub only grows, so that stays true.  The principal lock keeps a     *)
(* pull the only one of its principal from its response to its marker, and *)
(* the apply lock keeps it the only apply of its vault, so the marker it   *)
(* compared is the marker it replaces.                                     *)
(***************************************************************************)

(***************************************************************************)
(* The replica's own check of what it is authorized to read cannot fail:   *)
(* sync-record-history-invalid is unreachable.                             *)
(***************************************************************************)
THEOREM ReadingsVerify == Spec => []AuthorizedSetsVerify
  <1>1. HubInv => AuthorizedSetsVerify
    <2> SUFFICES ASSUME HubInv, NEW l \in Label
                 PROVE  PullRelationsValid(AuthorizedRecords(hub, l))
      BY DEF AuthorizedSetsVerify
    <2>1. Consistent(hub) /\ hub \in SUBSET Record
      BY HubInvImpliesEgress
      DEF EgressNeverFails, EgressValid, Consistent, HubInv, Locked, Typed, TypeOK
    <2> QED
      BY <2>1, ReadingVerifies
  <1> QED
    BY <1>1, InitHub, NextHub, PTL DEF Spec

-----------------------------------------------------------------------------
(***************************************************************************)
(* The inductive invariant                                                 *)
(***************************************************************************)

\* A receipt is the complete reading of a consistent part of H, and what it
\* reports as admitted is in H.
Truthful(rc, H) ==
  /\ \E K \in SUBSET H : Consistent(K) /\ rc.members = AuthorizedRecords(K, rc.label)
  /\ AdmittedIn(rc.outcomes) \subseteq H

\* A push submits what its vault holds and reports what the hub holds.
Submitting(c) ==
  /\ client[c].pc \in {"admit", "write"} => client[c].todo \subseteq local[V(c)]
  /\ client[c].pc = "write" => client[c].current \in local[V(c)]
  /\ AdmittedIn(client[c].outcomes) \subseteq hub

\* No marker of the same principal, in any vault, shows more under one scope.
ShowsNoLess(rc) ==
  \A v \in Vault : marker[v] # None /\ marker[v].principal = rc.principal
    => ~Regresses(marker[v], rc)

\* A response not yet applied is true, and shows no less than any marker.
Answered(c) ==
  /\ client[c].pc \in {"apply", "expose"} =>
       /\ client[c].response.principal = P(c)
       /\ Truthful(client[c].response, hub)
  /\ client[c].pc = "apply" => ShowsNoLess(client[c].response)

\* An apply in progress holds its vault; its receipt is durable, names every
\* record still to be exposed and may replace the marker.
Exposing(c) ==
  client[c].pc = "expose" =>
    /\ applyLock[V(c)] = c
    /\ client[c].response \in projections[V(c)]
    /\ client[c].todo \subseteq client[c].response.members
    /\ client[c].response.members \subseteq local[V(c)] \cup client[c].todo
    /\ marker[V(c)] # None => /\ InOrder(marker[V(c)], client[c].response)
                              /\ ~Regresses(marker[V(c)], client[c].response)

RequestTrue(c) == Submitting(c) /\ Answered(c) /\ Exposing(c)

VaultTrue(v) ==
  /\ \A rc \in projections[v] : Truthful(rc, hub)
  /\ pending[v] # None => AdmittedIn(pending[v].outcomes) \subseteq hub
  /\ marker[v] # None => /\ marker[v] \in projections[v]
                         /\ marker[v].members \subseteq local[v]
  /\ \A r \in local[v] \ Drafts[v] : \E rc \in projections[v] : r \in rc.members

AllTrue ==
  /\ \A c \in Client : RequestTrue(c)
  /\ \A v \in Vault : VaultTrue(v)

VaultInv == HubInv /\ AllTrue

LEMMA StaysTruthful ==
  ASSUME NEW rc, NEW H, NEW K, Truthful(rc, H), H \subseteq K
  PROVE  Truthful(rc, K)
  BY DEF Truthful

LEMMA TruthfulMembers ==
  ASSUME NEW rc, NEW H, Truthful(rc, H)
  PROVE  /\ rc.members \subseteq AuthorizedRecords(H, rc.label)
         /\ rc.members \subseteq H
         /\ \A r \in rc.members : Authorized(r, rc.label)
  BY DEF Truthful, AuthorizedRecords

LEMMA AdmittedInUnion ==
  ASSUME NEW O, NEW r, NEW code
  PROVE  /\ AdmittedIn({}) = {}
         /\ AdmittedIn(O \cup {Outcome(r, code)}) \subseteq
              AdmittedIn(O) \cup (IF code = "admitted" THEN {r} ELSE {})
  BY DEF AdmittedIn, Outcome

-----------------------------------------------------------------------------
(***************************************************************************)
(* What a step leaves true of the requests and vaults it does not touch    *)
(***************************************************************************)
Grows ==
  /\ hub \subseteq hub'
  /\ \A v \in Vault : local[v] \subseteq local'[v] /\ projections[v] \subseteq projections'[v]

LEMMA RequestKeeps ==
  ASSUME AllTrue, Grows, NEW d \in Client, client'[d] = client[d],
         marker'[V(d)] = marker[V(d)],
         client[d].pc = "apply" =>
           \A v \in Vault : marker'[v] = marker[v] \/ marker'[v].principal # P(d),
         client[d].pc = "expose" => applyLock'[V(d)] = applyLock[V(d)]
  PROVE  RequestTrue(d)'
  <1> DEFINE q == client[d]
  <1>0. V(d) \in Vault /\ RequestTrue(d)
    BY SyncAssumption DEF V, AllTrue
  <1>1. /\ hub \subseteq hub'
        /\ local[V(d)] \subseteq local'[V(d)]
        /\ projections[V(d)] \subseteq projections'[V(d)]
    BY <1>0 DEF Grows
  <1>2. Submitting(d)'
    BY <1>0, <1>1 DEF RequestTrue, Submitting
  <1>3. Answered(d)'
    <2>1. ASSUME q.pc \in {"apply", "expose"}
          PROVE  q.response.principal = P(d) /\ Truthful(q.response, hub')
      BY <1>0, <1>1, <2>1, StaysTruthful DEF RequestTrue, Answered
    <2>2. q.pc = "apply" => ShowsNoLess(q.response)'
      BY <1>0, <2>1 DEF RequestTrue, Answered, ShowsNoLess
    <2> QED
      BY <2>1, <2>2 DEF Answered, ShowsNoLess
  <1>4. Exposing(d)'
    BY <1>0, <1>1 DEF RequestTrue, Exposing
  <1> QED
    BY <1>2, <1>3, <1>4 DEF RequestTrue

LEMMA VaultKeeps ==
  ASSUME AllTrue, Grows, NEW v \in Vault, local'[v] = local[v],
         \A rc \in projections'[v] : rc \in projections[v] \/ Truthful(rc, hub'),
         marker'[v] = marker[v],
         \/ pending'[v] = pending[v] \/ pending'[v] = None
         \/ AdmittedIn(pending'[v].outcomes) \subseteq hub'
  PROVE  VaultTrue(v)'
  <1>1. VaultTrue(v) /\ hub \subseteq hub' /\ projections[v] \subseteq projections'[v]
    BY DEF AllTrue, Grows
  <1>2. \A rc \in projections'[v] : Truthful(rc, hub')
    BY <1>1, StaysTruthful DEF VaultTrue
  <1> QED
    BY <1>1, <1>2 DEF VaultTrue

(***************************************************************************)
(* A step of one request that leaves the vaults alone                      *)
(***************************************************************************)
LEMMA RequestOnly ==
  ASSUME AllTrue, NEW c \in Client, hub \subseteq hub', UNCHANGED vaultVars,
         \A d \in Client \ {c} :
           /\ client'[d] = client[d]
           /\ client[d].pc = "expose" => applyLock'[V(d)] = applyLock[V(d)],
         RequestTrue(c)'
  PROVE  AllTrue'
  <1>1. Grows
    BY DEF Grows, vaultVars
  <1>2. ASSUME NEW d \in Client
        PROVE  RequestTrue(d)'
    BY <1>1, RequestKeeps DEF vaultVars
  <1>3. ASSUME NEW v \in Vault
        PROVE  VaultTrue(v)'
    BY <1>1, VaultKeeps DEF vaultVars
  <1> QED
    BY <1>2, <1>3 DEF AllTrue

LEMMA FinishTrue ==
  ASSUME Typed, AllTrue, NEW c \in Client, Finish(c), hub' = hub,
         UNCHANGED <<local, projections, marker>>,
         \A v \in Vault : pending'[v] = pending[v] \/ pending'[v] = None
                            \/ AdmittedIn(pending'[v].outcomes) \subseteq hub
  PROVE  AllTrue'
  <1>1. \A d \in Client : client'[d] = IF d = c THEN Idle ELSE client[d]
    BY FinishTyped
  <1>2. Grows
    BY DEF Grows
  <1>3. ASSUME NEW d \in Client
        PROVE  RequestTrue(d)'
    <2>1. CASE d = c
      <3>1. client'[d].pc = "idle" /\ client'[d].outcomes = {}
        BY <1>1, <2>1 DEF Idle
      <3>2. AdmittedIn({}) = {}
        BY DEF AdmittedIn
      <3> QED
        BY <3>1, <3>2 DEF RequestTrue, Submitting, Answered, Exposing
    <2>2. CASE d # c
      <3>1. V(d) \in Vault /\ (client[d].pc = "expose" => applyLock[V(d)] = d)
        BY SyncAssumption DEF V, AllTrue, RequestTrue, Exposing
      <3>2. client[d].pc = "expose" => applyLock'[V(d)] = applyLock[V(d)]
        BY <2>2, <3>1 DEF Finish, ReleaseLocks
      <3> QED
        BY <1>1, <1>2, <2>2, <3>2, RequestKeeps
    <2> QED
      BY <2>1, <2>2
  <1>4. ASSUME NEW v \in Vault
        PROVE  VaultTrue(v)'
    BY <1>2, VaultKeeps
  <1> QED
    BY <1>3, <1>4 DEF AllTrue

LEMMA GotoTrue ==
  ASSUME Typed, AllTrue, NEW c \in Client, NEW s, Goto(c, s), hub \subseteq hub',
         UNCHANGED <<vaultVars, applyLock>>,
         s.pc \in {"admit", "write"} => s.todo \subseteq local[V(c)],
         s.pc = "write" => s.current \in local[V(c)],
         AdmittedIn(s.outcomes) \subseteq hub',
         s.pc = "apply" =>
           /\ s.response.principal = P(c)
           /\ Truthful(s.response, hub')
           /\ ShowsNoLess(s.response),
         s.pc # "expose"
  PROVE  AllTrue'
  <1>1. \A d \in Client : client'[d] = IF d = c THEN s ELSE client[d]
    BY DEF Typed, TypeOK, Goto
  <1>2. UNCHANGED <<local, marker, applyLock>>
    BY DEF vaultVars
  <1>3. Submitting(c)'
    BY <1>1, <1>2 DEF Submitting
  <1>4. Answered(c)'
    BY <1>1, <1>2 DEF Answered, ShowsNoLess
  <1>5. Exposing(c)'
    BY <1>1 DEF Exposing
  <1> QED
    BY <1>1, <1>2, <1>3, <1>4, <1>5, RequestOnly DEF RequestTrue

-----------------------------------------------------------------------------
(***************************************************************************)
(* Steps of a push                                                         *)
(***************************************************************************)
LEMMA DecidedPart ==
  ASSUME Typed, NEW c \in Client, NEW r, NEW code, NEW H
  PROVE  /\ Decided(c, r, code, H).pc = "admit"
         /\ Decided(c, r, code, H).todo = client[c].todo \ {r}
         /\ Decided(c, r, code, H).outcomes = client[c].outcomes \cup {Outcome(r, code)}
  <1>1. client[c] \in RequestType
    BY DEF Typed, TypeOK
  <1> QED
    BY <1>1 DEF Decided, RequestType

LEMMA DecidedTrue ==
  ASSUME Typed, AllTrue, NEW c \in Client, client[c].pc \in {"admit", "write"},
         NEW r, NEW code, NEW H, Goto(c, Decided(c, r, code, H)), hub \subseteq hub',
         code = "admitted" => r \in hub', UNCHANGED <<vaultVars, applyLock>>
  PROVE  AllTrue'
  <1> DEFINE s == Decided(c, r, code, H)
  <1>1. /\ s.pc = "admit" /\ s.todo = client[c].todo \ {r}
        /\ s.outcomes = client[c].outcomes \cup {Outcome(r, code)}
    BY DecidedPart
  <1>2. client[c].todo \subseteq local[V(c)] /\ AdmittedIn(client[c].outcomes) \subseteq hub
    BY DEF AllTrue, RequestTrue, Submitting
  <1>3. AdmittedIn(client[c].outcomes \cup {Outcome(r, code)}) \subseteq
          AdmittedIn(client[c].outcomes) \cup (IF code = "admitted" THEN {r} ELSE {})
    BY AdmittedInUnion
  <1>4. AdmittedIn(s.outcomes) \subseteq hub' /\ Goto(c, s)
    BY <1>1, <1>2, <1>3
  <1> HIDE DEF s
  <1> QED
    BY <1>1, <1>2, <1>4, GotoTrue

LEMMA SavePendingTrue ==
  ASSUME Typed, AllTrue, NEW c \in Client, SavePending(c)
  PROVE  AllTrue'
  <1> DEFINE q == client[c]
             s == [q EXCEPT !.pc = "pull", !.seen = {}, !.outcomes = {}]
  <1>0. q \in RequestType /\ V(c) \in Vault /\ AdmittedIn(q.outcomes) \subseteq hub
    BY SyncAssumption DEF Typed, TypeOK, V, AllTrue, RequestTrue, Submitting
  <1>1. /\ \A v \in Vault : \/ pending'[v] = pending[v]
                           \/ AdmittedIn(pending'[v].outcomes) \subseteq hub
        /\ UNCHANGED <<hub, local, projections, marker>>
    BY <1>0 DEF SavePending, Typed, TypeOK, hubVars
  <1>2. CASE Finish(c)
    BY <1>1, <1>2, FinishTrue
  <1>3. CASE Goto(c, s) /\ UNCHANGED lockVars
    <2>1. s.pc = "pull" /\ s.outcomes = {}
      BY <1>0 DEF RequestType
    <2>2. AdmittedIn({}) = {}
      BY DEF AdmittedIn
    <2> HIDE DEF s
    <2>3. \A d \in Client : client'[d] = IF d = c THEN s ELSE client[d]
      BY <1>3 DEF Typed, TypeOK, Goto
    <2>4. Grows /\ UNCHANGED applyLock
      BY <1>1, <1>3 DEF Grows, lockVars
    <2>5. RequestTrue(c)'
      BY <2>1, <2>2, <2>3 DEF RequestTrue, Submitting, Answered, Exposing
    <2>6. ASSUME NEW d \in Client
          PROVE  RequestTrue(d)'
      BY <1>1, <2>3, <2>4, <2>5, RequestKeeps
    <2>7. ASSUME NEW v \in Vault
          PROVE  VaultTrue(v)'
      BY <1>1, <2>4, VaultKeeps
    <2> QED
      BY <2>6, <2>7 DEF AllTrue
  <1> QED
    BY <1>2, <1>3 DEF SavePending

LEMMA PushTrue ==
  ASSUME VaultInv, NEW c \in Client, PushStep(c)
  PROVE  AllTrue'
  <1> USE DEF hubVars, lockVars
  <1> DEFINE q == client[c]
  <1>0. /\ Typed /\ AllTrue /\ HubOK /\ q \in RequestType
        /\ Submitting(c) /\ Answered(c)
    BY DEF VaultInv, HubInv, Locked, Typed, TypeOK, AllTrue, RequestTrue
  <1>1. CASE LoadOutbox(c)
    <2> DEFINE s == [q EXCEPT !.pc = "admit",
                              !.todo = local[V(c)] \ Known(V(c), P(c)),
                              !.seen = hub]
    <2>1. Goto(c, s) /\ hub' = hub /\ UNCHANGED <<vaultVars, applyLock>>
      BY <1>1 DEF LoadOutbox
    <2>2. s.pc = "admit" /\ s.todo \subseteq local[V(c)] /\ s.outcomes = q.outcomes
      BY <1>0 DEF RequestType
    <2>3. AdmittedIn(s.outcomes) \subseteq hub
      BY <2>2, <1>0 DEF Submitting
    <2> HIDE DEF s
    <2> QED
      BY <1>0, <2>1, <2>2, <2>3, GotoTrue
  <1>2. CASE RefusePush(c)
    BY <1>0, <1>2, FinishTrue DEF RefusePush, vaultVars
  <1>3. ASSUME NEW r \in q.todo, SettleTask(c, r)
        PROVE  AllTrue'
    <2> DEFINE H == SeenUnderLock(c, r)
               code == Code(c, r, H)
    <2>1. /\ q.pc = "admit" /\ Goto(c, Decided(c, r, code, H))
          /\ hub' = hub /\ UNCHANGED <<vaultVars, applyLock>>
          /\ code = "admitted" => r \in H
      BY <1>3 DEF SettleTask
    <2>2. H \subseteq hub
      BY <2>1, <1>0 DEF HubOK, SeenInHub, SeenUnderLock, Revisions
    <2> HIDE DEF H, code
    <2> QED
      BY <1>0, <2>1, <2>2, DecidedTrue
  <1>4. ASSUME NEW r \in q.todo, DecideTask(c, r)
        PROVE  AllTrue'
    <2> DEFINE s == [q EXCEPT !.pc = "write", !.seen = SeenUnderLock(c, r), !.current = r]
    <2>1. q.pc = "admit" /\ Goto(c, s) /\ hub' = hub /\ UNCHANGED <<vaultVars, applyLock>>
      BY <1>4 DEF DecideTask
    <2>2. /\ s.pc = "write" /\ s.current = r
          /\ s.todo = q.todo /\ s.outcomes = q.outcomes
      BY <1>0 DEF RequestType
    <2>3. /\ AdmittedIn(s.outcomes) \subseteq hub
          /\ s.todo \subseteq local[V(c)] /\ s.current \in local[V(c)]
      BY <2>1, <2>2, <1>0, <1>4 DEF Submitting
    <2> HIDE DEF s
    <2> QED
      BY <1>0, <2>1, <2>2, <2>3, GotoTrue
  <1>5. ASSUME NEW r \in q.todo, TaskLockBusy(c, r)
        PROVE  AllTrue'
    BY <1>0, <1>5, FinishTrue DEF TaskLockBusy, vaultVars
  <1>6. ASSUME NEW r \in q.todo, AdmitOther(c, r)
        PROVE  AllTrue'
    <2> DEFINE code == Code(c, r, q.seen)
               new == IF code = "admitted" THEN {r} ELSE {}
    <2>1. /\ q.pc = "admit" /\ Goto(c, Decided(c, r, code, q.seen \cup new))
          /\ hub' = hub \cup new /\ UNCHANGED <<vaultVars, applyLock>>
      BY <1>6 DEF AdmitOther
    <2>2. code = "admitted" => r \in hub'
      BY <2>1
    <2> HIDE DEF code, new
    <2> QED
      BY <1>0, <2>1, <2>2, DecidedTrue
  <1>7. CASE StoreTask(c)
    <2>1. /\ q.pc = "write" /\ hub' = hub \cup {q.current}
          /\ Goto(c, Decided(c, q.current, "admitted", q.seen \cup {q.current}))
          /\ UNCHANGED <<vaultVars, applyLock>>
      BY <1>7 DEF StoreTask
    <2> QED
      BY <1>0, <2>1, DecidedTrue
  <1>8. CASE SavePending(c)
    BY <1>8, <1>0, SavePendingTrue
  <1> QED
    BY <1>1, <1>2, <1>3, <1>4, <1>5, <1>6, <1>7, <1>8 DEF PushStep

-----------------------------------------------------------------------------
(***************************************************************************)
(* Steps of a pull                                                         *)
(***************************************************************************)
LEMMA BuildResponseTrue ==
  ASSUME Typed, AllTrue, NEW c \in Client, NEW t \in Time, BuildResponse(c, t)
  PROVE  AllTrue'
  <1> DEFINE q == client[c]
             rc == Receipt(c, t)
             s == [q EXCEPT !.pc = "apply", !.loaded = pending[V(c)], !.response = rc]
  <1>0. q \in RequestType /\ V(c) \in Vault /\ Submitting(c) /\ VaultTrue(V(c))
    BY SyncAssumption DEF Typed, TypeOK, V, AllTrue, RequestTrue
  <1>1. Goto(c, s) /\ hub' = hub /\ UNCHANGED <<vaultVars, applyLock>>
    BY DEF BuildResponse, hubVars, lockVars
  <1>2. s.pc = "apply" /\ s.response = rc /\ s.outcomes = q.outcomes
    BY <1>0 DEF RequestType
  <1>3. /\ rc.principal = P(c) /\ rc.members = AuthorizedRecords(hub, rc.label)
        /\ rc.outcomes = IF pending[V(c)] = None THEN {} ELSE pending[V(c)].outcomes
    BY DEF Receipt
  <1>4. Consistent(hub) /\ AdmittedIn({}) = {}
    BY DEF BuildResponse, EgressValid, Consistent, AdmittedIn
  <1>5. AdmittedIn(rc.outcomes) \subseteq hub
    BY <1>0, <1>3, <1>4 DEF VaultTrue
  <1>6. Truthful(rc, hub)
    BY <1>3, <1>4, <1>5 DEF Truthful
  <1> HIDE DEF rc
  <1>7. ShowsNoLess(rc)
    <2> SUFFICES ASSUME NEW v \in Vault, marker[v] # None
                 PROVE  ~Regresses(marker[v], rc)
      BY DEF ShowsNoLess
    <2>1. Truthful(marker[v], hub)
      BY DEF AllTrue, VaultTrue
    <2>2. marker[v].members \subseteq AuthorizedRecords(hub, marker[v].label)
      BY <2>1, TruthfulMembers
    <2> QED
      BY <1>3, <2>2 DEF Regresses, SameScope
  <1>8. AdmittedIn(s.outcomes) \subseteq hub
    BY <1>0, <1>2 DEF Submitting
  <1> HIDE DEF s
  <1> QED
    BY <1>1, <1>2, <1>3, <1>6, <1>7, <1>8, GotoTrue

LEMMA StartApplyTrue ==
  ASSUME Typed, AllTrue, NEW c \in Client, StartApply(c)
  PROVE  AllTrue'
  <1> DEFINE q == client[c]
             s == [q EXCEPT !.pc = "expose", !.todo = RecordsToExpose(c)]
             m == marker[V(c)]
  <1>0. /\ q \in RequestType /\ V(c) \in Vault
        /\ projections \in [Vault -> SUBSET ReceiptType]
        /\ applyLock \in [Vault -> Client \cup {None}]
    BY SyncAssumption DEF Typed, TypeOK, V
  <1>1. /\ q.pc = "apply" /\ applyLock[V(c)] = None
        /\ m # None => InOrder(m, q.response) /\ ~Regresses(m, q.response)
        /\ applyLock' = [applyLock EXCEPT ![V(c)] = c]
        /\ projections' = [projections EXCEPT ![V(c)] = @ \cup {q.response}]
        /\ Goto(c, s)
        /\ UNCHANGED <<hub, local, marker, pending>>
    BY <1>0 DEF StartApply, Applicable, ReceiptFirst, hubVars
  <1>2. /\ s.pc = "expose" /\ s.todo = q.response.members \ local[V(c)]
        /\ s.response = q.response /\ s.outcomes = q.outcomes
    BY <1>0 DEF RequestType, RecordsToExpose
  <1>3. /\ q.response.principal = P(c) /\ Truthful(q.response, hub)
        /\ AdmittedIn(q.outcomes) \subseteq hub
    BY <1>1 DEF AllTrue, RequestTrue, Answered, Submitting
  <1> HIDE DEF s
  <1>4. \A d \in Client : client'[d] = IF d = c THEN s ELSE client[d]
    BY <1>1 DEF Typed, TypeOK, Goto
  <1>5. Grows
    BY <1>0, <1>1 DEF Grows
  <1>6. applyLock'[V(c)] = c /\ q.response \in projections'[V(c)]
    BY <1>0, <1>1
  <1>7. RequestTrue(c)'
    <2>1. Submitting(c)' /\ Answered(c)'
      BY <1>1, <1>2, <1>3, <1>4 DEF Submitting, Answered
    <2>2. Exposing(c)'
      BY <1>1, <1>2, <1>4, <1>6 DEF Exposing
    <2> QED
      BY <2>1, <2>2 DEF RequestTrue
  <1>8. ASSUME NEW d \in Client \ {c}
        PROVE  RequestTrue(d)'
    <2>1. client[d].pc = "expose" => applyLock[V(d)] = d
      BY DEF AllTrue, RequestTrue, Exposing
    <2>2. V(d) \in Vault
      BY SyncAssumption DEF V
    <2>3. client[d].pc = "expose" => applyLock'[V(d)] = applyLock[V(d)]
      BY <1>0, <1>1, <2>1, <2>2, SyncAssumption
    <2> QED
      BY <1>1, <1>4, <1>5, <2>3, RequestKeeps
  <1>9. ASSUME NEW v \in Vault
        PROVE  VaultTrue(v)'
    BY <1>0, <1>1, <1>3, <1>5, VaultKeeps
  <1> QED
    BY <1>7, <1>8, <1>9 DEF AllTrue

LEMMA ExposeRecordTrue ==
  ASSUME Typed, AllTrue, NEW c \in Client, NEW r \in client[c].todo, ExposeRecord(c, r)
  PROVE  AllTrue'
  <1> DEFINE q == client[c]
             s == [q EXCEPT !.todo = @ \ {r}]
  <1>0. /\ q \in RequestType /\ V(c) \in Vault
        /\ local \in [Vault -> SUBSET Record]
    BY SyncAssumption DEF Typed, TypeOK, V
  <1>1. /\ q.pc = "expose" /\ local' = [local EXCEPT ![V(c)] = @ \cup {r}] /\ Goto(c, s)
        /\ UNCHANGED <<hub, projections, marker, pending, applyLock>>
    BY DEF ExposeRecord, hubVars, lockVars
  <1>2. /\ s.pc = "expose" /\ s.todo = q.todo \ {r}
        /\ s.response = q.response /\ s.outcomes = q.outcomes
    BY <1>0, <1>1 DEF RequestType
  <1> HIDE DEF s
  <1>3. \A d \in Client : client'[d] = IF d = c THEN s ELSE client[d]
    BY <1>1 DEF Typed, TypeOK, Goto
  <1>4. \A v \in Vault : local'[v] = IF v = V(c) THEN local[v] \cup {r} ELSE local[v]
    BY <1>0, <1>1
  <1>5. Grows
    BY <1>1, <1>4 DEF Grows
  <1>6. RequestTrue(c) /\ VaultTrue(V(c))
    BY <1>0 DEF AllTrue
  <1>7. RequestTrue(c)'
    <2>1. Submitting(c)' /\ Answered(c)'
      BY <1>1, <1>2, <1>3, <1>6 DEF RequestTrue, Submitting, Answered
    <2>2. Exposing(c)'
      BY <1>0, <1>1, <1>2, <1>3, <1>4, <1>6 DEF RequestTrue, Exposing
    <2> QED
      BY <2>1, <2>2 DEF RequestTrue
  <1>8. ASSUME NEW d \in Client \ {c}
        PROVE  RequestTrue(d)'
    BY <1>1, <1>3, <1>5, RequestKeeps
  <1>9. ASSUME NEW v \in Vault
        PROVE  VaultTrue(v)'
    <2>1. CASE v # V(c)
      BY <1>1, <1>4, <1>5, <2>1, VaultKeeps
    <2>2. CASE v = V(c)
      <3>1. q.response \in projections[v] /\ r \in q.response.members
        BY <1>1, <1>6, <2>2 DEF RequestTrue, Exposing
      <3> QED
        BY <1>1, <1>4, <1>6, <2>2, <3>1 DEF VaultTrue
    <2> QED
      BY <2>1, <2>2
  <1> QED
    BY <1>7, <1>8, <1>9 DEF AllTrue

(***************************************************************************)
(* The marker is replaced under the apply lock, so no other apply of this  *)
(* vault is in progress, and under the principal lock, so no other pull of *)
(* this principal waits to be compared with it.                            *)
(***************************************************************************)
LEMMA AdvanceMarkerTrue ==
  ASSUME Locked, AllTrue, NEW c \in Client, AdvanceMarker(c)
  PROVE  AllTrue'
  <1> DEFINE q == client[c]
             s == [q EXCEPT !.pc = "consume"]
  <1>0. /\ Typed /\ q \in RequestType /\ V(c) \in Vault
        /\ marker \in [Vault -> ReceiptType \cup {None}]
        /\ applyLock \in [Vault -> Client \cup {None}]
    BY SyncAssumption DEF Locked, Typed, TypeOK, V
  <1>1. /\ q.pc = "expose" /\ q.todo = {}
        /\ marker' = [marker EXCEPT ![V(c)] = q.response]
        /\ applyLock' = [applyLock EXCEPT ![V(c)] = None]
        /\ Goto(c, s)
        /\ UNCHANGED <<hub, local, projections, pending>>
    BY DEF AdvanceMarker, hubVars
  <1>2. s.pc = "consume" /\ s.outcomes = q.outcomes
    BY <1>0 DEF RequestType
  <1> HIDE DEF s
  <1>3. \A d \in Client : client'[d] = IF d = c THEN s ELSE client[d]
    BY <1>0, <1>1 DEF Typed, TypeOK, Goto
  <1>4. Grows
    BY <1>1 DEF Grows
  <1>5. RequestTrue(c) /\ VaultTrue(V(c))
    BY <1>0 DEF AllTrue
  <1>6. RequestTrue(c)'
    BY <1>1, <1>2, <1>3, <1>5 DEF RequestTrue, Submitting, Answered, Exposing
  <1>7. ASSUME NEW d \in Client \ {c}
        PROVE  RequestTrue(d)'
    <2>0. RequestTrue(d) /\ V(d) \in Vault /\ client'[d] = client[d]
      BY <1>3, SyncAssumption DEF V, AllTrue
    <2>1. ASSUME client[d].pc = "apply", NEW v \in Vault
          PROVE  marker'[v] = marker[v] \/ marker'[v].principal # P(d)
      <3>1. principalLock[P(c)] = c /\ principalLock[P(d)] = d
        BY <1>1, <2>1 DEF Locked, RequestsLocked
      <3>2. q.response.principal = P(c)
        BY <1>1, <1>5 DEF RequestTrue, Answered
      <3> QED
        BY <1>0, <1>1, <3>1, <3>2
    <2>2. CASE V(d) # V(c)
      BY <1>0, <1>1, <1>4, <2>0, <2>1, <2>2, RequestKeeps
    <2>3. CASE V(d) = V(c)
      <3>1. client[d].pc # "expose"
        BY <1>1, <1>5, <2>0, <2>3 DEF RequestTrue, Exposing
      <3>2. Submitting(d)' /\ Exposing(d)'
        BY <1>1, <2>0, <3>1 DEF RequestTrue, Submitting, Exposing
      <3>3. client[d].pc = "apply" =>
              client[d].response.principal = P(d) /\ Truthful(client[d].response, hub)
        BY <2>0 DEF RequestTrue, Answered
      <3>4. client[d].pc = "apply" => ShowsNoLess(client[d].response)'
        BY <2>0, <2>1, <3>3 DEF RequestTrue, Answered, ShowsNoLess
      <3>5. Answered(d)'
        BY <1>1, <2>0, <3>1, <3>3, <3>4 DEF Answered, ShowsNoLess
      <3> QED
        BY <3>2, <3>5 DEF RequestTrue
    <2> QED
      BY <2>2, <2>3
  <1>8. ASSUME NEW v \in Vault
        PROVE  VaultTrue(v)'
    <2>1. CASE v # V(c)
      BY <1>0, <1>1, <1>4, <2>1, VaultKeeps
    <2>2. CASE v = V(c)
      <3>1. /\ q.response \in projections[v]
            /\ q.response.members \subseteq local[v]
        BY <1>1, <1>5, <2>2 DEF RequestTrue, Exposing
      <3> QED
        BY <1>0, <1>1, <1>5, <2>2, <3>1 DEF VaultTrue
    <2> QED
      BY <2>1, <2>2
  <1> QED
    BY <1>6, <1>7, <1>8 DEF AllTrue

LEMMA PullTrue ==
  ASSUME VaultInv, NEW c \in Client, PullStep(c)
  PROVE  AllTrue'
  <1> USE DEF hubVars, lockVars
  <1> DEFINE q == client[c]
  <1>0. Locked /\ Typed /\ AllTrue /\ q \in RequestType /\ Submitting(c) /\ V(c) \in Vault
    BY SyncAssumption DEF VaultInv, HubInv, Locked, Typed, TypeOK, AllTrue, RequestTrue, V
  <1>1. ASSUME NEW t \in Time, BuildResponse(c, t)
        PROVE  AllTrue'
    BY <1>0, <1>1, BuildResponseTrue
  <1>2. CASE RefusePull(c)
    BY <1>0, <1>2, FinishTrue DEF RefusePull, vaultVars
  <1>3. CASE RefuseApply(c)
    BY <1>0, <1>3, FinishTrue DEF RefuseApply, vaultVars
  <1>4. CASE ApplyNothing(c)
    <2> DEFINE s == [q EXCEPT !.pc = "consume"]
    <2>1. Goto(c, s) /\ hub' = hub /\ UNCHANGED <<vaultVars, applyLock>>
      BY <1>4 DEF ApplyNothing
    <2>2. s.pc = "consume" /\ AdmittedIn(s.outcomes) \subseteq hub
      BY <1>0 DEF RequestType, Submitting
    <2> HIDE DEF s
    <2> QED
      BY <1>0, <2>1, <2>2, GotoTrue
  <1>5. CASE StartApply(c)
    BY <1>0, <1>5, StartApplyTrue
  <1>6. ASSUME NEW r \in q.todo, ExposeRecord(c, r)
        PROVE  AllTrue'
    BY <1>0, <1>6, ExposeRecordTrue
  <1>7. CASE AdvanceMarker(c)
    BY <1>0, <1>7, AdvanceMarkerTrue
  <1>8. CASE ConsumePending(c)
    <2>1. \A v \in Vault : pending'[v] = pending[v] \/ pending'[v] = None
      BY <1>0, <1>8 DEF ConsumePending, Typed, TypeOK
    <2> QED
      BY <1>0, <1>8, <2>1, FinishTrue DEF ConsumePending
  <1> QED
    BY <1>1, <1>2, <1>3, <1>4, <1>5, <1>6, <1>7, <1>8 DEF PullStep

-----------------------------------------------------------------------------
LEMMA AppendTrue ==
  ASSUME VaultInv, NEW v \in Vault, NEW r \in Record, AppendLocal(v, r)
  PROVE  AllTrue'
  <1>0. AllTrue /\ local \in [Vault -> SUBSET Record]
    BY DEF VaultInv, HubInv, Locked, Typed, TypeOK
  <1>1. /\ r \in Drafts[v] /\ local' = [local EXCEPT ![v] = @ \cup {r}]
        /\ UNCHANGED <<hub, projections, marker, pending, applyLock, client>>
    BY DEF AppendLocal, hubVars, lockVars
  <1>2. \A w \in Vault : local'[w] = IF w = v THEN local[w] \cup {r} ELSE local[w]
    BY <1>0, <1>1
  <1>3. Grows
    BY <1>1, <1>2 DEF Grows
  <1>4. ASSUME NEW d \in Client
        PROVE  RequestTrue(d)'
    BY <1>0, <1>1, <1>3, RequestKeeps
  <1>5. ASSUME NEW w \in Vault
        PROVE  VaultTrue(w)'
    <2>1. CASE w # v
      BY <1>0, <1>1, <1>2, <1>3, <2>1, VaultKeeps
    <2>2. CASE w = v
      BY <1>0, <1>1, <1>2, <2>2 DEF AllTrue, VaultTrue
    <2> QED
      BY <2>1, <2>2
  <1> QED
    BY <1>4, <1>5 DEF AllTrue

LEMMA BindTrue ==
  ASSUME VaultInv, NEW c \in Client, NEW ph \in Phases, BindSession(c, ph)
  PROVE  AllTrue'
  <1> DEFINE s == [Idle EXCEPT !.pc = IF ph = "pull" THEN "pull" ELSE "push",
                               !.phase = ph,
                               !.label = config.binding[P(c)],
                               !.generation = config.generation]
  <1>0. Typed /\ AllTrue
    BY DEF VaultInv, HubInv, Locked
  <1>1. Goto(c, s) /\ hub' = hub /\ UNCHANGED <<vaultVars, applyLock>>
    BY DEF BindSession, hubVars
  <1>2. s.pc \in {"pull", "push"} /\ s.outcomes = {}
    BY DEF Idle
  <1>3. AdmittedIn({}) = {}
    BY DEF AdmittedIn
  <1> HIDE DEF s
  <1> QED
    BY <1>0, <1>1, <1>2, <1>3, GotoTrue

\* The administrator and the claims route leave requests and vaults alone.
LEMMA StillClientsTrue ==
  ASSUME AllTrue, hub \subseteq hub', UNCHANGED <<vaultVars, client>>,
         \A v \in Vault : applyLock'[v] = applyLock[v] \/ applyLock[v] = Admin
  PROVE  AllTrue'
  <1>1. Grows /\ UNCHANGED <<local, projections, marker, pending>>
    BY DEF Grows, vaultVars
  <1>2. ASSUME NEW d \in Client
        PROVE  RequestTrue(d)'
    <2>1. V(d) \in Vault /\ (client[d].pc = "expose" => applyLock[V(d)] = d)
      BY SyncAssumption DEF V, AllTrue, RequestTrue, Exposing
    <2> QED
      BY <1>1, <2>1, RequestKeeps, SyncAssumption
  <1>3. ASSUME NEW v \in Vault
        PROVE  VaultTrue(v)'
    BY <1>1, VaultKeeps
  <1> QED
    BY <1>2, <1>3 DEF AllTrue

LEMMA AdminLeavesVaults ==
  ASSUME AdminStep
  PROVE  /\ UNCHANGED <<hub, vaultVars, client>>
         /\ \A v \in Vault : applyLock'[v] = applyLock[v] \/ applyLock[v] = Admin
  <1> USE DEF hubVars
  <1>1. ASSUME NEW b \in Bindings, NEW g \in Generation, BeginConfigure(b, g)
        PROVE  UNCHANGED <<hub, vaultVars, client, applyLock>>
    BY <1>1 DEF BeginConfigure
  <1>2. ASSUME NEW l \in Label, RetainLabel(l)
        PROVE  UNCHANGED <<hub, vaultVars, client, applyLock>>
    BY <1>2 DEF RetainLabel, lockVars
  <1>3. CASE ReplaceConfig
    BY <1>3 DEF ReplaceConfig, ReleaseLocks
  <1>4. CASE CrashConfigure
    BY <1>4 DEF CrashConfigure, ReleaseLocks
  <1> QED
    BY <1>1, <1>2, <1>3, <1>4 DEF AdminStep

LEMMA NextTrue ==
  ASSUME VaultInv, [Next]_vars
  PROVE  VaultInv'
  <1>0. Typed /\ AllTrue
    BY DEF VaultInv, HubInv, Locked
  <1>1. HubInv'
    BY NextHub DEF VaultInv
  <1>2. ASSUME NEW c \in Client, Crash(c)
        PROVE  AllTrue'
    BY <1>0, <1>2, FinishTrue DEF Crash, hubVars, vaultVars
  <1>3. ASSUME NEW o \in hub, HubClaim(o)
        PROVE  AllTrue'
    BY <1>0, <1>3, StillClientsTrue DEF HubClaim, lockVars
  <1>4. ASSUME UNCHANGED vars
        PROVE  AllTrue'
    BY <1>0, <1>4, StillClientsTrue DEF vars, hubVars, lockVars
  <1>5. ASSUME AdminStep
        PROVE  AllTrue'
    BY <1>0, <1>5, AdminLeavesVaults, StillClientsTrue
  <1>6. AllTrue'
    BY <1>2, <1>3, <1>4, <1>5, AppendTrue, BindTrue, PushTrue, PullTrue DEF Next
  <1> QED
    BY <1>1, <1>6 DEF VaultInv

LEMMA InitTrue == Init => VaultInv
  <1> SUFFICES ASSUME Init PROVE AllTrue
    BY InitHub DEF VaultInv
  <1>1. AdmittedIn({}) = {}
    BY DEF AdmittedIn
  <1>2. ASSUME NEW c \in Client
        PROVE  RequestTrue(c)
    BY <1>1 DEF Init, Idle, RequestTrue, Submitting, Answered, Exposing
  <1>3. ASSUME NEW v \in Vault
        PROVE  VaultTrue(v)
    BY DEF Init, VaultTrue
  <1> QED
    BY <1>2, <1>3 DEF AllTrue

LEMMA VaultInvHolds == Spec => []VaultInv
  BY InitTrue, NextTrue, PTL DEF Spec

-----------------------------------------------------------------------------
(***************************************************************************)
(* A pair a vault holds evidence of is in the hub: no crash between        *)
(* admission, pending envelope and receipt makes a local append one that   *)
(* is silently never delivered.                                            *)
(***************************************************************************)
THEOREM EvidenceStaysTrue == Spec => []EvidenceIsTrue
  <1>1. VaultInv => EvidenceIsTrue
    <2> SUFFICES ASSUME VaultInv, NEW v \in Vault
                 PROVE  /\ \A p \in Principal : Known(v, p) \subseteq hub
                        /\ pending[v] # None => AdmittedIn(pending[v].outcomes) \subseteq hub
      BY DEF EvidenceIsTrue
    <2>1. VaultTrue(v)
      BY DEF VaultInv, AllTrue
    <2>2. ASSUME NEW rc \in projections[v]
          PROVE  rc.members \cup AdmittedIn(rc.outcomes) \subseteq hub
      BY <2>1, TruthfulMembers DEF VaultTrue, Truthful
    <2> QED
      BY <2>1, <2>2 DEF VaultTrue, Known, Evidence
  <1> QED
    BY <1>1, VaultInvHolds, PTL

(***************************************************************************)
(* The success marker names a durable projection whose records are all     *)
(* present, wherever a crash falls in the apply.                           *)
(***************************************************************************)
THEOREM MarkerStaysBacked == Spec => []MarkerBacked
  <1>1. VaultInv => MarkerBacked
    BY DEF VaultInv, AllTrue, VaultTrue, MarkerBacked
  <1> QED
    BY <1>1, VaultInvHolds, PTL

(***************************************************************************)
(* A record that reached a vault through sync is named by a durable        *)
(* receipt whose own label may read its project.                           *)
(***************************************************************************)
THEOREM ProvenanceFirst == Spec => []ReceivedHasProvenance
  <1>1. VaultInv => ReceivedHasProvenance
    <2> SUFFICES ASSUME VaultInv, NEW v \in Vault, NEW r \in local[v] \ Drafts[v]
                 PROVE  \E rc \in projections[v] :
                          /\ r \in rc.members
                          /\ r.project \in Policy[rc.label].read \ Policy[rc.label].deny
      BY DEF ReceivedHasProvenance
    <2>1. PICK rc \in projections[v] : r \in rc.members
      BY DEF VaultInv, AllTrue, VaultTrue
    <2>2. Authorized(r, rc.label)
      BY <2>1, TruthfulMembers DEF VaultInv, AllTrue, VaultTrue
    <2> QED
      BY <2>1, <2>2 DEF Authorized, Readable
  <1> QED
    BY <1>1, VaultInvHolds, PTL

(***************************************************************************)
(* Under one unchanged scope a response never shows less than a marker of  *)
(* its principal, in whatever vault: sync-membership-regression guards a   *)
(* state the local hub cannot produce.                                     *)
(***************************************************************************)
THEOREM ResponsesNeverShrink == Spec => []ScopeNeverShrinks
  <1>1. VaultInv => ScopeNeverShrinks
    BY DEF VaultInv, AllTrue, RequestTrue, Answered, ShowsNoLess, ScopeNeverShrinks
  <1> QED
    BY <1>1, VaultInvHolds, PTL

-----------------------------------------------------------------------------
(***************************************************************************)
(* Which steps change what CoordinationUnion sees                          *)
(***************************************************************************)
LEMMA PushChanges ==
  ASSUME NEW c \in Client, PushStep(c)
  PROVE  /\ UNCHANGED <<local, projections, marker>>
         /\ \/ UNCHANGED hub
            \/ StoreTask(c)
            \/ \E r \in client[c].todo : AdmitOther(c, r)
         /\ UNCHANGED pending \/ SavePending(c)
  <1> USE DEF hubVars, vaultVars
  <1>1. LoadOutbox(c) \/ RefusePush(c) => UNCHANGED <<hub, vaultVars>>
    BY DEF LoadOutbox, RefusePush
  <1>2. \A r : SettleTask(c, r) \/ DecideTask(c, r) \/ TaskLockBusy(c, r)
                 => UNCHANGED <<hub, vaultVars>>
    BY DEF SettleTask, DecideTask, TaskLockBusy
  <1>3. \A r : AdmitOther(c, r) => UNCHANGED vaultVars
    BY DEF AdmitOther
  <1>4. StoreTask(c) => UNCHANGED vaultVars
    BY DEF StoreTask
  <1>5. SavePending(c) => UNCHANGED <<hub, local, projections, marker>>
    BY DEF SavePending
  <1> QED
    BY <1>1, <1>2, <1>3, <1>4, <1>5 DEF PushStep

LEMMA PullChanges ==
  ASSUME NEW c \in Client, PullStep(c)
  PROVE  /\ UNCHANGED hub
         /\ \/ UNCHANGED <<local, marker>>
            \/ \E r \in client[c].todo : ExposeRecord(c, r)
            \/ AdvanceMarker(c)
         /\ UNCHANGED projections \/ StartApply(c)
         /\ UNCHANGED pending \/ ConsumePending(c)
  <1> USE DEF hubVars, vaultVars
  <1>1. \A t : BuildResponse(c, t) => UNCHANGED <<hub, vaultVars>>
    BY DEF BuildResponse
  <1>2. RefusePull(c) \/ RefuseApply(c) \/ ApplyNothing(c) => UNCHANGED <<hub, vaultVars>>
    BY DEF RefusePull, RefuseApply, ApplyNothing
  <1>3. StartApply(c) => UNCHANGED <<hub, local, marker, pending>>
    BY DEF StartApply
  <1>4. \A r : ExposeRecord(c, r) => UNCHANGED <<hub, projections, marker, pending>>
    BY DEF ExposeRecord
  <1>5. AdvanceMarker(c) => UNCHANGED <<hub, local, projections, pending>>
    BY DEF AdvanceMarker
  <1>6. ConsumePending(c) => UNCHANGED <<hub, local, projections, marker>>
    BY DEF ConsumePending
  <1> QED
    BY <1>1, <1>2, <1>3, <1>4, <1>5, <1>6 DEF PullStep

LEMMA StepKinds ==
  ASSUME [Next]_vars
  PROVE  \/ UNCHANGED <<hub, local, marker>>
         \/ \E v \in Vault, r \in Record : AppendLocal(v, r)
         \/ \E c \in Client :
              \/ StoreTask(c)
              \/ \E r \in client[c].todo : AdmitOther(c, r) \/ ExposeRecord(c, r)
              \/ AdvanceMarker(c)
         \/ \E o \in hub : HubClaim(o)
  <1>1. ASSUME NEW c \in Client, NEW ph \in Phases, BindSession(c, ph)
        PROVE  UNCHANGED <<hub, local, marker>>
    BY <1>1 DEF BindSession, hubVars, vaultVars
  <1>2. ASSUME NEW c \in Client, Crash(c)
        PROVE  UNCHANGED <<hub, local, marker>>
    BY <1>2 DEF Crash, hubVars, vaultVars
  <1>3. ASSUME AdminStep
        PROVE  UNCHANGED <<hub, local, marker>>
    BY <1>3, AdminLeavesVaults DEF vaultVars
  <1>4. ASSUME UNCHANGED vars
        PROVE  UNCHANGED <<hub, local, marker>>
    BY <1>4 DEF vars, hubVars, vaultVars
  <1> QED
    BY <1>1, <1>2, <1>3, <1>4, PushChanges, PullChanges DEF Next

(***************************************************************************)
(* A vault's success marker keeps its principal and never goes back to an  *)
(* older generation, an earlier observation or, within one scope, a        *)
(* smaller membership, although it is written long after it was compared.  *)
(***************************************************************************)
THEOREM MarkerNeverGoesBack == Spec => MarkerMovesForward
  <1>1. VaultInv /\ [Next]_vars => MarkerStep
    <2> SUFFICES ASSUME VaultInv, [Next]_vars, NEW v \in Vault,
                        marker[v] # None, marker'[v] # marker[v]
                 PROVE  /\ InOrder(marker[v], marker'[v])
                        /\ ~Regresses(marker[v], marker'[v])
      BY DEF MarkerStep
    <2>1. marker' # marker
      OBVIOUS
    <2>2. ASSUME NEW c \in Client, NEW r, AdmitOther(c, r) \/ ExposeRecord(c, r)
          PROVE  UNCHANGED marker
      BY <2>2 DEF AdmitOther, ExposeRecord, vaultVars
    <2>3. ASSUME NEW c \in Client, StoreTask(c)
          PROVE  UNCHANGED marker
      BY <2>3 DEF StoreTask, vaultVars
    <2>4. (\E w \in Vault, r \in Record : AppendLocal(w, r)) \/ (\E o \in hub : HubClaim(o))
            => UNCHANGED marker
      BY DEF AppendLocal, HubClaim, vaultVars
    <2>5. PICK c \in Client : AdvanceMarker(c)
      BY <2>1, <2>2, <2>3, <2>4, StepKinds
    <2>6. marker' = [marker EXCEPT ![V(c)] = client[c].response] /\ client[c].pc = "expose"
      BY <2>5 DEF AdvanceMarker
    <2>7. v = V(c) /\ marker'[v] = client[c].response
      BY <2>6 DEF VaultInv, HubInv, Locked, Typed, TypeOK
    <2> QED
      BY <2>6, <2>7 DEF VaultInv, AllTrue, RequestTrue, Exposing
  <1> QED
    BY <1>1, VaultInvHolds, PTL DEF Spec, MarkerMovesForward

-----------------------------------------------------------------------------
(***************************************************************************)
(* The hub and its vaults implement the union                              *)
(***************************************************************************)
LEMMA UnionRelations ==
  /\ \A H, t : Union!Revisions(H, t) = Revisions(H, t)
  /\ \A T : Union!Genesis(T) = Genesis(T) /\ Union!Leaves(T) = Leaves(T)
  /\ \A r : Union!Successor(r) = Successor(r)
  /\ \A H, l : Union!AuthorizedRecords(H, l) = AuthorizedRecords(H, l)
  /\ \A H : Union!Consistent(H) <=> Consistent(H)
  <1>1. \A H, t : Union!Revisions(H, t) = Revisions(H, t)
    BY DEF Union!Revisions, Union!IsTask, Union!TaskKinds, Revisions, IsTask, TaskKinds
  <1>2. \A T : Union!Genesis(T) = Genesis(T) /\ Union!Leaves(T) = Leaves(T)
    BY DEF Union!Genesis, Union!Leaves, Union!Predecessor, Genesis, Leaves, Predecessor
  <1>3. \A r : Union!Successor(r) = Successor(r) /\ Union!Predecessor(r) = Predecessor(r)
    BY DEF Union!Successor, Union!Predecessor, Successor, Predecessor
  <1>4. \A H, l : Union!AuthorizedRecords(H, l) = AuthorizedRecords(H, l)
    BY DEF Union!AuthorizedRecords, Union!Authorized, Union!Declares, Union!Readable,
      AuthorizedRecords, Authorized, Declares, Readable
  <1>5. \A T : Union!ChainValid(T) <=> ChainValid(T)
    BY <1>2, <1>3 DEF Union!ChainValid, ChainValid
  <1>6. \A r, H, l : Union!ReceiptBindingValid(r, H, l) <=> ReceiptBindingValid(r, H, l)
    BY <1>1, <1>2, <1>5 DEF Union!ReceiptBindingValid, Union!Declares, Union!ReceiptAgrees,
      ReceiptBindingValid, Declares, ReceiptAgrees
  <1>7. \A H : Union!Consistent(H) <=> Consistent(H)
    BY <1>1, <1>5, <1>6 DEF Union!Consistent, Union!ChainsValid, Consistent, ChainsValid
  <1> QED
    BY <1>1, <1>2, <1>3, <1>4, <1>7

LEMMA UnionInit == Init => Union!Init
  BY DEF Init, Union!Init, Shown

ShownView == [v \in Vault |-> Shown(marker[v])]

LEMMA AppendIsAppend ==
  ASSUME NEW v \in Vault, NEW r \in Record, AppendLocal(v, r)
  PROVE  Union!Append(v, r)
  BY DEF AppendLocal, Union!Append, hubVars

HubConsistent == Consistent(hub)

LEMMA HubStaysConsistent == VaultInv => HubConsistent
  BY HubInvImpliesEgress
  DEF VaultInv, EgressNeverFails, EgressValid, HubConsistent, Consistent

LEMMA AdmissionIsAdmit ==
  ASSUME NEW v \in Vault, NEW r \in local[v], hub' = hub \cup {r}, Consistent(hub'),
         UNCHANGED <<local, marker>>
  PROVE  Union!Admit(r)
  <1>1. Union!Consistent(hub \cup {r})
    BY UnionRelations
  <1> QED
    BY <1>1 DEF Union!Admit

LEMMA StoreTaskIsAdmit ==
  ASSUME VaultInv, NEW c \in Client, StoreTask(c), Consistent(hub')
  PROVE  Union!Admit(client[c].current)
  <1>1. V(c) \in Vault /\ client[c].current \in local[V(c)]
    BY SyncAssumption DEF V, StoreTask, VaultInv, AllTrue, RequestTrue, Submitting
  <1> QED
    BY <1>1, AdmissionIsAdmit DEF StoreTask, vaultVars

LEMMA AdmitOtherIsAdmit ==
  ASSUME VaultInv, NEW c \in Client, NEW r \in client[c].todo, AdmitOther(c, r),
         Consistent(hub')
  PROVE  Union!Admit(r) \/ UNCHANGED <<hub, local, marker>>
  <1>1. V(c) \in Vault /\ r \in local[V(c)]
    BY SyncAssumption DEF V, AdmitOther, VaultInv, AllTrue, RequestTrue, Submitting
  <1>2. /\ hub' = hub \cup {r} \/ hub' = hub \cup {}
        /\ UNCHANGED <<local, marker>>
    BY DEF AdmitOther, vaultVars
  <1> QED
    BY <1>1, <1>2, AdmissionIsAdmit

LEMMA ClaimIsClaim ==
  ASSUME NEW o \in hub, HubClaim(o)
  PROVE  o \in Union!Genesis(hub) /\ Union!Claim(o)
  <1>1. o \in Genesis(hub)
    BY DEF HubClaim, Genesis
  <1>2. /\ Leaves(Revisions(hub, o.task)) = {o}
        /\ hub' = hub \cup {Successor(o)}
        /\ UNCHANGED <<local, marker>>
    BY DEF HubClaim, vaultVars
  <1> QED
    BY <1>1, <1>2, UnionRelations DEF Union!Claim

LEMMA ExposeIsReceive ==
  ASSUME VaultInv, NEW c \in Client, NEW r \in client[c].todo, ExposeRecord(c, r)
  PROVE  Union!Receive(V(c), r)
  <1>1. r \in client[c].response.members /\ Truthful(client[c].response, hub)
    BY DEF ExposeRecord, VaultInv, AllTrue, RequestTrue, Exposing, Answered
  <1>2. r \in hub
    BY <1>1, TruthfulMembers
  <1> QED
    BY <1>2 DEF ExposeRecord, Union!Receive, hubVars

\* The witness is the part of the hub the response was read from.
LEMMA AdvanceIsShow ==
  ASSUME VaultInv, NEW c \in Client, AdvanceMarker(c)
  PROVE  Union!Show(V(c), client[c].response.label)
  <1> DEFINE q == client[c]
             rc == q.response
             v == V(c)
  <1>1. /\ q.pc = "expose" /\ q.todo = {} /\ v \in Vault
        /\ marker' = [marker EXCEPT ![v] = rc]
        /\ UNCHANGED <<hub, local>>
    BY SyncAssumption DEF AdvanceMarker, V, hubVars
  <1>2. /\ Truthful(rc, hub)
        /\ rc.members \subseteq local[v]
    BY <1>1 DEF VaultInv, AllTrue, RequestTrue, Exposing, Answered
  <1>3. PICK H \in SUBSET hub : Consistent(H) /\ rc.members = AuthorizedRecords(H, rc.label)
    BY <1>2 DEF Truthful
  <1>4. rc # None /\ marker \in [Vault -> ReceiptType \cup {None}]
    <2>1. rc \in ReceiptType
      BY <1>1 DEF VaultInv, HubInv, Locked, Typed, RequestsTyped
    <2> QED
      BY <2>1, NoFileAssumption DEF VaultInv, HubInv, Locked, Typed, TypeOK
  <1>5. Shown(rc) = [label |-> rc.label, members |-> AuthorizedRecords(H, rc.label)]
    BY <1>3, <1>4 DEF Shown
  <1>6. ShownView' = [ShownView EXCEPT ![v] = Shown(rc)]
    BY <1>1, <1>4 DEF ShownView
  <1>7. local' = [local EXCEPT ![v] = @ \cup AuthorizedRecords(H, rc.label)]
    BY <1>1, <1>2, <1>3 DEF VaultInv, HubInv, Locked, Typed, TypeOK
  <1> QED
    BY <1>1, <1>3, <1>5, <1>6, <1>7, UnionRelations DEF Union!Show, ShownView

LEMMA UnionStep ==
  ASSUME VaultInv, HubConsistent', [Next]_vars
  PROVE  [Union!Next]_(Union!vars)
  <1>1. Consistent(hub')
    BY DEF HubConsistent
  <1>2. ASSUME UNCHANGED <<hub, local, marker>>
        PROVE  UNCHANGED Union!vars
    BY <1>2 DEF Union!vars
  <1>3. ASSUME NEW v \in Vault, NEW r \in Record, AppendLocal(v, r)
        PROVE  Union!Next
    BY <1>3, AppendIsAppend DEF Union!Next
  <1>4. ASSUME NEW c \in Client, StoreTask(c)
        PROVE  Union!Next
    <2>1. V(c) \in Vault /\ client[c].current \in Record
      BY <1>4, SyncAssumption
      DEF StoreTask, V, VaultInv, HubInv, Locked, Typed, RequestsTyped
    <2> QED
      BY <1>1, <1>4, <2>1, StoreTaskIsAdmit DEF Union!Next
  <1>5. ASSUME NEW c \in Client, NEW r \in client[c].todo
        PROVE  V(c) \in Vault /\ r \in Record
    BY <1>5, SyncAssumption DEF V, VaultInv, HubInv, Locked, Typed, TypeOK, RequestType
  <1>6. ASSUME NEW c \in Client, NEW r \in client[c].todo, AdmitOther(c, r)
        PROVE  Union!Next \/ UNCHANGED Union!vars
    BY <1>1, <1>2, <1>5, <1>6, AdmitOtherIsAdmit DEF Union!Next
  <1>7. ASSUME NEW c \in Client, NEW r \in client[c].todo, ExposeRecord(c, r)
        PROVE  Union!Next
    BY <1>5, <1>7, ExposeIsReceive DEF Union!Next
  <1>8. ASSUME NEW c \in Client, AdvanceMarker(c)
        PROVE  Union!Next
    <2>1. V(c) \in Vault /\ client[c].response.label \in Label
      BY <1>8, SyncAssumption
      DEF AdvanceMarker, V, VaultInv, HubInv, Locked, Typed, RequestsTyped, ReceiptType
    <2> QED
      BY <1>8, <2>1, AdvanceIsShow DEF Union!Next
  <1>9. ASSUME NEW o \in hub, HubClaim(o)
        PROVE  Union!Next
    BY <1>9, ClaimIsClaim DEF Union!Next
  <1> QED
    BY <1>2, <1>3, <1>4, <1>6, <1>7, <1>8, <1>9, StepKinds

(***************************************************************************)
(* The hub and its vaults implement the union: every step admits one       *)
(* record that keeps the hub consistent, claims a leaf, appends or         *)
(* receives one record, shows a complete reading of a consistent part of   *)
(* the hub, or changes none of these.                                      *)
(***************************************************************************)
THEOREM SyncImplementsUnion == Spec => ImplementsUnion
  <1>1. Init => Union!Init
    BY UnionInit
  <1>2. VaultInv /\ HubConsistent' /\ [Next]_vars => [Union!Next]_(Union!vars)
    BY UnionStep
  <1>3. VaultInv => HubConsistent
    BY HubStaysConsistent
  <1> QED
    BY <1>1, <1>2, <1>3, VaultInvHolds, PTL DEF Spec, ImplementsUnion, Union!Spec

-----------------------------------------------------------------------------
(***************************************************************************)
(* Pending envelopes of a vault that one principal uses.  (Run overwrite   *)
(* shows what two principals of one vault do to each other's envelope.)    *)
(***************************************************************************)
OnePrincipalPerVault == \A c, d \in Client : V(c) = V(d) => P(c) = P(d)

\* A push overwrites no envelope that waits for its acknowledgement.
Cleared(c) ==
  client[c].pc \in {"admit", "write"} /\ pending[V(c)] # None
    => pending[V(c)].outcomes = {}

\* What a pull acknowledges: the outcomes of the envelope it loaded, and by
\* the time it may consume the envelope a durable receipt carries them.
Acknowledged(c) ==
  client[c].pc \in {"apply", "expose", "consume"} /\ client[c].loaded # None =>
    /\ client[c].loaded.principal = P(c)
    /\ client[c].pc # "consume" => client[c].response.outcomes = client[c].loaded.outcomes
    /\ client[c].pc = "consume" /\ client[c].loaded.outcomes # {} =>
         \E rc \in projections[V(c)] :
           rc.principal = P(c) /\ rc.outcomes = client[c].loaded.outcomes

PendingInv == \A c \in Client : Cleared(c) /\ Acknowledged(c)

\* The principal lock makes a bound request the only one of its vault.
LEMMA OneRequestPerVault ==
  ASSUME Locked, OnePrincipalPerVault, NEW c \in Client, NEW d \in Client,
         V(c) = V(d), client[c].pc # "idle", client[d].pc # "idle"
  PROVE  c = d
  BY DEF Locked, RequestsLocked, OnePrincipalPerVault

LEMMA PendingKeeps ==
  ASSUME PendingInv, NEW d \in Client, client'[d] = client[d],
         projections[V(d)] \subseteq projections'[V(d)],
         \/ pending'[V(d)] = pending[V(d)] \/ pending'[V(d)] = None
         \/ client[d].pc = "idle"
  PROVE  Cleared(d)' /\ Acknowledged(d)'
  BY DEF PendingInv, Cleared, Acknowledged

\* A step of request c that no other request of the vault sees.
LEMMA PendingStepKeeps ==
  ASSUME VaultInv, PendingInv, OnePrincipalPerVault, NEW c \in Client,
         client[c].pc # "idle",
         \A d \in Client \ {c} : client'[d] = client[d],
         \A v \in Vault : /\ projections[v] \subseteq projections'[v]
                          /\ v # V(c) => pending'[v] = pending[v],
         Cleared(c)', Acknowledged(c)'
  PROVE  PendingInv'
  <1> SUFFICES ASSUME NEW d \in Client \ {c}
               PROVE  Cleared(d)' /\ Acknowledged(d)'
    BY DEF PendingInv
  <1>1. V(d) \in Vault
    BY SyncAssumption DEF V
  <1>2. V(d) # V(c) \/ client[d].pc = "idle"
    BY OneRequestPerVault DEF VaultInv, HubInv
  <1> QED
    BY <1>1, <1>2, PendingKeeps

LEMMA FinishPending ==
  ASSUME VaultInv, PendingInv, OnePrincipalPerVault, NEW c \in Client,
         client[c].pc # "idle", Finish(c), UNCHANGED projections,
         \A v \in Vault : v # V(c) => pending'[v] = pending[v]
  PROVE  PendingInv'
  <1>1. \A d \in Client : client'[d] = IF d = c THEN Idle ELSE client[d]
    BY FinishTyped DEF VaultInv, HubInv, Locked
  <1>2. Cleared(c)' /\ Acknowledged(c)'
    BY <1>1 DEF Idle, Cleared, Acknowledged
  <1> QED
    BY <1>1, <1>2, PendingStepKeeps

LEMMA GotoPending ==
  ASSUME VaultInv, PendingInv, OnePrincipalPerVault, NEW c \in Client,
         client[c].pc # "idle", NEW s, Goto(c, s),
         \A v \in Vault : /\ projections[v] \subseteq projections'[v]
                          /\ v # V(c) => pending'[v] = pending[v],
         s.pc \in {"admit", "write"} /\ pending'[V(c)] # None =>
           pending'[V(c)].outcomes = {},
         s.pc \in {"apply", "expose", "consume"} /\ s.loaded # None =>
           /\ s.loaded.principal = P(c)
           /\ s.pc # "consume" => s.response.outcomes = s.loaded.outcomes
           /\ s.pc = "consume" /\ s.loaded.outcomes # {} =>
                \E rc \in projections'[V(c)] :
                  rc.principal = P(c) /\ rc.outcomes = s.loaded.outcomes
  PROVE  PendingInv'
  <1>1. \A d \in Client : client'[d] = IF d = c THEN s ELSE client[d]
    BY DEF VaultInv, HubInv, Locked, Typed, TypeOK, Goto
  <1>2. Cleared(c)' /\ Acknowledged(c)'
    BY <1>1 DEF Cleared, Acknowledged
  <1> QED
    BY <1>1, <1>2, PendingStepKeeps

LEMMA PushPending ==
  ASSUME VaultInv, PendingInv, OnePrincipalPerVault, NEW c \in Client, PushStep(c)
  PROVE  PendingInv'
  <1> USE DEF hubVars, vaultVars, lockVars
  <1> DEFINE q == client[c]
  <1>0. /\ q \in RequestType /\ Typed /\ V(c) \in Vault /\ Cleared(c)
        /\ pending \in [Vault -> EnvelopeType \cup {None}]
    BY SyncAssumption DEF VaultInv, HubInv, Locked, Typed, TypeOK, V, PendingInv
  <1>1. CASE LoadOutbox(c)
    <2> DEFINE s == [q EXCEPT !.pc = "admit",
                              !.todo = local[V(c)] \ Known(V(c), P(c)),
                              !.seen = hub]
    <2>1. /\ q.pc = "push" /\ Goto(c, s) /\ UNCHANGED <<projections, pending>>
          /\ pending[V(c)] # None => pending[V(c)].outcomes = {}
      BY <1>1 DEF LoadOutbox, MayPush
    <2>2. s.pc = "admit"
      BY <1>0 DEF RequestType
    <2> HIDE DEF s
    <2> QED
      BY <2>1, <2>2, GotoPending
  <1>2. CASE RefusePush(c)
    BY <1>2, FinishPending DEF RefusePush
  <1>3. ASSUME q.pc \in {"admit", "write"}, NEW r, NEW code, NEW H,
               Goto(c, Decided(c, r, code, H)), UNCHANGED <<projections, pending>>
        PROVE  PendingInv'
    <2> DEFINE s == Decided(c, r, code, H)
    <2>1. s.pc = "admit" /\ Goto(c, s)
      BY <1>0, <1>3, DecidedPart
    <2> HIDE DEF s
    <2> QED
      BY <1>0, <1>3, <2>1, GotoPending DEF Cleared
  <1>4. ASSUME NEW r \in q.todo, SettleTask(c, r)
        PROVE  PendingInv'
    BY <1>3, <1>4 DEF SettleTask
  <1>5. ASSUME NEW r \in q.todo, DecideTask(c, r)
        PROVE  PendingInv'
    <2> DEFINE s == [q EXCEPT !.pc = "write", !.seen = SeenUnderLock(c, r), !.current = r]
    <2>1. q.pc = "admit" /\ Goto(c, s) /\ UNCHANGED <<projections, pending>>
      BY <1>5 DEF DecideTask
    <2>2. s.pc = "write"
      BY <1>0 DEF RequestType
    <2> HIDE DEF s
    <2> QED
      BY <1>0, <2>1, <2>2, GotoPending DEF Cleared
  <1>6. ASSUME NEW r \in q.todo, TaskLockBusy(c, r)
        PROVE  PendingInv'
    BY <1>6, FinishPending DEF TaskLockBusy
  <1>7. ASSUME NEW r \in q.todo, AdmitOther(c, r)
        PROVE  PendingInv'
    BY <1>3, <1>7 DEF AdmitOther
  <1>8. CASE StoreTask(c)
    BY <1>3, <1>8 DEF StoreTask
  <1>9. CASE SavePending(c)
    <2> DEFINE s == [q EXCEPT !.pc = "pull", !.seen = {}, !.outcomes = {}]
    <2>1. /\ Goto(c, s) \/ Finish(c)
          /\ UNCHANGED projections
          /\ \A v \in Vault : v # V(c) => pending'[v] = pending[v]
      BY <1>0, <1>9 DEF SavePending
    <2>2. s.pc = "pull"
      BY <1>0 DEF RequestType
    <2>3. q.pc # "idle"
      BY <1>9 DEF SavePending
    <2> HIDE DEF s
    <2> QED
      BY <2>1, <2>2, <2>3, GotoPending, FinishPending
  <1> QED
    BY <1>1, <1>2, <1>4, <1>5, <1>6, <1>7, <1>8, <1>9 DEF PushStep

LEMMA PullPending ==
  ASSUME VaultInv, PendingInv, OnePrincipalPerVault, NEW c \in Client, PullStep(c)
  PROVE  PendingInv'
  <1> USE DEF hubVars, vaultVars, lockVars
  <1> DEFINE q == client[c]
  <1>0. /\ q \in RequestType /\ V(c) \in Vault /\ Acknowledged(c)
        /\ Answered(c) /\ Exposing(c)
        /\ pending \in [Vault -> EnvelopeType \cup {None}]
        /\ projections \in [Vault -> SUBSET ReceiptType]
    BY SyncAssumption DEF VaultInv, HubInv, Locked, Typed, TypeOK, V, PendingInv,
      AllTrue, RequestTrue
  <1>1. ASSUME NEW t \in Time, BuildResponse(c, t)
        PROVE  PendingInv'
    <2> DEFINE s == [q EXCEPT !.pc = "apply", !.loaded = pending[V(c)],
                              !.response = Receipt(c, t)]
    <2>1. /\ q.pc = "pull" /\ Goto(c, s) /\ UNCHANGED <<projections, pending>>
          /\ pending[V(c)] # None => pending[V(c)].principal = P(c)
      BY <1>1 DEF BuildResponse, PendingLoads
    <2>2. s.pc = "apply" /\ s.loaded = pending[V(c)] /\ s.response = Receipt(c, t)
      BY <1>0 DEF RequestType
    <2>3. s.loaded # None => s.response.outcomes = s.loaded.outcomes
      BY <2>2 DEF Receipt
    <2> HIDE DEF s
    <2> QED
      BY <2>1, <2>2, <2>3, GotoPending
  <1>2. CASE RefusePull(c)
    BY <1>2, FinishPending DEF RefusePull
  <1>3. CASE RefuseApply(c)
    BY <1>3, FinishPending DEF RefuseApply
  <1>4. CASE ApplyNothing(c)
    <2> DEFINE s == [q EXCEPT !.pc = "consume"]
    <2>1. /\ q.pc = "apply" /\ Goto(c, s) /\ UNCHANGED <<projections, pending>>
          /\ q.response.outcomes = {}
      BY <1>4 DEF ApplyNothing, NothingNew
    <2>2. s.pc = "consume" /\ s.loaded = q.loaded
      BY <1>0 DEF RequestType
    <2> HIDE DEF s
    <2> QED
      BY <1>0, <2>1, <2>2, GotoPending DEF Acknowledged
  <1>5. CASE StartApply(c)
    <2> DEFINE s == [q EXCEPT !.pc = "expose", !.todo = RecordsToExpose(c)]
    <2>1. /\ q.pc = "apply" /\ Goto(c, s) /\ UNCHANGED pending
          /\ \A v \in Vault : projections[v] \subseteq projections'[v]
      BY <1>0, <1>5 DEF StartApply, ReceiptFirst
    <2>2. s.pc = "expose" /\ s.loaded = q.loaded /\ s.response = q.response
      BY <1>0 DEF RequestType
    <2> HIDE DEF s
    <2> QED
      BY <1>0, <2>1, <2>2, GotoPending DEF Acknowledged
  <1>6. ASSUME NEW r \in q.todo, ExposeRecord(c, r)
        PROVE  PendingInv'
    <2> DEFINE s == [q EXCEPT !.todo = @ \ {r}]
    <2>1. q.pc = "expose" /\ Goto(c, s) /\ UNCHANGED <<projections, pending>>
      BY <1>6 DEF ExposeRecord
    <2>2. s.pc = "expose" /\ s.loaded = q.loaded /\ s.response = q.response
      BY <1>0, <2>1 DEF RequestType
    <2> HIDE DEF s
    <2> QED
      BY <1>0, <2>1, <2>2, GotoPending DEF Acknowledged
  <1>7. CASE AdvanceMarker(c)
    <2> DEFINE s == [q EXCEPT !.pc = "consume"]
    <2>1. q.pc = "expose" /\ Goto(c, s) /\ UNCHANGED <<projections, pending>>
      BY <1>7 DEF AdvanceMarker
    <2>2. s.pc = "consume" /\ s.loaded = q.loaded
      BY <1>0 DEF RequestType
    <2>3. q.response \in projections[V(c)] /\ q.response.principal = P(c)
      BY <1>0, <2>1 DEF Exposing, Answered
    <2> HIDE DEF s
    <2> QED
      BY <1>0, <2>1, <2>2, <2>3, GotoPending DEF Acknowledged
  <1>8. CASE ConsumePending(c)
    <2>1. \A v \in Vault : v # V(c) => pending'[v] = pending[v]
      BY <1>0, <1>8 DEF ConsumePending
    <2> QED
      BY <1>8, <2>1, FinishPending DEF ConsumePending
  <1> QED
    BY <1>1, <1>2, <1>3, <1>4, <1>5, <1>6, <1>7, <1>8 DEF PullStep

LEMMA BindPending ==
  ASSUME VaultInv, PendingInv, NEW c \in Client, NEW ph \in Phases, BindSession(c, ph)
  PROVE  PendingInv'
  <1> DEFINE s == [Idle EXCEPT !.pc = IF ph = "pull" THEN "pull" ELSE "push",
                               !.phase = ph,
                               !.label = config.binding[P(c)],
                               !.generation = config.generation]
  <1>1. Goto(c, s) /\ UNCHANGED <<projections, pending>>
    BY DEF BindSession, vaultVars
  <1>2. s.pc \in {"pull", "push"}
    BY DEF Idle
  <1> HIDE DEF s
  <1>3. \A d \in Client : client'[d] = IF d = c THEN s ELSE client[d]
    BY <1>1 DEF VaultInv, HubInv, Locked, Typed, TypeOK, Goto
  <1> QED
    BY <1>1, <1>2, <1>3 DEF PendingInv, Cleared, Acknowledged

LEMMA StillPending ==
  ASSUME PendingInv, UNCHANGED <<client, projections, pending>>
  PROVE  PendingInv'
  BY DEF PendingInv, Cleared, Acknowledged

LEMMA NextPending ==
  ASSUME OnePrincipalPerVault, VaultInv, PendingInv, [Next]_vars
  PROVE  PendingInv'
  <1>1. ASSUME NEW c \in Client, Crash(c)
        PROVE  PendingInv'
    BY <1>1, FinishPending DEF Crash, vaultVars
  <1>2. ASSUME NEW o \in hub, HubClaim(o)
        PROVE  PendingInv'
    BY <1>2, StillPending DEF HubClaim, vaultVars
  <1>3. ASSUME NEW v \in Vault, NEW r \in Record, AppendLocal(v, r)
        PROVE  PendingInv'
    BY <1>3, StillPending DEF AppendLocal
  <1>4. ASSUME AdminStep
        PROVE  PendingInv'
    BY <1>4, AdminLeavesVaults, StillPending DEF vaultVars
  <1>5. ASSUME UNCHANGED vars
        PROVE  PendingInv'
    BY <1>5, StillPending DEF vars, vaultVars
  <1> QED
    BY <1>1, <1>2, <1>3, <1>4, <1>5, BindPending, PushPending, PullPending DEF Next

LEMMA PendingStepHolds ==
  ASSUME VaultInv, PendingInv, [Next]_vars
  PROVE  PendingStep
  <1> SUFFICES ASSUME NEW v \in Vault, pending[v] # None, pending[v].outcomes # {},
                      pending'[v] # pending[v]
               PROVE  \E rc \in projections[v] :
                        /\ rc.principal = pending[v].principal
                        /\ rc.outcomes = pending[v].outcomes
    BY DEF PendingStep
  <1>0. pending' # pending /\ pending \in [Vault -> EnvelopeType \cup {None}]
    BY DEF VaultInv, HubInv, Locked, Typed, TypeOK
  <1>1. PICK c \in Client : SavePending(c) \/ ConsumePending(c)
    <2>1. ASSUME NEW c \in Client, NEW ph \in Phases, BindSession(c, ph)
          PROVE  UNCHANGED pending
      BY <2>1 DEF BindSession, vaultVars
    <2>2. ASSUME NEW c \in Client, Crash(c)
          PROVE  UNCHANGED pending
      BY <2>2 DEF Crash, vaultVars
    <2>3. ASSUME (\E w \in Vault, r \in Record : AppendLocal(w, r)) \/ (\E o \in hub : HubClaim(o))
          PROVE  UNCHANGED pending
      BY <2>3 DEF AppendLocal, HubClaim, vaultVars
    <2>4. ASSUME AdminStep \/ UNCHANGED vars
          PROVE  UNCHANGED pending
      BY <2>4, AdminLeavesVaults DEF vars, vaultVars
    <2> QED
      BY <1>0, <2>1, <2>2, <2>3, <2>4, PushChanges, PullChanges DEF Next
  <1>2. CASE SavePending(c)
    <2>1. client[c].pc = "admit" /\ v = V(c)
      BY <1>0, <1>2 DEF SavePending
    <2> QED
      BY <2>1 DEF PendingInv, Cleared
  <1>3. CASE ConsumePending(c)
    <2>1. /\ client[c].pc = "consume" /\ v = V(c)
          /\ client[c].loaded # None /\ pending[v] = client[c].loaded
      BY <1>0, <1>3 DEF ConsumePending, Consumable
    <2> QED
      BY <2>1 DEF PendingInv, Acknowledged
  <1> QED
    BY <1>1, <1>2, <1>3

(***************************************************************************)
(* Where one principal uses a vault, a pending envelope with outcomes      *)
(* disappears only once a durable receipt of that principal carries        *)
(* exactly these outcomes: "it cannot be overwritten by a later request".  *)
(***************************************************************************)
THEOREM PendingNeverLost ==
  ASSUME OnePrincipalPerVault
  PROVE  Spec => PendingAcknowledgedFirst
  <1>1. Init => PendingInv
    BY DEF Init, PendingInv, Cleared, Acknowledged, Idle
  <1>2. VaultInv /\ PendingInv /\ [Next]_vars => PendingInv'
    BY NextPending
  <1>3. VaultInv /\ PendingInv /\ [Next]_vars => PendingStep
    BY PendingStepHolds
  <1> QED
    BY <1>1, <1>2, <1>3, VaultInvHolds, PTL DEF Spec, PendingAcknowledgedFirst
=============================================================================
