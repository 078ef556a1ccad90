--------------------- MODULE CoordinationRecords_proofs ---------------------
(***************************************************************************)
(* Lemmas about sets of TaskPacket and WorkReceipt revisions, for any      *)
(* records, labels and policies.  The proofs about CoordinationSync and    *)
(* about HttpPlane rest on them: a task's revisions in a hub are none, one *)
(* genesis, or one genesis and its claim; a complete chain that ends in a  *)
(* claimed leaf is the whole history; and what a label may read of a       *)
(* consistent set of records is consistent.                                *)
(***************************************************************************)
EXTENDS CoordinationRecords, TLAPS

(***************************************************************************)
(* TaskPacket chains                                                       *)
(***************************************************************************)
HistoryOK(H, t) ==
  \/ Revisions(H, t) = {}
  \/ \E o \in Record :
       /\ o.kind = "open"
       /\ o.task = t
       /\ Revisions(H, t) = {o} \/ Revisions(H, t) = {o, Successor(o)}

LEMMA SuccessorFacts ==
  ASSUME NEW o \in Record, o.kind = "open"
  PROVE  /\ Successor(o) \in Record
         /\ Successor(o).kind = "claimed"
         /\ Successor(o).task = o.task
         /\ Successor(o).label = o.label
         /\ Successor(o).project = o.project
         /\ Predecessor(Successor(o)) = o
         /\ IsTask(o) /\ IsTask(Successor(o))
         /\ o.task \in Task
  <1>1. o \in TaskRevision /\ Successor(o) \in Record
    BY RecordAssumption DEF IsTask, TaskKinds
  <1> QED
    BY <1>1 DEF TaskRevision, Successor, Predecessor, IsTask, TaskKinds

LEMMA LeavesOfHistory ==
  ASSUME NEW o \in Record, o.kind = "open"
  PROVE  /\ Leaves({o}) = {o}
         /\ Leaves({o, Successor(o)}) = {Successor(o)}
  BY SuccessorFacts DEF Leaves

LEMMA HistoryValid ==
  ASSUME NEW H, NEW t, HistoryOK(H, t), Revisions(H, t) # {}
  PROVE  ChainValid(Revisions(H, t))
  <1>1. PICK o \in Record : /\ o.kind = "open"
                            /\ o.task = t
                            /\ \/ Revisions(H, t) = {o}
                               \/ Revisions(H, t) = {o, Successor(o)}
    BY DEF HistoryOK
  <1>2. Genesis(Revisions(H, t)) = {o}
    BY <1>1, SuccessorFacts DEF Genesis
  <1>3. \E m \in Leaves(Revisions(H, t)) : Leaves(Revisions(H, t)) = {m}
    BY <1>1, LeavesOfHistory
  <1> QED
    BY <1>1, <1>2, <1>3, SuccessorFacts DEF ChainValid

(***************************************************************************)
(* A complete chain that ends in a claimed leaf is the whole history.      *)
(***************************************************************************)
LEMMA ClaimedChainIsWhole ==
  ASSUME NEW H, NEW S, S \subseteq H, NEW t, HistoryOK(H, t), NEW x,
         Leaves(Revisions(S, t)) = {x}, ChainValid(Revisions(S, t)),
         x.kind = "claimed"
  PROVE  /\ Revisions(S, t) = Revisions(H, t)
         /\ \E o \in Record : o.kind = "open" /\ o.task = t
              /\ Revisions(H, t) = {o, Successor(o)}
  <1>1. x \in Revisions(S, t) /\ Revisions(S, t) \subseteq Revisions(H, t)
    BY DEF Leaves, Revisions
  <1>2. PICK o \in Record : /\ o.kind = "open"
                            /\ o.task = t
                            /\ \/ Revisions(H, t) = {o}
                               \/ Revisions(H, t) = {o, Successor(o)}
    BY <1>1 DEF HistoryOK
  <1>3. x = Successor(o) /\ Revisions(H, t) = {o, Successor(o)}
    BY <1>1, <1>2
  <1>4. Predecessor(x) \in Revisions(S, t)
    BY <1>1 DEF ChainValid
  <1>5. o \in Revisions(S, t)
    BY <1>2, <1>3, <1>4, SuccessorFacts
  <1> QED
    BY <1>1, <1>2, <1>3, <1>5

-----------------------------------------------------------------------------
(***************************************************************************)
(* What one more record does to the histories and to bound receipts        *)
(***************************************************************************)
LEMMA AddTask ==
  ASSUME NEW H, NEW r, IsTask(r), NEW t
  PROVE  Revisions(H \cup {r}, t) =
           IF t = r.task THEN Revisions(H, t) \cup {r} ELSE Revisions(H, t)
  BY DEF Revisions

LEMMA AddOther ==
  ASSUME NEW H, NEW r, ~IsTask(r), NEW t
  PROVE  Revisions(H \cup {r}, t) = Revisions(H, t)
  BY DEF Revisions

LEMMA SameChainSameBinding ==
  ASSUME NEW r, NEW H, NEW K, NEW l, ReceiptBindingValid(r, H, l),
         Revisions(K, r.ref.task) = Revisions(H, r.ref.task)
  PROVE  ReceiptBindingValid(r, K, l)
  BY DEF ReceiptBindingValid

-----------------------------------------------------------------------------
(***************************************************************************)
(* What a label may read of a consistent set                               *)
(***************************************************************************)
LEMMA ChainAgrees ==
  ASSUME NEW T \in SUBSET TaskRevision, ChainValid(T), NEW x \in T, NEW y \in T
  PROVE  x.project = y.project /\ x.label = y.label
  <1>1. PICK g : Genesis(T) = {g}
    BY DEF ChainValid
  <1>2. ASSUME NEW z \in T
        PROVE  z.project = g.project /\ z.label = g.label
    <2>1. CASE z.kind = "open"
      BY <1>1, <2>1 DEF Genesis
    <2>2. CASE z.kind = "claimed"
      <3>1. Predecessor(z) \in T
        BY <2>2 DEF ChainValid
      <3>2. /\ Predecessor(z).kind = "open"
            /\ Predecessor(z).project = z.project
            /\ Predecessor(z).label = z.label
        BY DEF Predecessor, TaskRevision
      <3> QED
        BY <1>1, <3>1, <3>2 DEF Genesis
    <2> QED
      BY <2>1, <2>2 DEF TaskRevision, TaskKinds
  <1> QED
    BY <1>2

LEMMA RevisionsTyped ==
  ASSUME NEW H \in SUBSET Record, NEW t
  PROVE  Revisions(H, t) \in SUBSET TaskRevision
  BY RecordAssumption DEF Revisions

LEMMA FilterKeepsChain ==
  ASSUME NEW H \in SUBSET Record, NEW l, NEW t, ChainValid(Revisions(H, t)),
         Revisions(AuthorizedRecords(H, l), t) # {}
  PROVE  Revisions(AuthorizedRecords(H, l), t) = Revisions(H, t)
  <1>1. PICK x \in Revisions(H, t) : Authorized(x, l)
    BY DEF Revisions, AuthorizedRecords
  <1>2. ASSUME NEW y \in Revisions(H, t)
        PROVE  Authorized(y, l)
    <2>1. x.project = y.project /\ x.label = y.label
      BY ChainAgrees, RevisionsTyped
    <2> QED
      BY <1>1, <2>1 DEF Authorized
  <1> QED
    BY <1>2 DEF Revisions, AuthorizedRecords

(***************************************************************************)
(* Filtering a consistent set never separates a WorkReceipt from the chain *)
(* it binds, nor a revision from its predecessor.                          *)
(***************************************************************************)
LEMMA ReadingVerifies ==
  ASSUME NEW H \in SUBSET Record, Consistent(H), NEW l
  PROVE  PullRelationsValid(AuthorizedRecords(H, l))
  <1> DEFINE S == AuthorizedRecords(H, l)
  <1>1. ASSUME NEW t \in Task, Revisions(S, t) # {}
        PROVE  ChainValid(Revisions(S, t))
    <2>1. Revisions(H, t) # {}
      BY <1>1 DEF Revisions, AuthorizedRecords
    <2>2. ChainValid(Revisions(H, t))
      BY <2>1 DEF Consistent, ChainsValid
    <2> QED
      BY <1>1, <2>2, FilterKeepsChain
  <1>2. ASSUME NEW r \in S, r.kind = "receipt"
        PROVE  r.ref \in Leaves(Revisions(S, r.ref.task)) /\ ReceiptAgrees(r)
    <2> DEFINE T == Revisions(H, r.ref.task)
    <2>1. ChainValid(T) /\ Leaves(T) = {r.ref} /\ ReceiptAgrees(r)
      BY <1>2 DEF Consistent, ReceiptBindingValid, AuthorizedRecords
    <2>2. r.ref \in T /\ Authorized(r, l)
      BY <1>2, <2>1 DEF Leaves, AuthorizedRecords
    <2>3. Authorized(r.ref, l)
      BY <2>1, <2>2 DEF ReceiptAgrees, Authorized
    <2>4. r.ref \in Revisions(S, r.ref.task)
      BY <2>2, <2>3 DEF Revisions, AuthorizedRecords
    <2>5. Revisions(S, r.ref.task) = T
      BY <2>1, <2>4, FilterKeepsChain
    <2> HIDE DEF S, T
    <2> QED
      BY <2>1, <2>5
  <1> QED
    BY <1>1, <1>2 DEF PullRelationsValid, ChainsValid

-----------------------------------------------------------------------------
(***************************************************************************)
(* What admission and claims do to a whole hub                             *)
(***************************************************************************)
Whole(H) ==
  /\ \A t \in Task : HistoryOK(H, t)
  /\ \A r \in H : r.kind = "receipt" => ReceiptBindingValid(r, H, r.label)

LEMMA WholeIsConsistent ==
  ASSUME NEW H, Whole(H)
  PROVE  Consistent(H)
  BY HistoryValid DEF Whole, Consistent, ChainsValid

LEMMA AdmissionKeepsWhole ==
  ASSUME NEW H, Whole(H), NEW r \in Record, NEW l, NEW p,
         SubmissionCode(r, l, p, H) = "admitted"
  PROVE  Whole(H \cup {r})
  <1> DEFINE K == H \cup {r}
  <1>1. /\ r.kind \in {"open", "receipt"} /\ r.label = l
        /\ r.kind = "open" => ~IdentityTaken(r, H)
        /\ r.kind = "receipt" => ReceiptBindingValid(r, H, l)
    <2>1. PolicyCode(r, l) = "admitted"
      BY DEF SubmissionCode
    <2>2. r.kind # "label" /\ r.label = l
      BY <2>1 DEF PolicyCode
    <2> QED
      BY <2>1, <2>2, RecordAssumption DEF SubmissionCode, TaskKinds
  <1>2. CASE r \in H
    <2>1. H \cup {r} = H
      BY <1>2
    <2> QED
      BY <2>1
  <1>3. CASE r \notin H /\ r.kind = "open"
    <2>1. IsTask(r) /\ r.task \in Task /\ Revisions(H, r.task) = {}
      BY <1>1, <1>3, SuccessorFacts DEF IdentityTaken
    <2>2. ASSUME NEW t
          PROVE  Revisions(K, t) = IF t = r.task THEN {r} ELSE Revisions(H, t)
      BY <2>1, AddTask
    <2>3. ASSUME NEW t \in Task
          PROVE  HistoryOK(K, t)
      <3>1. CASE t = r.task
        BY <1>3, <2>2, <3>1 DEF HistoryOK
      <3>2. CASE t # r.task
        <4>1. Revisions(K, t) = Revisions(H, t)
          BY <2>2, <3>2
        <4> HIDE DEF K
        <4> QED
          BY <4>1 DEF Whole, HistoryOK
      <3> QED
        BY <3>1, <3>2
    <2>4. ASSUME NEW x \in K, x.kind = "receipt"
          PROVE  ReceiptBindingValid(x, K, x.label)
      <3>1. ReceiptBindingValid(x, H, x.label)
        BY <1>3, <2>4 DEF Whole
      <3>2. x.ref.task # r.task
        BY <2>1, <3>1 DEF ReceiptBindingValid
      <3>3. Revisions(K, x.ref.task) = Revisions(H, x.ref.task)
        BY <2>2, <3>2
      <3> HIDE DEF K
      <3> QED
        BY <3>1, <3>3, SameChainSameBinding
    <2> QED
      BY <2>3, <2>4 DEF Whole
  <1>4. CASE r.kind = "receipt"
    <2>1. ~IsTask(r)
      BY <1>4 DEF IsTask, TaskKinds
    <2>2. \A t : Revisions(K, t) = Revisions(H, t)
      BY <2>1, AddOther
    <2>3. ASSUME NEW x \in K, x.kind = "receipt"
          PROVE  ReceiptBindingValid(x, K, x.label)
      <3>1. ReceiptBindingValid(x, H, x.label)
        BY <1>1, <1>4, <2>3 DEF Whole
      <3> HIDE DEF K
      <3> QED
        BY <2>2, <3>1, SameChainSameBinding
    <2>4. \A t \in Task : HistoryOK(K, t)
      <3> HIDE DEF K
      <3> QED
        BY <2>2 DEF Whole, HistoryOK
    <2> QED
      BY <2>3, <2>4 DEF Whole
  <1> QED
    BY <1>1, <1>2, <1>3, <1>4

\* A claim adds the successor of a genesis that is the leaf, or nothing.
LEMMA ClaimKeepsWhole ==
  ASSUME NEW H, Whole(H), NEW o \in Record, o.kind = "open",
         Leaves(Revisions(H, o.task)) \in {{o}, {Successor(o)}}
  PROVE  /\ Whole(H \cup {Successor(o)})
         /\ \/ Successor(o) \in H
            \/ o \in Genesis(H) /\ Leaves(Revisions(H, o.task)) = {o}
  <1> DEFINE T == Revisions(H, o.task)
             K == H \cup {Successor(o)}
  <1>1. /\ o.task \in Task /\ IsTask(Successor(o)) /\ Successor(o).task = o.task
        /\ Successor(o).kind = "claimed" /\ Successor(o) # o
    BY SuccessorFacts
  <1>2. CASE Leaves(T) = {Successor(o)}
    <2>1. Successor(o) \in H
      BY <1>2 DEF Leaves, Revisions
    <2>2. H \cup {Successor(o)} = H
      BY <2>1
    <2> QED
      BY <2>1, <2>2
  <1>3. CASE Leaves(T) = {o}
    <2>1. PICK g \in Record : g.kind = "open" /\ (T = {g} \/ T = {g, Successor(g)})
      <3>1. T # {}
        BY <1>3 DEF Leaves
      <3> QED
        BY <1>1, <3>1 DEF Whole, HistoryOK
    <2>2. T = {o} /\ o \in Genesis(H)
      <3>1. T # {g, Successor(g)}
        BY <1>3, <2>1, LeavesOfHistory, SuccessorFacts
      <3>2. T = {o}
        BY <1>3, <2>1, <3>1, LeavesOfHistory
      <3> QED
        BY <3>2 DEF Genesis, Revisions
    <2>3. ASSUME NEW t
          PROVE  Revisions(K, t) = IF t = o.task THEN {o, Successor(o)} ELSE Revisions(H, t)
      <3> DEFINE c == Successor(o)
      <3>1. IsTask(c) /\ c.task = o.task
        BY <1>1
      <3> HIDE DEF c
      <3>2. Revisions(H \cup {c}, t) =
              IF t = c.task THEN Revisions(H, t) \cup {c} ELSE Revisions(H, t)
        BY <3>1, AddTask
      <3>3. Revisions(H, o.task) = {o}
        BY <2>2
      <3> QED
        BY <3>1, <3>2, <3>3 DEF c
    <2>4. ASSUME NEW t \in Task
          PROVE  HistoryOK(K, t)
      <3>1. CASE t = o.task
        BY <2>3, <3>1 DEF HistoryOK
      <3>2. CASE t # o.task
        <4>1. Revisions(K, t) = Revisions(H, t)
          BY <2>3, <3>2
        <4> HIDE DEF K
        <4> QED
          BY <4>1 DEF Whole, HistoryOK
      <3> QED
        BY <3>1, <3>2
    <2>5. ASSUME NEW x \in K, x.kind = "receipt"
          PROVE  ReceiptBindingValid(x, K, x.label)
      <3>1. ReceiptBindingValid(x, H, x.label)
        BY <1>1, <2>5 DEF Whole
      <3>2. Leaves(Revisions(H, x.ref.task)) = {x.ref} /\ x.ref.kind = "claimed"
        BY <3>1 DEF ReceiptBindingValid, ReceiptAgrees
      <3>3. x.ref.task # o.task
        BY <1>3, <3>2
      <3>4. Revisions(K, x.ref.task) = Revisions(H, x.ref.task)
        BY <2>3, <3>3
      <3> HIDE DEF K
      <3> QED
        BY <3>1, <3>4, SameChainSameBinding
    <2> QED
      BY <1>3, <2>2, <2>4, <2>5 DEF Whole
  <1> QED
    BY <1>2, <1>3
=============================================================================
