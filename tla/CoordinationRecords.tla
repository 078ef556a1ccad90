------------------------ MODULE CoordinationRecords ------------------------
(***************************************************************************)
(* The record relations and the policy decisions of the coordination       *)
(* plane: what a set of TaskPacket and WorkReceipt revisions must satisfy  *)
(* (coordination.py) and which typed code the hub gives a submission       *)
(* (coordination_sync.py).  Everything here is a pure function of records. *)
(*                                                                         *)
(* A record stands for one (record_id, revision_digest) pair together with *)
(* its canonical body, so two records are equal exactly when the pairs     *)
(* are.  There are four kinds:                                             *)
(*   "open"     a genesis TaskPacket revision                              *)
(*              [kind, task, origin, project, label, writer, rev]          *)
(*   "claimed"  its successor: the same fields with the status changed     *)
(*   "receipt"  a WorkReceipt [kind, origin, project, label, writer, ref]  *)
(*              whose ref is the exact TaskPacket revision it binds        *)
(*   "label"    an AccessLabel body [kind, name] lying in a local vault    *)
(* The field task stands for the TaskPacket's record_id, and rev for the   *)
(* rest of its body: competing genesis revisions of a task differ in rev.  *)
(* A claim has an id of its own, so no two tasks carry one claim id and    *)
(* coordination-claim-id-duplicate never is the code.                      *)
(***************************************************************************)
EXTENDS Naturals, FiniteSets

CONSTANTS
  Project,        \* project UUIDs
  Principal,      \* stable principals, also the values of a writer field
  Label,          \* exact AccessLabel revisions
  Policy,         \* Policy[l]: the grants the label revision l carries
  Task,           \* TaskPacket record identities
  OriginProject,  \* the hub's origin_projects: origin -> project
  Record          \* every record that may exist in any vault or hub

TaskKinds == {"open", "claimed"}

IsTask(r) == r.kind \in TaskKinds

PolicyType == [read : SUBSET Project, deny : SUBSET Project,
               syncTasks : SUBSET Project, syncReceipts : SUBSET Project,
               declares : SUBSET Project]

(***************************************************************************)
(* The open revision a claimed one succeeds, and the claimed revision that *)
(* succeeds an open one: a claim changes status, claims and predecessor    *)
(* and leaves every other field alone.                                     *)
(***************************************************************************)
Predecessor(c) == [c EXCEPT !.kind = "open"]

Successor(o) == [o EXCEPT !.kind = "claimed"]

ASSUME PolicyAssumption == Policy \in [Label -> PolicyType]

TaskRevision ==
  [kind : TaskKinds, task : Task, origin : DOMAIN OriginProject,
   project : Project, label : Label, writer : Principal, rev : Nat]

ASSUME RecordAssumption ==
  /\ IsFiniteSet(Record)
  /\ IsFiniteSet(Label)
  /\ OriginProject \in [DOMAIN OriginProject -> Project]
  /\ \A r \in Record :
       /\ r.kind \in TaskKinds \cup {"receipt", "label"}
       /\ IsTask(r) => r \in TaskRevision
       /\ r.kind = "open" => Successor(r) \in Record
       /\ r.kind = "receipt" =>
            r \in [kind : {"receipt"}, origin : DOMAIN OriginProject,
                  project : Project, label : Label, writer : Principal,
                  ref : {x \in Record : x.kind \in TaskKinds}]

-----------------------------------------------------------------------------
(***************************************************************************)
(* TaskPacket chains                                                       *)
(***************************************************************************)

Revisions(H, t) == {x \in H : IsTask(x) /\ x.task = t}

Genesis(T) == {x \in T : x.kind = "open"}

\* The revisions of T no other revision of T names as its predecessor.
Leaves(T) == {x \in T : \A y \in T : y.kind = "claimed" => Predecessor(y) # x}

\* One genesis, every predecessor present, no fork, hence one leaf.
ChainValid(T) ==
  /\ \E g \in Genesis(T) : Genesis(T) = {g}
  /\ \A x \in T : x.kind = "claimed" => Predecessor(x) \in T
  /\ \A x, y \in T :
       /\ x.kind = "claimed"
       /\ y.kind = "claimed"
       /\ Predecessor(x) = Predecessor(y)
       => x = y
  /\ \E m \in Leaves(T) : Leaves(T) = {m}

ChainsValid(H) ==
  \A t \in Task : Revisions(H, t) # {} => ChainValid(Revisions(H, t))

-----------------------------------------------------------------------------
(***************************************************************************)
(* WorkReceipts bind the exact claimed leaf of a complete chain            *)
(***************************************************************************)

ReceiptAgreesInLabel(r) ==
  /\ r.ref.kind = "claimed"
  /\ r.label = r.ref.label
  /\ r.writer = r.ref.writer

\* What a WorkReceipt must share with the TaskPacket revision it binds.
ReceiptAgrees(r) ==
  /\ r.ref.kind = "claimed"
  /\ r.project = r.ref.project
  /\ r.label = r.ref.label
  /\ r.writer = r.ref.writer

Declares(l, p) == p \in Policy[l].declares

ReceiptBindingValid(r, H, l) ==
  LET T == Revisions(H, r.ref.task)
  IN  /\ T # {}
      /\ ChainValid(T)
      /\ \A x \in T : x.label = l /\ Declares(l, x.project)
      /\ Leaves(T) = {r.ref}
      /\ ReceiptAgrees(r)
      /\ r.label = l
      /\ Declares(l, r.project)

\* Every history is one chain, and every WorkReceipt binds the leaf of one.
Consistent(H) ==
  /\ ChainsValid(H)
  /\ \A r \in H : r.kind = "receipt" => ReceiptBindingValid(r, H, r.label)

-----------------------------------------------------------------------------
(***************************************************************************)
(* Admission                                                               *)
(***************************************************************************)

Readable(l) == Policy[l].read \ Policy[l].deny

SyncPermission(r, l) ==
  IF IsTask(r) THEN Policy[l].syncTasks ELSE Policy[l].syncReceipts

PolicyCode(r, l) ==
  IF r.kind = "label" THEN "unauthorized-record-type"
  ELSE IF r.label # l THEN "label-mismatch"
  ELSE IF \/ OriginProject[r.origin] # r.project
          \/ r.project \notin Readable(l)
          \/ r.project \notin SyncPermission(r, l)
       THEN "unauthorized-project"
  ELSE IF ~Declares(l, r.project) THEN "schema-invalid"
  ELSE "admitted"

\* Another revision already owns this TaskPacket identity.
IdentityTaken(r, H) == r \notin H /\ Revisions(H, r.task) # {}

SubmissionCode(r, l, p, H) ==
  IF PolicyCode(r, l) # "admitted" THEN PolicyCode(r, l)
  ELSE IF r.kind = "claimed" THEN "principal-mismatch"
  ELSE IF r.kind = "open" /\ IdentityTaken(r, H) THEN "schema-invalid"
  ELSE IF r.kind = "receipt" /\ r.writer # p THEN "principal-mismatch"
  ELSE IF r.kind = "receipt" /\ ~ReceiptBindingValid(r, H, l)
       THEN "schema-invalid"
  ELSE "admitted"

Codes == {"admitted", "schema-invalid", "unauthorized-project",
          "unauthorized-record-type", "label-mismatch", "principal-mismatch"}

-----------------------------------------------------------------------------
(***************************************************************************)
(* Egress: what a bound label may be shown, and what must hold of the      *)
(* whole hub before anything is shown to anyone                            *)
(***************************************************************************)

Authorized(r, l) ==
  /\ r.project \in Readable(l)
  /\ Declares(l, r.project)
  /\ r.project \in Readable(r.label)

AuthorizedRecords(H, l) == {r \in H : Authorized(r, l)}

\* The checks that make a pull fail hub-record-invalid for every principal.
EgressValid(H, retained) ==
  /\ \A r \in H : r.label \in retained /\ Declares(r.label, r.project)
  /\ Consistent(H)

\* What the replica re-checks without seeing any AccessLabel body.
PullRelationsValid(S) ==
  /\ ChainsValid(S)
  /\ \A r \in S :
       r.kind = "receipt" =>
         /\ r.ref \in Leaves(Revisions(S, r.ref.task))
         /\ ReceiptAgrees(r)
-----------------------------------------------------------------------------
(***************************************************************************)
(* What a submission was told, and what a vault's receipts are evidence of *)
(***************************************************************************)

Outcome(r, code) == [record |-> r, code |-> code]

AttemptedIn(outcomes) == {o.record : o \in outcomes}

AdmittedIn(outcomes) == {o.record : o \in {x \in outcomes : x.code = "admitted"}}

\* Pairs the receipts of principal p name as in the hub.
Evidence(receipts, p) ==
  UNION {rc.members \cup AdmittedIn(rc.outcomes) :
           rc \in {x \in receipts : x.principal = p}}
=============================================================================
