------------------------------- MODULE MCSync -------------------------------
(***************************************************************************)
(* Small instances of CoordinationSync.  Two projects, two label revisions *)
(* (L2 narrows L1 to project x), one or two clients; each configuration    *)
(* picks the records the users of a vault write and who works on it.       *)
(***************************************************************************)
EXTENDS CoordinationSync

MCPolicy ==
  [l \in {"L1", "L2"} |->
     LET readable == IF l = "L1" THEN {"x", "y"} ELSE {"x"}
     IN  [read |-> readable, deny |-> {"x", "y"} \ readable,
          syncTasks |-> readable, syncReceipts |-> readable,
          declares |-> {"x", "y"}]]

MCOriginProject == [o \in {"ox", "oy"} |-> IF o = "ox" THEN "x" ELSE "y"]

OriginOf(p) == IF p = "x" THEN "ox" ELSE "oy"

Packet(t, p, w, rev) ==
  [kind |-> "open", task |-> t, origin |-> OriginOf(p), project |-> p,
   label |-> "L1", writer |-> w, rev |-> rev]

Work(w, p, ref) ==
  [kind |-> "receipt", origin |-> OriginOf(p), project |-> p, label |-> "L1",
   writer |-> w, ref |-> ref]

Closure(R) == R \cup {Successor(o) : o \in {r \in R : r.kind = "open"}}

(* compete: two principals mint different genesis revisions of one task.   *)
CompeteDrafts ==
  [v \in Vault |-> IF v = "va" THEN {Packet("t1", "x", "pa", 1)}
                   ELSE {Packet("t1", "x", "pa", 2)}]
CompeteRecord == Closure({Packet("t1", "x", "pa", 1), Packet("t1", "x", "pa", 2)})

(* shared: one vault, where a user also wrote a claim transition itself.   *)
SharedDrafts ==
  [v \in Vault |-> {Packet("t1", "x", "pa", 1), Successor(Packet("t1", "x", "pa", 1))}]
SharedRecord == Closure({Packet("t1", "x", "pa", 1)})

(* receipts: the claimed task's writer reports work, once under the right  *)
(* project and once under another one it may also read.                    *)
Claimed == Successor(Packet("t1", "y", "pa", 1))
ReceiptsDrafts ==
  [v \in Vault |-> {Packet("t1", "y", "pa", 1), Work("pa", "x", Claimed),
                    Work("pa", "y", Claimed)}]
ReceiptsRecord ==
  Closure({Packet("t1", "y", "pa", 1)})
    \cup {Work("pa", "x", Claimed), Work("pa", "y", Claimed)}

(* policy: a principal's label is narrowed, removed and restored while it  *)
(* delivers and fetches a task of the project the narrowing takes away; an *)
(* AccessLabel body lies in the vault by mistake.                          *)
LabelBody == [kind |-> "label", name |-> "L1"]
PolicyDrafts == [v \in Vault |-> {Packet("t1", "y", "pa", 1), LabelBody}]
PolicyRecord == Closure({Packet("t1", "y", "pa", 1)}) \cup {LabelBody}

OneVaultEach == [c \in Client |-> IF c = "ca" THEN "va" ELSE "vb"]
OneVault == [c \in Client |-> "va"]
OnePrincipalEach == [c \in Client |-> IF c = "ca" THEN "pa" ELSE "pb"]
OnePrincipal == [c \in Client |-> "pa"]

AllBoundToL1 == [p \in Principal |-> "L1"]
AllBoundToL2 == [p \in Principal |-> "L2"]
Fixed == {AllBoundToL1}
Replacing == {[p \in Principal |-> l] : l \in {"L1", "L2", None}}
=============================================================================
