----------------------------- MODULE MCSessions -----------------------------
(***************************************************************************)
(* CoordinationSync in four situations, each an instance of its own; which *)
(* one is chosen once, as the variable case.                               *)
(*   compete   two principals on vaults of their own mint competing genesis*)
(*             revisions of one task                                       *)
(*   sessions  two processes of one principal on one vault, whose records  *)
(*             include a claim transition a user wrote itself              *)
(*   receipts  one process delivers a task and WorkReceipts about its claim*)
(*   policy    one process works while an administrator replaces bindings  *)
(* The constants of the configuration are the unions of what the instances *)
(* have, so that the properties speak of all of them.                      *)
(***************************************************************************)
EXTENDS MCSync

VARIABLE case

\* Only pa is bound: cb, which works for pb, is never served.
OnlyA(l) == [p \in Principal |-> IF p = "pa" THEN l ELSE None]

AllRecord == CompeteRecord \cup SharedRecord \cup ReceiptsRecord \cup PolicyRecord

AllDrafts ==
  [v \in Vault |-> CompeteDrafts[v] \cup SharedDrafts[v] \cup ReceiptsDrafts[v]
                     \cup PolicyDrafts[v]]

InVa(drafts) == [v \in Vault |-> IF v = "va" THEN drafts[v] ELSE {}]

AllBindings == {AllBoundToL1} \cup {OnlyA(l) : l \in {"L1", "L2", None}}

Compete ==
  INSTANCE CoordinationSync
    WITH Record <- CompeteRecord, Drafts <- CompeteDrafts, Phases <- {"both"},
         MaxGeneration <- 0, MaxTime <- 1, Bindings <- Fixed

Sessions ==
  INSTANCE CoordinationSync
    WITH Record <- SharedRecord, Drafts <- InVa(SharedDrafts),
         Phases <- {"both", "pull"}, MaxGeneration <- 0, Bindings <- Fixed,
         PrincipalOf <- OnePrincipal, VaultOf <- OneVault

Receipts ==
  INSTANCE CoordinationSync
    WITH Record <- ReceiptsRecord, Drafts <- InVa(ReceiptsDrafts),
         MaxGeneration <- 0, Bindings <- {OnlyA("L1")}, InitialBinding <- OnlyA("L1")

Policies ==
  INSTANCE CoordinationSync
    WITH Record <- PolicyRecord, Drafts <- InVa(PolicyDrafts), Phases <- {"both"},
         MaxTime <- 1, Bindings <- {OnlyA(l) : l \in {"L1", "L2", None}},
         InitialBinding <- OnlyA("L2")

allVars == <<vars, case>>

CaseInit ==
  \/ case = "compete" /\ Compete!Init
  \/ case = "sessions" /\ Sessions!Init
  \/ case = "receipts" /\ Receipts!Init
  \/ case = "policy" /\ Policies!Init

CaseNext ==
  /\ \/ case = "compete" /\ Compete!Next
     \/ case = "sessions" /\ Sessions!Next
     \/ case = "receipts" /\ Receipts!Next
     \/ case = "policy" /\ Policies!Next
  /\ UNCHANGED case

CaseSpec == CaseInit /\ [][CaseNext]_allVars
=============================================================================
