------------------------- MODULE CoordinationUnion -------------------------
(***************************************************************************)
(* What the coordination plane promises, without locks, requests, files,   *)
(* crashes or policies that change: one append-only union of records that  *)
(* is consistent at every moment, replicas that hold their own appends and *)
(* members of the union only, and for each replica a view that is the      *)
(* complete reading, under one label, of some consistent part of the union *)
(* and whose records the replica holds.  CoordinationSync and HttpPlane    *)
(* implement it.                                                           *)
(***************************************************************************)
EXTENDS CoordinationRecords

CONSTANTS
  Vault,
  Drafts,   \* Drafts[v]: the records users write into v
  Outside,  \* records that replicas beyond Vault hold
  None

VARIABLES
  union,    \* the records of the hub
  replica,  \* replica[v]: the records of a vault
  view      \* view[v]: what the vault last learnt it is authorized to read

vars == <<union, replica, view>>

Append(v, r) ==
  /\ r \in Drafts[v]
  /\ replica' = [replica EXCEPT ![v] = @ \cup {r}]
  /\ UNCHANGED <<union, view>>

\* A record enters the union from a replica, and only if it keeps it consistent.
Admit(r) ==
  /\ r \in Outside \/ \E v \in Vault : r \in replica[v]
  /\ Consistent(union \cup {r})
  /\ union' = union \cup {r}
  /\ UNCHANGED <<replica, view>>

Claim(o) ==
  /\ Leaves(Revisions(union, o.task)) = {o}
  /\ union' = union \cup {Successor(o)}
  /\ UNCHANGED <<replica, view>>

Receive(v, r) ==
  /\ r \in union
  /\ replica' = [replica EXCEPT ![v] = @ \cup {r}]
  /\ UNCHANGED <<union, view>>

\* What a replica shows it also holds.
Show(v, l) ==
  /\ \E H \in SUBSET union :
       LET shown == AuthorizedRecords(H, l)
       IN  /\ Consistent(H)
           /\ replica' = [replica EXCEPT ![v] = @ \cup shown]
           /\ view' = [view EXCEPT ![v] = [label |-> l, members |-> shown]]
  /\ UNCHANGED union

Init ==
  /\ union = {}
  /\ replica = [v \in Vault |-> {}]
  /\ view = [v \in Vault |-> None]

Next ==
  \/ \E v \in Vault, r \in Record : Append(v, r) \/ Receive(v, r)
  \/ \E r \in Record : Admit(r)
  \/ \E o \in Genesis(union) : Claim(o)
  \/ \E v \in Vault, l \in Label : Show(v, l)

Spec == Init /\ [][Next]_vars
=============================================================================
