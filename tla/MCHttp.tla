------------------------------- MODULE MCHttp -------------------------------
(***************************************************************************)
(* An instance of HttpPlane: one vault whose users wrote a task and, by    *)
(* mistake, the claim of it; another vault that delivers the task as well; *)
(* a user who never stops issuing commands and one who issues a few.       *)
(***************************************************************************)
EXTENDS HttpPlane

MCPolicy ==
  [l \in Label |-> [read |-> {"x"}, deny |-> {}, syncTasks |-> {"x"},
                    syncReceipts |-> {"x"}, declares |-> {"x"}]]

MCOriginProject == [o \in {"ox"} |-> "x"]

Packet(t, w) ==
  [kind |-> "open", task |-> t, origin |-> "ox", project |-> "x",
   label |-> "L", writer |-> w, rev |-> 1]

Ours == Packet("t1", "pa")

MCRecord == {Ours, Successor(Ours)}

MCOthers == {Ours}

MCDrafts == [v \in Vault |-> {Ours, Successor(Ours)}]

MCVaultOf == [c \in Client |-> "va"]

MCPrincipalOf == [c \in Client |-> "pa"]

MCLabelOf == [p \in Principal |-> "L"]
=============================================================================
