--------------------------- MODULE HttpPlane_proofs ---------------------------
(***************************************************************************)
(* Proofs about HttpPlane, for any number of clients, vaults, records and  *)
(* policies, and for any loss, delay and crash.                            *)
(*                                                                         *)
(* The argument.  From its journal to its marker a synchronisation is the  *)
(* only one of its vault, by the transport lock, so the journal names      *)
(* exactly the records not yet decided and those its outcomes report, and  *)
(* the marker it is compared with is one it replaces itself.  The hub only *)
(* grows, so an answer shows all an earlier one of the same label did.     *)
(*                                                                         *)
(* That a view is one CoordinationUnion allows needs more: the hub's       *)
(* histories stay whole, and whatever a journal, a command or a late       *)
(* request names lies in its vault (UnionInv).                             *)
(***************************************************************************)
EXTENDS HttpPlane, CoordinationRecords_proofs, FiniteSetTheorems, TLAPS

-----------------------------------------------------------------------------
(***************************************************************************)
(* Type correctness                                                        *)
(***************************************************************************)
LEMMA ConstantsTyped ==
  ASSUME NEW c \in Client
  PROVE  V(c) \in Vault /\ P(c) \in Principal /\ L(c) \in Label
  BY HttpAssumption DEF V, P, L

LEMMA IdleTyped == CommandTyped(Idle) /\ Idle.pc = "idle" /\ Idle.outcomes = {}
  BY HttpAssumption DEF CommandTyped, Idle, CommandType

LEMMA CodeTyped ==
  ASSUME NEW r, NEW p
  PROVE  /\ Decide(r, p).code \in Codes
         /\ Decide(r, p).hub = IF Decide(r, p).code = "admitted" THEN hub \cup {r} ELSE hub
  BY DEF Decide, SubmissionCode, PolicyCode, Codes

LEMMA GotoTyped ==
  ASSUME TypeOK, NEW c \in Client, NEW s, CommandTyped(s), Goto(c, s)
  PROVE  /\ client' \in [Client -> CommandType]
         /\ \A d \in Client : client'[d] = IF d = c THEN s ELSE client[d]
         /\ \A d \in Client : CommandTyped(client'[d])
  <1>1. \A d \in Client : client'[d] = IF d = c THEN s ELSE client[d]
    BY DEF TypeOK, VariablesTyped, Goto
  <1>2. client' \in [Client -> CommandType]
    BY DEF TypeOK, VariablesTyped, Goto, CommandTyped
  <1> QED
    BY <1>1, <1>2 DEF TypeOK

LEMMA FinishTyped ==
  ASSUME TypeOK, NEW c \in Client, Finish(c)
  PROVE  /\ client' \in [Client -> CommandType]
         /\ \A d \in Client : client'[d] = IF d = c THEN Idle ELSE client[d]
         /\ \A d \in Client : CommandTyped(client'[d])
         /\ transportLock' \in [Vault -> Client \cup {None}]
         /\ claimLock' \in [Vault -> Client \cup {None}]
         /\ \A v \in Vault : transportLock'[v] = transportLock[v] \/ transportLock[v] = c
  <1>1. /\ transportLock' \in [Vault -> Client \cup {None}]
        /\ claimLock' \in [Vault -> Client \cup {None}]
        /\ \A v \in Vault : transportLock'[v] = transportLock[v] \/ transportLock[v] = c
    BY DEF TypeOK, VariablesTyped, Finish
  <1> QED
    BY <1>1, IdleTyped, GotoTyped DEF Finish

LEMMA CountTyped ==
  ASSUME TypeOK, Calm \/ Disturb
  PROVE  disturbances' \in 0 .. MaxDisturbances
  BY HttpAssumption DEF TypeOK, VariablesTyped, Calm, Disturb

LEMMA EndTyped ==
  ASSUME TypeOK, NEW c \in Client, End(c), Calm \/ Disturb
  PROVE  TypeOK'
  BY FinishTyped, CountTyped DEF End, TypeOK, VariablesTyped, vaultVars

\* A step that changes the command, and the hub within its type.
LEMMA StepTyped ==
  ASSUME TypeOK, NEW c \in Client, NEW s, CommandTyped(s), Goto(c, s), hub' \subseteq Record,
         UNCHANGED <<late, vaultVars, told>>,
         transportLock' \in [Vault -> Client \cup {None}],
         claimLock' \in [Vault -> Client \cup {None}], Calm \/ Disturb
  PROVE  TypeOK'
  BY GotoTyped, CountTyped DEF TypeOK, VariablesTyped, vaultVars

LEMMA SyncTyped ==
  ASSUME TypeOK, NEW c \in Client, SyncStep(c)
  PROVE  TypeOK'
  <1> DEFINE q == client[c]
  <1>0. /\ CommandTyped(q) /\ q \in CommandType /\ hub \subseteq Record
        /\ V(c) \in Vault /\ P(c) \in Principal
        /\ transportLock \in [Vault -> Client \cup {None}]
        /\ claimLock \in [Vault -> Client \cup {None}]
    BY ConstantsTyped DEF TypeOK, VariablesTyped, CommandTyped
  <1>1. CASE RefuseJournal(c)
    BY <1>1, EndTyped DEF RefuseJournal
  <1>2. ASSUME NEW B \in SUBSET Record, q.pc = "journal"
        PROVE  CommandTyped(Submit(c, B))
    BY <1>0, <1>2 DEF CommandTyped, Submit, CommandType
  <1>3. CASE ResendJournal(c)
    <2>1. journal[V(c)].refs \in SUBSET Record /\ q.pc = "journal"
      BY <1>0, <1>3 DEF ResendJournal, TypeOK, VariablesTyped, JournalType, At
    <2> QED
      BY <1>0, <1>2, <1>3, <2>1, StepTyped DEF ResendJournal, lockVars
  <1>4. ASSUME NEW B \in Batches(c), WriteJournal(c, B)
        PROVE  TypeOK'
    <2>1. B \in SUBSET Record /\ q.pc = "journal"
      BY <1>0, <1>4 DEF WriteJournal, Batches, TypeOK, VariablesTyped, At
    <2>2. CommandTyped(Submit(c, B)) /\ Goto(c, Submit(c, B))
      BY <1>2, <1>4, <2>1 DEF WriteJournal
    <2>3. journal' \in [Vault -> JournalType \cup {None}]
      BY <1>0, <1>4, <2>1 DEF WriteJournal, JournalOf, JournalType, TypeOK, VariablesTyped
    <2> QED
      BY <1>4, <2>2, <2>3, GotoTyped, CountTyped DEF WriteJournal, TypeOK, VariablesTyped, lockVars
  <1>5. CASE SubmitNothing(c)
    BY <1>0, <1>2, <1>5, StepTyped DEF SubmitNothing, lockVars, At
  <1>6. ASSUME NEW r \in Record, HubDecide(c, r)
        PROVE  TypeOK'
    <2> DEFINE code == Decide(r, P(c)).code
               s == [q EXCEPT !.undecided = @ \ {r}, !.outcomes = @ \cup {Outcome(r, code)}]
    <2>0. /\ code \in Codes
          /\ Decide(r, P(c)).hub = hub \cup {r} \/ Decide(r, P(c)).hub = hub
      BY CodeTyped
    <2>1. code \in Codes /\ hub' \subseteq Record /\ q.pc = "submit"
      BY <1>0, <1>6, <2>0 DEF HubDecide, At
    <2>b. /\ q.undecided \ {r} \in SUBSET Record
          /\ q.outcomes \cup {Outcome(r, code)} \in SUBSET [record : Record, code : Codes]
      BY <1>0, <2>1 DEF CommandType, Outcome
    <2>2. CommandTyped(s)
      BY <1>0, <2>1, <2>b DEF CommandTyped, CommandType
    <2>3. Goto(c, s) /\ UNCHANGED <<late, vaultVars, lockVars, told>> /\ Calm
      BY <1>6 DEF HubDecide
    <2> HIDE DEF s, code
    <2> QED
      BY <1>0, <2>1, <2>2, <2>3, StepTyped DEF lockVars
  <1>7. CASE HubAnswer(c)
    <2> DEFINE shown == AuthorizedRecords(hub, L(c))
               rc == [principal |-> P(c), members |-> shown,
                      excluded |-> Cardinality(hub \ shown), outcomes |-> q.outcomes]
               s == [q EXCEPT !.pc = "pages", !.page = 1, !.outcomes = {}, !.receipt = rc]
    <2>1. IsFiniteSet(hub \ shown)
      BY <1>0, RecordAssumption, FS_Subset
    <2>2. Cardinality(hub \ shown) \in Nat
      BY <2>1, FS_CardinalityType
    <2>3. rc \in ReceiptType
      BY <1>0, <2>2 DEF AuthorizedRecords, ReceiptType, CommandType
    <2> HIDE DEF rc
    <2>p. q.pc = "submit"
      BY <1>7 DEF HubAnswer, At
    <2>4. CommandTyped(s)
      BY <1>0, <2>3, <2>p DEF CommandTyped, CommandType
    <2>5. Goto(c, s) /\ hub' = hub /\ UNCHANGED <<late, vaultVars, lockVars, told>> /\ Calm
      BY <1>7 DEF HubAnswer, rc
    <2> HIDE DEF s
    <2> QED
      BY <1>0, <2>4, <2>5, StepTyped DEF lockVars
  <1>8. CASE NextPage(c)
    <2> DEFINE s == [q EXCEPT !.page = @ + 1]
    <2>p. q.pc = "pages"
      BY <1>8 DEF NextPage, At
    <2>1. CommandTyped(s)
      BY <1>0, <2>p DEF CommandTyped, CommandType
    <2>2. Goto(c, s) /\ hub' = hub /\ UNCHANGED <<late, vaultVars, lockVars, told>> /\ Calm
      BY <1>8 DEF NextPage
    <2> HIDE DEF s
    <2> QED
      BY <1>0, <2>1, <2>2, StepTyped DEF lockVars
  <1>9. CASE FinishPush(c)
    BY <1>9, EndTyped DEF FinishPush
  <1>10. CASE RefuseApply(c)
    BY <1>10, EndTyped DEF RefuseApply
  <1>11. CASE ApplyNothing(c)
    <2> DEFINE s == [q EXCEPT !.pc = "unlink"]
    <2>p. q.pc = "pages"
      BY <1>11 DEF ApplyNothing, Applying, Complete, At
    <2>1. CommandTyped(s)
      BY <1>0, <2>p DEF CommandTyped, CommandType
    <2>2. Goto(c, s) /\ hub' = hub /\ UNCHANGED <<late, vaultVars, lockVars, told>> /\ Calm
      BY <1>11 DEF ApplyNothing
    <2> HIDE DEF s
    <2> QED
      BY <1>0, <2>1, <2>2, StepTyped DEF lockVars
  <1>12. ASSUME NEW pc \in {"expose", "unlink"}, q.pc \in {"pages", "expose"},
                Goto(c, [q EXCEPT !.pc = pc]), hub' = hub, UNCHANGED <<late, lockVars, told>>,
                local' \in [Vault -> SUBSET Record],
                evidence' \in [Vault -> [Principal -> [known : SUBSET Record,
                                                       attempted : SUBSET Record]]],
                marker' \in [Vault -> ReceiptType \cup {None}], journal' = journal, Calm
         PROVE  TypeOK'
    <2> DEFINE s == [q EXCEPT !.pc = pc]
    <2>1. CommandTyped(s) /\ Goto(c, s)
      BY <1>0, <1>12 DEF CommandTyped, CommandType
    <2> HIDE DEF s
    <2> QED
      BY <1>0, <1>12, <2>1, GotoTyped, CountTyped DEF TypeOK, VariablesTyped, lockVars
  <1>13. CASE PublishReceipt(c)
    <2>1. q.receipt \in ReceiptType /\ q.pc = "pages"
      BY <1>0, <1>13 DEF PublishReceipt, Applying, Complete, At, CommandTyped
    <2>2. /\ AttemptedIn(q.receipt.outcomes) \subseteq Record
          /\ AdmittedIn(q.receipt.outcomes) \subseteq Record
      BY <2>1 DEF ReceiptType, AttemptedIn, AdmittedIn
    <2>3. \A e \in [known : SUBSET Record, attempted : SUBSET Record] :
            Replayed(e, q.receipt) \in [known : SUBSET Record, attempted : SUBSET Record]
      BY <2>1, <2>2 DEF Replayed, ReceiptType
    <2>4. evidence' = [evidence EXCEPT ![V(c)][P(c)] =
                         Replayed(evidence[V(c)][P(c)], q.receipt)]
      BY <1>13 DEF PublishReceipt
    <2>5. evidence' \in [Vault -> [Principal -> [known : SUBSET Record,
                                                 attempted : SUBSET Record]]]
      BY <1>0, <2>3, <2>4 DEF TypeOK, VariablesTyped
    <2> QED
      BY <1>12, <1>13, <2>1, <2>5 DEF PublishReceipt, TypeOK, VariablesTyped
  <1>14. CASE AdvanceMarker(c)
    <2>1. q.receipt \in ReceiptType /\ q.pc = "expose"
      BY <1>0, <1>14 DEF AdvanceMarker, At, CommandTyped
    <2>2. /\ local' \in [Vault -> SUBSET Record]
          /\ marker' \in [Vault -> ReceiptType \cup {None}]
      BY <1>14, <2>1 DEF AdvanceMarker, ReceiptType, TypeOK, VariablesTyped
    <2> QED
      BY <1>12, <1>14, <2>1, <2>2 DEF AdvanceMarker, TypeOK, VariablesTyped
  <1>15. CASE UnlinkJournal(c)
    <2>1. journal' \in [Vault -> JournalType \cup {None}]
      BY <1>0, <1>15 DEF UnlinkJournal, TypeOK, VariablesTyped
    <2>2. CASE q.goal = "claim"
      <3>1. CommandTyped(AfterPull(c))
        BY <1>0, <2>2 DEF AfterPull, CommandTyped, CommandType
      <3>2. Goto(c, AfterPull(c)) /\ UNCHANGED claimLock
            /\ transportLock' \in [Vault -> Client \cup {None}]
        BY <1>0, <1>15, <2>2 DEF UnlinkJournal
      <3> QED
        BY <1>15, <2>1, <3>1, <3>2, GotoTyped, CountTyped DEF UnlinkJournal, TypeOK, VariablesTyped
    <2>3. CASE q.goal # "claim"
      BY <1>15, <2>1, <2>3, FinishTyped, CountTyped DEF UnlinkJournal, TypeOK, VariablesTyped
    <2> QED
      BY <2>2, <2>3
  <1> QED
    BY <1>1, <1>3, <1>4, <1>5, <1>6, <1>7, <1>8, <1>9, <1>10, <1>11, <1>13, <1>14,
      <1>15 DEF SyncStep

LEMMA ClaimTyped ==
  ASSUME TypeOK, NEW c \in Client, ClaimStep(c)
  PROVE  TypeOK'
  <1> DEFINE q == client[c]
  <1>0. /\ CommandTyped(q) /\ q \in CommandType /\ hub \subseteq Record
        /\ V(c) \in Vault /\ P(c) \in Principal
        /\ transportLock \in [Vault -> Client \cup {None}]
        /\ claimLock \in [Vault -> Client \cup {None}]
    BY ConstantsTyped DEF TypeOK, VariablesTyped, CommandTyped
  <1>1. CASE StartPull(c)
    <2> DEFINE s == [q EXCEPT !.pc = "journal", !.outcomes = {}]
    <2>p. q.pc = "pull"
      BY <1>1 DEF StartPull, At
    <2>1. CommandTyped(s)
      BY <1>0, <2>p DEF CommandTyped, CommandType
    <2>2. /\ Goto(c, s) /\ UNCHANGED <<hub, late, vaultVars, claimLock, told>> /\ Calm
          /\ transportLock' \in [Vault -> Client \cup {None}]
      BY <1>0, <1>1 DEF StartPull
    <2> HIDE DEF s
    <2> QED
      BY <1>0, <2>1, <2>2, StepTyped
  <1>2. CASE PullBusy(c)
    BY <1>2, EndTyped DEF PullBusy
  <1>3. CASE CheckTask(c)
    <2> DEFINE b == Successor(q.target) \in marker[V(c)].members
               s == [q EXCEPT !.pc = "claim", !.preclaimed = b]
    <2>1. b \in BOOLEAN /\ q.goal = "claim"
      BY <1>0, <1>3 DEF CheckTask, At, CommandTyped
    <2> HIDE DEF b
    <2>2. CommandTyped(s)
      BY <1>0, <2>1 DEF CommandTyped, CommandType
    <2>3. Goto(c, s) /\ UNCHANGED <<hub, late, vaultVars, lockVars, told>> /\ Calm
      BY <1>3 DEF CheckTask, b
    <2> HIDE DEF s
    <2> QED
      BY <1>0, <2>2, <2>3, StepTyped DEF lockVars
  <1>4. CASE RefuseTask(c)
    BY <1>4, EndTyped DEF RefuseTask
  <1>5. CASE HubClaim(c)
    <2> DEFINE r == Successor(q.target)
               s == [q EXCEPT !.pc = "pull", !.answer = r]
    <2>1. q.goal = "claim" /\ r \in Record
      BY <1>0, <1>5, RecordAssumption DEF HubClaim, At, CommandTyped, Open
    <2>2. Goto(c, s) /\ hub' = hub \cup {r} /\ UNCHANGED <<late, vaultVars, lockVars, told>>
          /\ Calm
      BY <1>5 DEF HubClaim
    <2> HIDE DEF r
    <2>3. CommandTyped(s)
      BY <1>0, <2>1 DEF CommandTyped, CommandType
    <2> HIDE DEF s
    <2> QED
      BY <1>0, <2>1, <2>2, <2>3, StepTyped DEF lockVars
  <1>6. CASE VerifyClaim(c)
    <2>1. q.target \in Record
      BY <1>0, <1>6 DEF VerifyClaim, At, CommandTyped, Open
    <2>2. told' \in [Client -> SUBSET Record]
      BY <1>6, <2>1 DEF VerifyClaim, TypeOK, VariablesTyped
    <2> QED
      BY <1>6, <2>2, FinishTyped, CountTyped DEF VerifyClaim, TypeOK, VariablesTyped, vaultVars
  <1> QED
    BY <1>1, <1>2, <1>3, <1>4, <1>5, <1>6 DEF ClaimStep

LEMMA BeginTyped ==
  ASSUME TypeOK, NEW c \in Client,
         \/ \E phase \in Phases : BeginSync(c, phase)
         \/ \E o \in Open : BeginClaim(c, o)
  PROVE  TypeOK'
  <1>0. V(c) \in Vault /\ (Issued(c) => Calm \/ Disturb)
    BY ConstantsTyped DEF Issued
  <1>1. ASSUME NEW phase \in Phases, BeginSync(c, phase)
        PROVE  TypeOK'
    <2> DEFINE s == [Idle EXCEPT !.pc = "journal", !.goal = phase]
    <2>1. CommandTyped(s)
      BY IdleTyped DEF CommandTyped, CommandType, Phases
    <2>2. /\ Goto(c, s) /\ UNCHANGED <<hub, late, vaultVars, claimLock, told>>
          /\ transportLock' \in [Vault -> Client \cup {None}]
          /\ Issued(c)
      BY <1>0, <1>1 DEF BeginSync, TypeOK, VariablesTyped
    <2> HIDE DEF s
    <2> QED
      BY <1>0, <2>1, <2>2, StepTyped DEF TypeOK, VariablesTyped
  <1>2. ASSUME NEW o \in Open, BeginClaim(c, o)
        PROVE  TypeOK'
    <2> DEFINE s == [Idle EXCEPT !.pc = "pull", !.goal = "claim", !.target = o]
    <2>1. CommandTyped(s)
      BY IdleTyped DEF CommandTyped, CommandType, Open
    <2>2. /\ Goto(c, s) /\ UNCHANGED <<hub, late, vaultVars, transportLock, told>>
          /\ claimLock' \in [Vault -> Client \cup {None}]
          /\ Issued(c)
      BY <1>0, <1>2 DEF BeginClaim, TypeOK, VariablesTyped
    <2> HIDE DEF s
    <2> QED
      BY <1>0, <2>1, <2>2, StepTyped DEF TypeOK, VariablesTyped
  <1> QED
    BY <1>1, <1>2

LEMMA RemainingTyped ==
  ASSUME TypeOK, NEW c \in Client
  PROVE  /\ Remaining(c) \subseteq LateType
         /\ \A x \in Remaining(c) : x.claim => x.record \in Open
  <1> DEFINE q == client[c]
  <1>0. CommandTyped(q) /\ q \in CommandType /\ V(c) \in Vault /\ P(c) \in Principal
    BY ConstantsTyped DEF TypeOK, VariablesTyped
  <1>1. CASE At(c, "submit")
    <2>1. Remaining(c) = {[vault |-> V(c), principal |-> P(c), record |-> r, claim |-> FALSE] :
                            r \in q.undecided}
      BY <1>1 DEF Remaining
    <2>2. q.undecided \subseteq Record
      BY <1>0 DEF CommandType
    <2>3. ASSUME NEW x \in Remaining(c)
          PROVE  x \in LateType /\ x.claim = FALSE
      <3>1. PICK r \in q.undecided :
              x = [vault |-> V(c), principal |-> P(c), record |-> r, claim |-> FALSE]
        BY <2>1, <2>3
      <3>2. r \in Record
        BY <2>2
      <3> QED
        BY <1>0, <3>1, <3>2 DEF LateType
    <2> QED
      BY <2>3
  <1>2. CASE At(c, "claim")
    <2>1. q.target \in Open /\ q.target \in Record
      BY <1>0, <1>2 DEF CommandTyped, At, Open
    <2> QED
      BY <1>0, <1>2, <2>1 DEF Remaining, LateType, At
  <1>3. CASE ~At(c, "submit") /\ ~At(c, "claim")
    BY <1>3 DEF Remaining
  <1> QED
    BY <1>1, <1>2, <1>3

LEMMA LateGrows ==
  ASSUME TypeOK, NEW x \in late, LateEffect(x)
  PROVE  /\ hub \subseteq hub' /\ hub' \subseteq Record
         /\ late' \subseteq late
         /\ UNCHANGED <<vaultVars, lockVars, client, told>> /\ Calm
  <1>0. /\ x.record \in Record /\ (x.claim => x.record \in Open) /\ hub \subseteq Record
    BY DEF TypeOK, VariablesTyped, LateType
  <1>1. Decide(x.record, x.principal).hub \in {hub, hub \cup {x.record}}
    BY CodeTyped
  <1>2. x.claim => Successor(x.record) \in Record
    BY <1>0, RecordAssumption DEF Open
  <1>3. \/ hub' \in {hub, hub \cup {x.record}}
        \/ x.claim /\ hub' = hub \cup {Successor(x.record)}
    BY <1>1 DEF LateEffect
  <1> QED
    BY <1>0, <1>2, <1>3 DEF LateEffect

LEMMA NextTyped ==
  ASSUME TypeOK, [Next]_vars
  PROVE  TypeOK'
  <1>1. ASSUME NEW v \in Vault, NEW r \in Record, AppendLocal(v, r)
        PROVE  TypeOK'
    <2>1. local' \in [Vault -> SUBSET Record]
      BY <1>1 DEF AppendLocal, TypeOK, VariablesTyped
    <2> QED
      BY <1>1, <2>1, CountTyped DEF AppendLocal, TypeOK, VariablesTyped, lockVars
  <1>2. ASSUME NEW c \in Client, Abandon(c)
        PROVE  TypeOK'
    BY <1>2, FinishTyped, RemainingTyped, CountTyped DEF Abandon, TypeOK, VariablesTyped, vaultVars
  <1>3. ASSUME NEW x \in late, LateEffect(x)
        PROVE  TypeOK'
    BY <1>3, LateGrows, CountTyped DEF TypeOK, VariablesTyped, vaultVars, lockVars
  <1>4. ASSUME NEW r \in Others, OtherAppend(r)
        PROVE  TypeOK'
    BY <1>4, HttpAssumption, CountTyped DEF OtherAppend, TypeOK, VariablesTyped, vaultVars, lockVars
  <1>5. ASSUME UNCHANGED vars
        PROVE  TypeOK'
    BY <1>5 DEF vars, TypeOK, VariablesTyped, vaultVars, lockVars
  <1> QED
    BY <1>1, <1>2, <1>3, <1>4, <1>5, BeginTyped, SyncTyped, ClaimTyped DEF Next

LEMMA InitTyped == Init => TypeOK
  <1> SUFFICES ASSUME Init PROVE TypeOK
    OBVIOUS
  <1>1. client \in [Client -> CommandType]
    BY IdleTyped DEF Init, CommandTyped
  <1> QED
    BY <1>1, IdleTyped, HttpAssumption DEF Init, TypeOK, VariablesTyped

(***************************************************************************)
(* Every variable keeps its type, and every command holds at each step     *)
(* what the step reads.                                                    *)
(***************************************************************************)
THEOREM TypeCorrect == Spec => []TypeOK
  BY InitTyped, NextTyped, PTL DEF Spec

-----------------------------------------------------------------------------
(***************************************************************************)
(* The inductive invariant.  Backed relates a command on a vault, under    *)
(* principal p, to the hub H, the vault's journal j and marker m, and what *)
(* its receipts report as attempted, a.                                    *)
(***************************************************************************)
InSync(q) == q.pc \in {"journal", "submit", "pages", "expose", "unlink"}

Backed(q, p, H, j, m, a) ==
  /\ q.answer \in {None, Successor(q.target)}
  /\ q.pc = "verify" => q.answer # None
  /\ q.pc = "journal" => q.outcomes = {}
  /\ q.pc = "submit" =>
       IF j = None THEN q.undecided = {} /\ q.outcomes = {}
       ELSE j.principal = p /\ j.refs = q.undecided \cup AttemptedIn(q.outcomes)
  /\ q.pc \in {"pages", "expose"} =>
       /\ q.receipt.principal = p
       /\ q.receipt.members \subseteq AuthorizedRecords(H, LabelOf[p])
       /\ j # None => j.principal = p /\ j.refs = AttemptedIn(q.receipt.outcomes)
  /\ q.pc = "pages" /\ m # None =>
       (m.principal = p => m.members \subseteq q.receipt.members)
  /\ q.pc = "expose" /\ m # None =>
       m.principal = p /\ m.members \subseteq q.receipt.members
  /\ q.pc \in {"expose", "unlink"} /\ j # None =>
       j.principal = p /\ j.refs \subseteq a
  /\ q.pc = "unlink" /\ j # None =>
       /\ m # None
       /\ m.principal = j.principal
       /\ AttemptedIn(m.outcomes) = j.refs

\* One synchronisation at a time per vault, and it is backed.
CommandOK(c) ==
  /\ InSync(client[c]) => transportLock[V(c)] = c
  /\ Backed(client[c], P(c), hub, journal[V(c)], marker[V(c)],
            evidence[V(c)][P(c)].attempted)

\* A journal names records, and a marker's view is still the hub's.
VaultOK(v) ==
  /\ journal[v] # None => journal[v].refs # {}
  /\ marker[v] # None =>
       marker[v].members \subseteq AuthorizedRecords(hub, LabelOf[marker[v].principal])

Accounted(v, p) ==
  (IF journal[v] # None /\ journal[v].principal = p THEN journal[v].refs ELSE {})
    \cup evidence[v][p].attempted

LateOK == \A x \in late : ~x.claim => x.record \in Accounted(x.vault, x.principal)

PlaneInv ==
  /\ TypeOK
  /\ \A c \in Client : CommandOK(c)
  /\ \A v \in Vault : VaultOK(v)
  /\ LateOK

-----------------------------------------------------------------------------
(***************************************************************************)
(* What only grows                                                         *)
(***************************************************************************)
LEMMA AuthorizedGrows ==
  ASSUME NEW H, NEW G, H \subseteq G, NEW l
  PROVE  AuthorizedRecords(H, l) \subseteq AuthorizedRecords(G, l)
  BY DEF AuthorizedRecords

LEMMA NothingAttempted == AttemptedIn({}) = {}
  BY DEF AttemptedIn

LEMMA AttemptedAdds ==
  ASSUME NEW O, NEW r, NEW code
  PROVE  AttemptedIn(O \cup {Outcome(r, code)}) = AttemptedIn(O) \cup {r}
  <1>1. ASSUME NEW x \in AttemptedIn(O \cup {Outcome(r, code)})
        PROVE  x \in AttemptedIn(O) \cup {r}
    BY <1>1 DEF AttemptedIn, Outcome
  <1>2. ASSUME NEW x \in AttemptedIn(O) \cup {r}
        PROVE  x \in AttemptedIn(O \cup {Outcome(r, code)})
    <2>1. CASE x = r
      <3>1. Outcome(r, code).record = r
        BY DEF Outcome
      <3> QED
        BY <2>1, <3>1 DEF AttemptedIn
    <2>2. CASE x \in AttemptedIn(O)
      BY <2>2 DEF AttemptedIn
    <2> QED
      BY <1>2, <2>1, <2>2
  <1> QED
    BY <1>1, <1>2

LEMMA BackedGrows ==
  ASSUME NEW q, NEW p, NEW H, NEW G, NEW j, NEW m, NEW a, NEW b,
         Backed(q, p, H, j, m, a), H \subseteq G, a \subseteq b
  PROVE  Backed(q, p, G, j, m, b)
  BY AuthorizedGrows DEF Backed

\* A command outside sync_http depends on no file.
LEMMA BackedOutside ==
  ASSUME NEW q, NEW p, NEW H, NEW G, NEW j, NEW k, NEW m, NEW n, NEW a, NEW b,
         Backed(q, p, H, j, m, a), ~InSync(q)
  PROVE  Backed(q, p, G, k, n, b)
  BY DEF Backed, InSync

LEMMA IdleBacked ==
  ASSUME NEW p, NEW H, NEW j, NEW m, NEW a
  PROVE  Backed(Idle, p, H, j, m, a) /\ ~InSync(Idle)
  BY DEF Backed, Idle, InSync

\* The files of a vault belong to the synchronisation that holds its lock.
LEMMA CommandsKeep ==
  ASSUME PlaneInv, TypeOK', NEW c \in Client, NEW s,
         \A d \in Client : client'[d] = IF d = c THEN s ELSE client[d],
         hub \subseteq hub',
         \A v \in Vault :
           /\ v # V(c) \/ transportLock[v] # c =>
                journal'[v] = journal[v] /\ marker'[v] = marker[v]
           /\ transportLock[v] \notin {c, None} => transportLock'[v] = transportLock[v]
           /\ \A p \in Principal :
                evidence[v][p].attempted \subseteq evidence'[v][p].attempted,
         InSync(s) => transportLock'[V(c)] = c,
         Backed(s, P(c), hub', journal'[V(c)], marker'[V(c)],
                evidence'[V(c)][P(c)].attempted)
  PROVE  \A d \in Client : CommandOK(d)'
  <1> SUFFICES ASSUME NEW d \in Client
               PROVE  CommandOK(d)'
    OBVIOUS
  <1>1. V(d) \in Vault /\ P(d) \in Principal /\ V(c) \in Vault
    BY ConstantsTyped
  <1>2. CommandOK(d) /\ d # None
    BY HttpAssumption DEF PlaneInv
  <1>3. V(d)' = V(d) /\ P(d)' = P(d)
    BY DEF V, P
  <1>4. CASE d = c
    BY <1>3, <1>4 DEF CommandOK
  <1>5. CASE d # c /\ ~InSync(client[d])
    BY <1>2, <1>3, <1>5, BackedOutside DEF CommandOK
  <1>6. CASE d # c /\ InSync(client[d])
    <2>1. transportLock[V(d)] = d /\ transportLock'[V(d)] = d
      BY <1>1, <1>2, <1>6 DEF CommandOK
    <2>2. journal'[V(d)] = journal[V(d)] /\ marker'[V(d)] = marker[V(d)]
      BY <1>1, <1>6, <2>1
    <2>3. evidence[V(d)][P(d)].attempted \subseteq evidence'[V(d)][P(d)].attempted
      BY <1>1
    <2>4. Backed(client[d], P(d), hub', journal[V(d)], marker[V(d)],
                 evidence'[V(d)][P(d)].attempted)
      BY <1>2, <2>3, BackedGrows DEF CommandOK
    <2> QED
      BY <1>3, <1>6, <2>1, <2>2, <2>4 DEF CommandOK
  <1> QED
    BY <1>4, <1>5, <1>6

\* Steps that change no file of a vault; the command may change.
LEMMA FilesKeep ==
  ASSUME PlaneInv, hub \subseteq hub', UNCHANGED vaultVars
  PROVE  /\ \A v \in Vault : VaultOK(v)'
         /\ \A v, p : Accounted(v, p)' = Accounted(v, p)
  BY AuthorizedGrows DEF PlaneInv, VaultOK, Accounted, vaultVars

LEMMA RestKeeps ==
  ASSUME PlaneInv, late' \subseteq late,
         \A v \in Vault, p \in Principal : Accounted(v, p) \subseteq Accounted(v, p)'
  PROVE  LateOK'
  <1>1. \A x \in late : x.vault \in Vault /\ x.principal \in Principal
    BY DEF PlaneInv, TypeOK, VariablesTyped, LateType
  <1> QED
    BY <1>1 DEF PlaneInv, LateOK

LEMMA QuietStep ==
  ASSUME PlaneInv, TypeOK', NEW c \in Client, NEW s, CommandTyped(s), Goto(c, s),
         hub \subseteq hub',
         UNCHANGED <<late, vaultVars>>,
         \A v \in Vault :
           transportLock[v] \notin {c, None} => transportLock'[v] = transportLock[v],
         InSync(s) => transportLock'[V(c)] = c,
         Backed(s, P(c), hub', journal[V(c)], marker[V(c)],
                evidence[V(c)][P(c)].attempted)
  PROVE  PlaneInv'
  <1>1. \A d \in Client : client'[d] = IF d = c THEN s ELSE client[d]
    BY GotoTyped DEF PlaneInv
  <1>2. \A d \in Client : CommandOK(d)'
    BY <1>1, CommandsKeep DEF vaultVars
  <1> QED
    BY <1>2, FilesKeep, RestKeeps DEF PlaneInv

LEMMA EndKeeps ==
  ASSUME PlaneInv, NEW c \in Client, End(c), Calm \/ Disturb
  PROVE  PlaneInv'
  <1>1. TypeOK'
    BY EndTyped DEF PlaneInv
  <1>2. \A v \in Vault :
          transportLock[v] \notin {c, None} => transportLock'[v] = transportLock[v]
    BY DEF End, Finish
  <1> QED
    BY <1>1, <1>2, IdleTyped, IdleBacked, QuietStep DEF End, Finish

-----------------------------------------------------------------------------
(***************************************************************************)
(* The steps of sync_http                                                  *)
(***************************************************************************)
LEMMA JournalKeeps ==
  ASSUME PlaneInv, NEW c \in Client,
         \/ RefuseJournal(c)
         \/ ResendJournal(c)
         \/ \E B \in Batches(c) : WriteJournal(c, B)
         \/ SubmitNothing(c)
  PROVE  PlaneInv'
  <1> DEFINE q == client[c]
  <1>0. /\ V(c) \in Vault /\ P(c) \in Principal /\ CommandOK(c)
        /\ q \in CommandType /\ TypeOK'
    <2>1. SyncStep(c) => TypeOK'
      BY SyncTyped DEF PlaneInv
    <2> QED
      BY <2>1, ConstantsTyped DEF SyncStep, PlaneInv, TypeOK, VariablesTyped
  <1>1. CASE RefuseJournal(c)
    BY <1>1, EndKeeps DEF RefuseJournal
  <1>2. ASSUME q.pc = "journal", NEW B, NEW j,
               j = None => B = {},
               j # None => j.principal = P(c) /\ j.refs = B
        PROVE  /\ InSync(Submit(c, B)) /\ transportLock[V(c)] = c
               /\ Backed(Submit(c, B), P(c), hub, j, marker[V(c)],
                         evidence[V(c)][P(c)].attempted)
    BY <1>0, <1>2, NothingAttempted DEF CommandOK, Backed, Submit, InSync, CommandType
  <1>3. ASSUME NEW B, Goto(c, Submit(c, B)), CommandTyped(Submit(c, B)), q.pc = "journal",
               journal[V(c)] = None => B = {},
               journal[V(c)] # None => journal[V(c)].principal = P(c) /\ journal[V(c)].refs = B,
               UNCHANGED <<hub, late, vaultVars, lockVars, told>>
        PROVE  PlaneInv'
    <2> DEFINE s == Submit(c, B)
    <2>1. /\ InSync(s) /\ transportLock[V(c)] = c
          /\ Backed(s, P(c), hub, journal[V(c)], marker[V(c)],
                    evidence[V(c)][P(c)].attempted)
      BY <1>2, <1>3
    <2>2. Goto(c, s) /\ CommandTyped(s)
      BY <1>3
    <2> HIDE DEF s
    <2> QED
      BY <1>0, <1>3, <2>1, <2>2, QuietStep DEF lockVars
  <1>4. ASSUME NEW B \in SUBSET Record, q.pc = "journal"
        PROVE  CommandTyped(Submit(c, B))
    BY <1>4 DEF CommandTyped, Submit, CommandType, PlaneInv, TypeOK
  <1>5. CASE ResendJournal(c)
    <2>1. /\ q.pc = "journal" /\ journal[V(c)] # None /\ journal[V(c)].principal = P(c)
          /\ Goto(c, Submit(c, journal[V(c)].refs))
          /\ UNCHANGED <<hub, late, vaultVars, lockVars, told>>
      BY <1>5 DEF ResendJournal, Resendable, At
    <2>2. journal[V(c)].refs \in SUBSET Record
      BY <1>0, <2>1 DEF PlaneInv, TypeOK, VariablesTyped, JournalType
    <2> QED
      BY <1>3, <1>4, <2>1, <2>2
  <1>6. CASE SubmitNothing(c)
    <2>1. /\ q.pc = "journal" /\ journal[V(c)] = None
          /\ Goto(c, Submit(c, {}))
          /\ UNCHANGED <<hub, late, vaultVars, lockVars, told>>
      BY <1>6 DEF SubmitNothing, At
    <2> QED
      BY <1>3, <1>4, <2>1
  <1>7. ASSUME NEW B \in Batches(c), WriteJournal(c, B)
        PROVE  PlaneInv'
    <2> DEFINE s == Submit(c, B)
    <2>1. /\ q.pc = "journal" /\ journal[V(c)] = None /\ Goto(c, s)
          /\ journal' = [journal EXCEPT ![V(c)] = JournalOf(c, B)]
          /\ UNCHANGED <<hub, late, local, evidence, marker, lockVars, told>>
      BY <1>7 DEF WriteJournal, At
    <2>2. B \in SUBSET Record /\ B # {}
      BY <1>0 DEF Batches, PlaneInv, TypeOK, VariablesTyped
    <2>3. JournalOf(c, B) # None
      BY <1>0, <2>2, NoFileAssumption DEF JournalOf, JournalType
    <2>4. CommandTyped(s)
      BY <1>4, <2>1, <2>2
    <2>5. /\ journal'[V(c)] = JournalOf(c, B)
          /\ \A v \in Vault : v # V(c) => journal'[v] = journal[v]
      BY <1>0, <2>1 DEF PlaneInv, TypeOK, VariablesTyped
    <2>6. /\ InSync(s) /\ transportLock[V(c)] = c
          /\ Backed(s, P(c), hub, JournalOf(c, B), marker[V(c)],
                    evidence[V(c)][P(c)].attempted)
      BY <1>2, <2>1, <2>3 DEF JournalOf
    <2> HIDE DEF s
    <2>7. \A d \in Client : client'[d] = IF d = c THEN s ELSE client[d]
      BY <2>1, <2>4, GotoTyped DEF PlaneInv
    <2>8. \A d \in Client : CommandOK(d)'
      BY <1>0, <2>1, <2>5, <2>6, <2>7, CommandsKeep DEF lockVars
    <2>9. \A v \in Vault : VaultOK(v)'
      BY <2>1, <2>2, <2>5 DEF PlaneInv, VaultOK, JournalOf
    <2>10. \A v \in Vault, p \in Principal : Accounted(v, p) \subseteq Accounted(v, p)'
      BY <2>1, <2>5 DEF Accounted
    <2> QED
      BY <1>0, <2>1, <2>8, <2>9, <2>10, RestKeeps DEF PlaneInv
  <1> QED
    BY <1>1, <1>5, <1>6, <1>7

LEMMA ExchangeKeeps ==
  ASSUME PlaneInv, NEW c \in Client,
         \/ \E r \in Record : HubDecide(c, r)
         \/ HubAnswer(c)
         \/ NextPage(c)
         \/ FinishPush(c)
         \/ RefuseApply(c)
         \/ ApplyNothing(c)
  PROVE  PlaneInv'
  <1> DEFINE q == client[c]
             A == evidence[V(c)][P(c)].attempted
  <1>0. /\ V(c) \in Vault /\ P(c) \in Principal /\ CommandOK(c)
        /\ q \in CommandType /\ CommandTyped(q) /\ TypeOK'
        /\ VaultOK(V(c))
    <2>1. SyncStep(c) => TypeOK'
      BY SyncTyped DEF PlaneInv
    <2> QED
      BY <2>1, ConstantsTyped DEF SyncStep, PlaneInv, TypeOK, VariablesTyped
  <1>1. ASSUME NEW s, Goto(c, s), s \in CommandType, CommandTyped(s), InSync(q),
               hub \subseteq hub', UNCHANGED <<late, vaultVars, lockVars, told>>,
               Backed(s, P(c), hub', journal[V(c)], marker[V(c)], A)
        PROVE  PlaneInv'
    <2>1. transportLock' = transportLock /\ transportLock[V(c)] = c
      BY <1>0, <1>1 DEF CommandOK, lockVars
    <2> QED
      BY <1>0, <1>1, <2>1, QuietStep
  <1>2. ASSUME NEW r \in Record, HubDecide(c, r)
        PROVE  PlaneInv'
    <2> DEFINE code == Decide(r, P(c)).code
               s == [q EXCEPT !.undecided = @ \ {r}, !.outcomes = @ \cup {Outcome(r, code)}]
    <2>1. /\ q.pc = "submit" /\ r \in q.undecided /\ Goto(c, s)
          /\ hub' = Decide(r, P(c)).hub
          /\ UNCHANGED <<late, vaultVars, lockVars, told>>
      BY <1>2 DEF HubDecide, At
    <2>2. hub \subseteq hub' /\ code \in Codes
      BY <2>1, CodeTyped
    <2>3. Outcome(r, code) \in [record : Record, code : Codes]
      BY <2>2 DEF Outcome
    <2>4. /\ s \in CommandType /\ s.pc = "submit" /\ s.answer = q.answer
          /\ s.target = q.target /\ s.goal = q.goal /\ s.undecided = q.undecided \ {r}
          /\ s.outcomes = q.outcomes \cup {Outcome(r, code)}
      BY <1>0, <2>1, <2>3 DEF CommandType
    <2> HIDE DEF s
    <2>5. CommandTyped(s)
      BY <1>0, <2>1, <2>4 DEF CommandTyped
    <2>6. AttemptedIn(s.outcomes) = AttemptedIn(q.outcomes) \cup {r}
      BY <2>4, AttemptedAdds
    <2>7. Backed(s, P(c), hub', journal[V(c)], marker[V(c)], A)
      BY <1>0, <2>1, <2>4, <2>6 DEF CommandOK, Backed
    <2> QED
      BY <1>1, <2>1, <2>2, <2>4, <2>5, <2>7 DEF InSync
  <1>3. CASE HubAnswer(c)
    <2> DEFINE shown == AuthorizedRecords(hub, L(c))
               rc == [principal |-> P(c), members |-> shown,
                      excluded |-> Cardinality(hub \ shown), outcomes |-> q.outcomes]
               s == [q EXCEPT !.pc = "pages", !.page = 1, !.outcomes = {}, !.receipt = rc]
    <2>1. /\ q.pc = "submit" /\ q.undecided = {} /\ Goto(c, s)
          /\ UNCHANGED <<hub, late, vaultVars, lockVars, told>>
      BY <1>3 DEF HubAnswer, At
    <2>2. /\ client'[c] = s
          /\ rc.principal = P(c) /\ rc.members = AuthorizedRecords(hub, LabelOf[P(c)])
          /\ rc.outcomes = q.outcomes
      BY <2>1 DEF Goto, L, PlaneInv, TypeOK, VariablesTyped
    <2> HIDE DEF rc
    <2>3. /\ s.pc = "pages" /\ s.answer = q.answer /\ s.target = q.target
          /\ s.receipt = rc
      BY <1>0 DEF CommandType
    <2> HIDE DEF s
    <2>4. CommandTyped(s) /\ s \in CommandType
      BY <1>0, <2>1, <2>2 DEF TypeOK, VariablesTyped, CommandTyped
    <2>5. Backed(s, P(c), hub, journal[V(c)], marker[V(c)], A)
      BY <1>0, <2>1, <2>2, <2>3, NothingAttempted DEF CommandOK, Backed, VaultOK
    <2> QED
      BY <1>1, <2>1, <2>4, <2>5 DEF InSync
  <1>4. CASE NextPage(c)
    <2> DEFINE s == [q EXCEPT !.page = @ + 1]
    <2>1. /\ q.pc = "pages" /\ Goto(c, s)
          /\ UNCHANGED <<hub, late, vaultVars, lockVars, told>>
      BY <1>4 DEF NextPage, At
    <2>2. s \in CommandType /\ CommandTyped(s)
      BY <1>0, <2>1 DEF CommandType, CommandTyped
    <2>3. Backed(s, P(c), hub, journal[V(c)], marker[V(c)], A)
      BY <1>0 DEF CommandOK, Backed, CommandType
    <2> HIDE DEF s
    <2> QED
      BY <1>1, <2>1, <2>2, <2>3 DEF InSync
  <1>5. CASE FinishPush(c)
    BY <1>5, EndKeeps DEF FinishPush
  <1>6. CASE RefuseApply(c)
    BY <1>6, EndKeeps DEF RefuseApply
  <1>7. CASE ApplyNothing(c)
    <2> DEFINE s == [q EXCEPT !.pc = "unlink"]
    <2>1. /\ q.pc = "pages" /\ Goto(c, s) /\ q.receipt.outcomes = {}
          /\ UNCHANGED <<hub, late, vaultVars, lockVars, told>>
      BY <1>7 DEF ApplyNothing, Applying, Complete, NothingNew, At
    <2>2. journal[V(c)] = None
      BY <1>0, <2>1, NothingAttempted DEF CommandOK, Backed, VaultOK
    <2>3. /\ s \in CommandType /\ s.pc = "unlink" /\ s.answer = q.answer
          /\ s.target = q.target /\ s.goal = q.goal
      BY <1>0 DEF CommandType
    <2> HIDE DEF s
    <2>4. CommandTyped(s)
      BY <1>0, <2>1, <2>3 DEF CommandTyped
    <2>5. Backed(s, P(c), hub, journal[V(c)], marker[V(c)], A)
      BY <1>0, <2>2, <2>3 DEF CommandOK, Backed
    <2> QED
      BY <1>1, <2>1, <2>3, <2>4, <2>5 DEF InSync
  <1> QED
    BY <1>2, <1>3, <1>4, <1>5, <1>6, <1>7

LEMMA ApplyKeeps ==
  ASSUME PlaneInv, NEW c \in Client,
         PublishReceipt(c) \/ AdvanceMarker(c) \/ UnlinkJournal(c)
  PROVE  PlaneInv'
  <1> DEFINE q == client[c]
             A == evidence[V(c)][P(c)].attempted
  <1>0. /\ V(c) \in Vault /\ P(c) \in Principal /\ CommandOK(c)
        /\ q \in CommandType /\ CommandTyped(q) /\ TypeOK'
    <2>1. SyncStep(c) => TypeOK'
      BY SyncTyped DEF PlaneInv
    <2> QED
      BY <2>1, ConstantsTyped DEF SyncStep, PlaneInv, TypeOK, VariablesTyped
  <1>1. CASE PublishReceipt(c)
    <2> DEFINE s == [q EXCEPT !.pc = "expose"]
               rc == q.receipt
    <2>1. /\ q.pc = "pages" /\ Goto(c, s)
          /\ evidence' = [evidence EXCEPT ![V(c)][P(c)] = Replayed(evidence[V(c)][P(c)], rc)]
          /\ UNCHANGED <<hub, late, local, marker, journal, lockVars, told>>
      BY <1>1 DEF PublishReceipt, Applying, Complete, At
    <2>2. Replayed(evidence[V(c)][P(c)], rc).attempted = A \cup AttemptedIn(rc.outcomes)
      BY DEF Replayed
    <2>3. \A v \in Vault : \A p \in Principal :
            /\ evidence[v][p].attempted \subseteq evidence'[v][p].attempted
            /\ v = V(c) /\ p = P(c) =>
                 evidence'[v][p].attempted = A \cup AttemptedIn(rc.outcomes)
      BY <1>0, <2>1, <2>2 DEF PlaneInv, TypeOK, VariablesTyped
    <2>4. /\ s.pc = "expose" /\ s.answer = q.answer /\ s.target = q.target
          /\ s.receipt = rc
      BY <1>0 DEF CommandType
    <2>11. marker[V(c)] # None =>
             marker[V(c)].principal = rc.principal /\ marker[V(c)].members \subseteq rc.members
      BY <1>1 DEF PublishReceipt, Acceptable, Regresses
    <2> HIDE DEF s, rc
    <2>5. Backed(s, P(c), hub, journal[V(c)], marker[V(c)], evidence'[V(c)][P(c)].attempted)
      BY <1>0, <2>1, <2>3, <2>4, <2>11 DEF CommandOK, Backed, rc
    <2>6. \A d \in Client : client'[d] = IF d = c THEN s ELSE client[d]
      BY <2>1 DEF Goto, PlaneInv, TypeOK, VariablesTyped
    <2>7. InSync(s) /\ transportLock'[V(c)] = c
      BY <1>0, <2>1, <2>4 DEF InSync, CommandOK, lockVars
    <2>8. \A d \in Client : CommandOK(d)'
      BY <1>0, <2>1, <2>3, <2>5, <2>6, <2>7, CommandsKeep DEF lockVars
    <2>9. \A v \in Vault : VaultOK(v)'
      BY <2>1 DEF PlaneInv, VaultOK
    <2>10. \A v \in Vault, p \in Principal : Accounted(v, p) \subseteq Accounted(v, p)'
      BY <2>1, <2>3 DEF Accounted
    <2> QED
      BY <1>0, <2>1, <2>8, <2>9, <2>10, RestKeeps DEF PlaneInv
  <1>2. CASE AdvanceMarker(c)
    <2> DEFINE s == [q EXCEPT !.pc = "unlink"]
               rc == q.receipt
    <2>1. /\ q.pc = "expose" /\ Goto(c, s)
          /\ marker' = [marker EXCEPT ![V(c)] = rc]
          /\ UNCHANGED <<hub, late, evidence, journal, lockVars, told>>
      BY <1>2 DEF AdvanceMarker, At
    <2>2. /\ marker'[V(c)] = rc
          /\ \A v \in Vault : v # V(c) => marker'[v] = marker[v]
      BY <1>0, <2>1 DEF PlaneInv, TypeOK, VariablesTyped
    <2>3. /\ rc.principal = P(c)
          /\ rc.members \subseteq AuthorizedRecords(hub, LabelOf[P(c)])
          /\ rc \in ReceiptType /\ rc # None
      BY <1>0, <2>1, NoFileAssumption DEF CommandOK, Backed, CommandTyped
    <2>4. /\ s.pc = "unlink" /\ s.answer = q.answer /\ s.target = q.target
      BY <1>0 DEF CommandType
    <2> HIDE DEF s
    <2>5. Backed(s, P(c), hub, journal[V(c)], rc, A)
      BY <1>0, <2>1, <2>3, <2>4 DEF CommandOK, Backed
    <2>6. \A d \in Client : client'[d] = IF d = c THEN s ELSE client[d]
      BY <2>1 DEF Goto, PlaneInv, TypeOK, VariablesTyped
    <2>7. InSync(s) /\ transportLock[V(c)] = c
      BY <1>0, <2>1, <2>4 DEF InSync, CommandOK
    <2>8. \A d \in Client : CommandOK(d)'
      BY <1>0, <2>1, <2>2, <2>5, <2>6, <2>7, CommandsKeep DEF lockVars
    <2>9. \A v \in Vault : VaultOK(v)'
      BY <2>1, <2>2, <2>3 DEF PlaneInv, VaultOK
    <2>10. \A v \in Vault, p \in Principal : Accounted(v, p) \subseteq Accounted(v, p)'
      BY <2>1 DEF Accounted
    <2> QED
      BY <1>0, <2>1, <2>8, <2>9, <2>10, RestKeeps DEF PlaneInv
  <1>3. CASE UnlinkJournal(c)
    <2>1. /\ q.pc = "unlink"
          /\ journal' = [journal EXCEPT ![V(c)] = None]
          /\ UNCHANGED <<hub, late, local, evidence, marker, told>>
      BY <1>3 DEF UnlinkJournal, At
    <2>2. /\ journal'[V(c)] = None
          /\ \A v \in Vault : v # V(c) => journal'[v] = journal[v]
      BY <1>0, <2>1 DEF PlaneInv, TypeOK, VariablesTyped
    <2>3. transportLock[V(c)] = c
      BY <1>0, <2>1 DEF CommandOK, InSync
    <2>4. PICK s : /\ \A d \in Client : client'[d] = IF d = c THEN s ELSE client[d]
                   /\ ~InSync(s)
                   /\ Backed(s, P(c), hub, None, marker[V(c)], A)
                   /\ \A v \in Vault :
                        transportLock[v] \notin {c, None} => transportLock'[v] = transportLock[v]
      <3>1. CASE q.goal = "claim"
        <4> DEFINE s == AfterPull(c)
        <4>1. /\ s.pc = IF q.answer = None THEN "check" ELSE "verify"
              /\ s.answer = q.answer /\ s.target = q.target
          BY <1>0 DEF AfterPull, CommandType
        <4>2. Goto(c, s) /\ transportLock' = [transportLock EXCEPT ![V(c)] = None]
          BY <1>3, <3>1 DEF UnlinkJournal
        <4> HIDE DEF s
        <4>3. ~InSync(s) /\ Backed(s, P(c), hub, None, marker[V(c)], A)
          BY <1>0, <4>1 DEF InSync, Backed, CommandOK
        <4>4. \A d \in Client : client'[d] = IF d = c THEN s ELSE client[d]
          BY <4>2 DEF Goto, PlaneInv, TypeOK, VariablesTyped
        <4>5. \A v \in Vault :
                transportLock[v] \notin {c, None} => transportLock'[v] = transportLock[v]
          BY <2>3, <4>2 DEF PlaneInv, TypeOK, VariablesTyped
        <4> QED
          BY <4>3, <4>4, <4>5
      <3>2. CASE q.goal # "claim"
        <4>1. Finish(c)
          BY <1>3, <3>2 DEF UnlinkJournal
        <4>2. \A v \in Vault :
                transportLock[v] \notin {c, None} => transportLock'[v] = transportLock[v]
          BY <4>1 DEF Finish
        <4>3. \A d \in Client : client'[d] = IF d = c THEN Idle ELSE client[d]
          BY <4>1, FinishTyped DEF PlaneInv
        <4> QED
          BY <4>2, <4>3, IdleBacked
      <3> QED
        BY <3>1, <3>2
    <2>5. \A d \in Client : CommandOK(d)'
      BY <1>0, <2>1, <2>2, <2>3, <2>4, CommandsKeep
    <2>6. \A v \in Vault : VaultOK(v)'
      BY <2>1, <2>2 DEF PlaneInv, VaultOK
    <2>7. \A v \in Vault, p \in Principal : Accounted(v, p) \subseteq Accounted(v, p)'
      BY <1>0, <2>1, <2>2 DEF Accounted, CommandOK, Backed
    <2> QED
      BY <1>0, <2>1, <2>5, <2>6, <2>7, RestKeeps DEF PlaneInv
  <1> QED
    BY <1>1, <1>2, <1>3

-----------------------------------------------------------------------------
(***************************************************************************)
(* The other steps                                                         *)
(***************************************************************************)
LEMMA ClaimKeeps ==
  ASSUME PlaneInv, NEW c \in Client, ClaimStep(c)
  PROVE  PlaneInv'
  <1> DEFINE q == client[c]
             A == evidence[V(c)][P(c)].attempted
  <1>0. /\ V(c) \in Vault /\ P(c) \in Principal /\ CommandOK(c)
        /\ q \in CommandType /\ CommandTyped(q) /\ TypeOK'
    BY ClaimTyped, ConstantsTyped DEF PlaneInv, TypeOK, VariablesTyped
  <1>1. CASE StartPull(c)
    <2> DEFINE s == [q EXCEPT !.pc = "journal", !.outcomes = {}]
    <2>1. /\ q.pc = "pull" /\ Goto(c, s)
          /\ transportLock' = [transportLock EXCEPT ![V(c)] = c]
          /\ UNCHANGED <<hub, late, vaultVars>>
      BY <1>1 DEF StartPull, At
    <2>2. /\ s \in CommandType /\ s.pc = "journal" /\ s.answer = q.answer
          /\ s.target = q.target /\ s.goal = q.goal /\ s.outcomes = {}
      BY <1>0 DEF CommandType
    <2> HIDE DEF s
    <2>3. CommandTyped(s)
      BY <1>0, <2>1, <2>2 DEF CommandTyped
    <2>4. Backed(s, P(c), hub, journal[V(c)], marker[V(c)], A)
      BY <1>0, <2>2 DEF CommandOK, Backed
    <2>5. /\ transportLock'[V(c)] = c
          /\ \A v \in Vault :
               transportLock[v] \notin {c, None} => transportLock'[v] = transportLock[v]
      BY <1>0, <1>1, <2>1 DEF StartPull, TransportFree, PlaneInv, TypeOK, VariablesTyped
    <2> QED
      BY <1>0, <2>1, <2>3, <2>4, <2>5, QuietStep
  <1>2. CASE PullBusy(c)
    BY <1>2, EndKeeps DEF PullBusy
  <1>3. ASSUME NEW s, Goto(c, s), s \in CommandType, CommandTyped(s), ~InSync(s),
               s.answer \in {None, Successor(s.target)}, s.pc \in {"claim", "pull"},
               hub \subseteq hub', UNCHANGED <<late, vaultVars, lockVars>>
        PROVE  PlaneInv'
    <2>1. Backed(s, P(c), hub', journal[V(c)], marker[V(c)], A)
      BY <1>3 DEF Backed, InSync
    <2> QED
      BY <1>0, <1>3, <2>1, QuietStep DEF lockVars
  <1>4. CASE CheckTask(c)
    <2> DEFINE s == [q EXCEPT !.pc = "claim",
                     !.preclaimed = Successor(q.target) \in marker[V(c)].members]
    <2>1. /\ q.pc = "check" /\ Goto(c, s)
          /\ UNCHANGED <<hub, late, vaultVars, lockVars>>
      BY <1>4 DEF CheckTask, At
    <2>2. /\ s.pc = "claim" /\ s.answer = q.answer /\ s.target = q.target
          /\ client'[c] = s
      BY <1>0, <2>1 DEF CommandType, Goto, PlaneInv, TypeOK, VariablesTyped
    <2> HIDE DEF s
    <2>3. CommandTyped(s) /\ s \in CommandType /\ ~InSync(s)
      BY <1>0, <2>2 DEF CommandTyped, InSync, TypeOK, VariablesTyped
    <2> QED
      BY <1>0, <1>3, <2>1, <2>2, <2>3 DEF CommandOK, Backed
  <1>5. CASE RefuseTask(c)
    BY <1>5, EndKeeps DEF RefuseTask
  <1>6. CASE HubClaim(c)
    <2> DEFINE s == [q EXCEPT !.pc = "pull", !.answer = Successor(q.target)]
    <2>1. /\ q.pc = "claim" /\ Goto(c, s) /\ hub \subseteq hub'
          /\ UNCHANGED <<late, vaultVars, lockVars>>
      BY <1>6 DEF HubClaim, At
    <2>2. /\ s.pc = "pull" /\ s.answer = Successor(q.target) /\ s.target = q.target
          /\ client'[c] = s
      BY <1>0, <2>1 DEF CommandType, Goto, PlaneInv, TypeOK, VariablesTyped
    <2> HIDE DEF s
    <2>3. CommandTyped(s) /\ s \in CommandType /\ ~InSync(s)
      BY <1>0, <2>2 DEF CommandTyped, InSync, TypeOK, VariablesTyped
    <2> QED
      BY <1>3, <2>1, <2>2, <2>3
  <1>7. CASE VerifyClaim(c)
    <2>1. Finish(c) /\ UNCHANGED <<hub, late, vaultVars>>
      BY <1>7 DEF VerifyClaim
    <2>2. \A v \in Vault :
            transportLock[v] \notin {c, None} => transportLock'[v] = transportLock[v]
      BY <2>1 DEF Finish
    <2> QED
      BY <1>0, <2>1, <2>2, IdleTyped, IdleBacked, QuietStep DEF Finish
  <1> QED
    BY <1>1, <1>2, <1>4, <1>5, <1>6, <1>7 DEF ClaimStep

LEMMA BeginKeeps ==
  ASSUME PlaneInv, NEW c \in Client,
         \/ \E phase \in Phases : BeginSync(c, phase)
         \/ \E o \in Open : BeginClaim(c, o)
  PROVE  PlaneInv'
  <1>0. /\ V(c) \in Vault /\ TypeOK'
        /\ transportLock \in [Vault -> Client \cup {None}]
    BY BeginTyped, ConstantsTyped DEF PlaneInv, TypeOK, VariablesTyped
  <1>1. ASSUME NEW s, Goto(c, s), CommandTyped(s), s.answer = None, s.outcomes = {},
               s.pc \in {"journal", "pull"}, UNCHANGED <<hub, late, vaultVars>>,
               \A v \in Vault :
                 transportLock[v] \notin {c, None} => transportLock'[v] = transportLock[v],
               InSync(s) => transportLock'[V(c)] = c
        PROVE  PlaneInv'
    <2>1. Backed(s, P(c), hub, journal[V(c)], marker[V(c)], evidence[V(c)][P(c)].attempted)
      BY <1>1 DEF Backed
    <2> QED
      BY <1>0, <1>1, <2>1, QuietStep
  <1>2. ASSUME NEW phase \in Phases, BeginSync(c, phase)
        PROVE  PlaneInv'
    <2> DEFINE s == [Idle EXCEPT !.pc = "journal", !.goal = phase]
    <2>1. CommandTyped(s)
      BY IdleTyped DEF CommandTyped, CommandType, Phases
    <2>2. s.answer = None /\ s.outcomes = {} /\ s.pc = "journal"
      BY DEF Idle
    <2>3. /\ Goto(c, s) /\ UNCHANGED <<hub, late, vaultVars>>
          /\ transportLock' = [transportLock EXCEPT ![V(c)] = c]
          /\ transportLock[V(c)] = None
      BY <1>2 DEF BeginSync, TransportFree
    <2> HIDE DEF s
    <2> QED
      BY <1>0, <1>1, <2>1, <2>2, <2>3
  <1>3. ASSUME NEW o \in Open, BeginClaim(c, o)
        PROVE  PlaneInv'
    <2> DEFINE s == [Idle EXCEPT !.pc = "pull", !.goal = "claim", !.target = o]
    <2>1. CommandTyped(s)
      BY IdleTyped DEF CommandTyped, CommandType, Open
    <2>2. s.answer = None /\ s.outcomes = {} /\ s.pc = "pull"
      BY DEF Idle
    <2>3. /\ Goto(c, s) /\ UNCHANGED <<hub, late, vaultVars>>
          /\ transportLock' = transportLock
      BY <1>3 DEF BeginClaim
    <2> HIDE DEF s
    <2> QED
      BY <1>1, <2>1, <2>2, <2>3 DEF InSync
  <1> QED
    BY <1>2, <1>3

\* A request given up is accounted for as the command was.
LEMMA AbandonKeeps ==
  ASSUME PlaneInv, NEW c \in Client, Abandon(c)
  PROVE  PlaneInv'
  <1>0. /\ V(c) \in Vault /\ P(c) \in Principal /\ CommandOK(c) /\ TypeOK'
    <2>1. Next
      BY DEF Next
    <2> QED
      BY <2>1, NextTyped, ConstantsTyped DEF PlaneInv
  <1>1. /\ Finish(c) /\ UNCHANGED <<hub, vaultVars>>
        /\ late' = late \cup Remaining(c)
    BY DEF Abandon
  <1>2. \A v \in Vault :
          transportLock[v] \notin {c, None} => transportLock'[v] = transportLock[v]
    BY <1>1 DEF Finish
  <1>3. \A d \in Client : client'[d] = IF d = c THEN Idle ELSE client[d]
    BY <1>1, FinishTyped DEF PlaneInv
  <1>4. \A d \in Client : CommandOK(d)'
    BY <1>0, <1>1, <1>2, <1>3, IdleBacked, CommandsKeep DEF vaultVars
  <1>5. ASSUME NEW x \in Remaining(c), ~x.claim
        PROVE  x.record \in Accounted(x.vault, x.principal)
    <2>1. At(c, "submit")
      BY <1>5 DEF Remaining
    <2>2. PICK r \in client[c].undecided :
            x = [vault |-> V(c), principal |-> P(c), record |-> r, claim |-> FALSE]
      BY <1>5, <2>1 DEF Remaining
    <2>3. client[c].undecided \subseteq Accounted(V(c), P(c))
      BY <1>0, <2>1 DEF CommandOK, Backed, Accounted, At
    <2> QED
      BY <2>2, <2>3
  <1>6. LateOK'
    BY <1>1, <1>5, FilesKeep DEF PlaneInv, LateOK
  <1> QED
    BY <1>0, <1>1, <1>4, <1>6, FilesKeep DEF PlaneInv

\* Steps that change no command and no journal: the hub may grow.
LEMMA OutsideKeeps ==
  ASSUME PlaneInv, TypeOK', hub \subseteq hub', late' \subseteq late,
         UNCHANGED <<evidence, marker, journal, transportLock, client>>
  PROVE  PlaneInv'
  <1>1. \A d \in Client : CommandOK(d)'
    BY BackedGrows DEF PlaneInv, CommandOK, P, V
  <1>2. \A v \in Vault : VaultOK(v)'
    BY AuthorizedGrows DEF PlaneInv, VaultOK
  <1>3. \A v \in Vault, p \in Principal : Accounted(v, p) \subseteq Accounted(v, p)'
    BY DEF Accounted
  <1> QED
    BY <1>1, <1>2, <1>3, RestKeeps DEF PlaneInv

LEMMA NextKeeps ==
  ASSUME PlaneInv, [Next]_vars
  PROVE  PlaneInv'
  <1>0. TypeOK'
    BY NextTyped DEF PlaneInv
  <1>1. ASSUME NEW v \in Vault, NEW r \in Record, AppendLocal(v, r)
        PROVE  PlaneInv'
    BY <1>0, <1>1, OutsideKeeps DEF AppendLocal, lockVars
  <1>2. ASSUME NEW c \in Client, SyncStep(c)
        PROVE  PlaneInv'
    BY <1>2, JournalKeeps, ExchangeKeeps, ApplyKeeps DEF SyncStep
  <1>3. ASSUME NEW x \in late, LateEffect(x)
        PROVE  PlaneInv'
    <2>1. hub \subseteq hub' /\ late' \subseteq late
      BY <1>3, LateGrows DEF PlaneInv
    <2> QED
      BY <1>0, <1>3, <2>1, OutsideKeeps DEF LateEffect, vaultVars, lockVars
  <1>4. ASSUME NEW r \in Others, OtherAppend(r)
        PROVE  PlaneInv'
    BY <1>0, <1>4, OutsideKeeps DEF OtherAppend, vaultVars, lockVars
  <1>5. CASE UNCHANGED vars
    BY <1>0, <1>5, OutsideKeeps DEF vars, vaultVars, lockVars
  <1> QED
    BY <1>1, <1>2, <1>3, <1>4, <1>5, ClaimKeeps, BeginKeeps, AbandonKeeps DEF Next

LEMMA InitInv == Init => PlaneInv
  <1> SUFFICES ASSUME Init PROVE PlaneInv
    OBVIOUS
  <1>1. \A c \in Client : CommandOK(c)
    BY IdleBacked DEF Init, CommandOK
  <1> QED
    BY <1>1, InitTyped, ConstantsTyped DEF Init, PlaneInv, VaultOK, LateOK

LEMMA PlaneInvHolds == Spec => []PlaneInv
  BY InitInv, NextKeeps, PTL DEF Spec

-----------------------------------------------------------------------------
(***************************************************************************)
(* The theorems                                                            *)
(***************************************************************************)

(***************************************************************************)
(* What a hub may ever receive from a vault is named by its journal or by  *)
(* a receipt: _batch writes http-pending.json before the first request.    *)
(***************************************************************************)
THEOREM SubmissionsGoverned == Spec => []JournalGoverns
  <1>1. ASSUME PlaneInv
        PROVE  JournalGoverns
    <2>1. ASSUME NEW c \in Client, At(c, "submit")
          PROVE  client[c].undecided \subseteq Accounted(V(c), P(c))
      BY <1>1, <2>1 DEF PlaneInv, CommandOK, Backed, Accounted, At
    <2>2. ASSUME NEW x \in late, ~x.claim
          PROVE  x.record \in Accounted(x.vault, x.principal)
      BY <1>1, <2>2 DEF PlaneInv, LateOK
    <2> QED
      BY <2>1, <2>2 DEF JournalGoverns, Accounted
  <1> QED
    BY <1>1, PlaneInvHolds, PTL

(***************************************************************************)
(* A complete answer shows all the view it is applied to does.             *)
(***************************************************************************)
THEOREM AnswersAreCurrent == Spec => []AnswerNeverOvertaken
  <1>1. ASSUME PlaneInv
        PROVE  AnswerNeverOvertaken
    <2> SUFFICES ASSUME NEW c \in Client, Complete(c), marker[V(c)] # None,
                        marker[V(c)].principal = P(c)
                 PROVE  ~Regresses(marker[V(c)], client[c].receipt)
      BY DEF AnswerNeverOvertaken
    <2> QED
      BY <1>1 DEF PlaneInv, CommandOK, Backed, Complete, At, Regresses
  <1> QED
    BY <1>1, PlaneInvHolds, PTL

Settled(v) ==
  journal[v] # None /\ journal'[v] # journal[v] =>
    /\ journal'[v] = None
    /\ marker[v] # None
    /\ marker[v].principal = journal[v].principal
    /\ AttemptedIn(marker[v].outcomes) = journal[v].refs

LEMMA StepSettles ==
  ASSUME PlaneInv, [Next]_vars
  PROVE  \A v \in Vault : Settled(v)
  <1> USE DEF vaultVars
  <1>1. CASE journal' = journal
    BY <1>1 DEF Settled
  <1>2. ASSUME NEW c \in Client, NEW B, WriteJournal(c, B)
        PROVE  \A v \in Vault : Settled(v)
    <2>1. journal[V(c)] = None /\ journal \in [Vault -> JournalType \cup {None}]
      BY <1>2 DEF WriteJournal, PlaneInv, TypeOK, VariablesTyped
    <2> QED
      BY <1>2, <2>1 DEF WriteJournal, Settled
  <1>3. ASSUME NEW c \in Client, UnlinkJournal(c)
        PROVE  \A v \in Vault : Settled(v)
    <2>1. /\ client[c].pc = "unlink" /\ CommandOK(c) /\ V(c) \in Vault
          /\ journal \in [Vault -> JournalType \cup {None}]
          /\ journal' = [journal EXCEPT ![V(c)] = None]
      BY <1>3, ConstantsTyped DEF UnlinkJournal, At, PlaneInv, TypeOK, VariablesTyped
    <2>2. ASSUME journal[V(c)] # None
          PROVE  /\ marker[V(c)] # None
                 /\ marker[V(c)].principal = journal[V(c)].principal
                 /\ AttemptedIn(marker[V(c)].outcomes) = journal[V(c)].refs
      BY <2>1, <2>2 DEF CommandOK, Backed
    <2> QED
      BY <2>1, <2>2 DEF Settled
  <1>4. ASSUME NEW c \in Client, SyncStep(c)
        PROVE  \A v \in Vault : Settled(v)
    BY <1>1, <1>2, <1>3, <1>4
    DEF SyncStep, RefuseJournal, ResendJournal, SubmitNothing, HubDecide, HubAnswer,
        NextPage, FinishPush, RefuseApply, ApplyNothing, PublishReceipt, AdvanceMarker, End
  <1>5. ASSUME NEW c \in Client, ClaimStep(c)
        PROVE  journal' = journal
    BY <1>5
    DEF ClaimStep, StartPull, PullBusy, CheckTask, RefuseTask, HubClaim, VerifyClaim, End
  <1>6. ASSUME ~ \E c \in Client : SyncStep(c)
        PROVE  journal' = journal
    BY <1>5, <1>6
    DEF Next, vars, AppendLocal, BeginSync, BeginClaim, Abandon, LateEffect, OtherAppend
  <1> QED
    BY <1>1, <1>4, <1>6

(***************************************************************************)
(* "Only successful local projection consumes the journal": http-pending   *)
(* disappears only when the current receipt reports exactly its batch.     *)
(***************************************************************************)
THEOREM JournalsSettle == Spec => JournalSettled
  <1>1. PlaneInv /\ [Next]_vars =>
          [\A v \in Vault : journal[v] # None /\ journal'[v] # journal[v] =>
             /\ journal'[v] = None
             /\ marker[v] # None
             /\ marker[v].principal = journal[v].principal
             /\ AttemptedIn(marker[v].outcomes) = journal[v].refs]_vars
    BY StepSettles DEF Settled
  <1> QED
    BY <1>1, PlaneInvHolds, PTL DEF Spec, JournalSettled

\* What a vault shows it shows for ever, and to one principal only.
ViewGrows(v) ==
  marker[v] # None =>
    /\ marker'[v] # None
    /\ marker'[v].principal = marker[v].principal
    /\ marker[v].members \subseteq marker'[v].members

ViewsGrow == [][\A v \in Vault : ViewGrows(v)]_vars

LEMMA StepGrowsViews ==
  ASSUME PlaneInv, [Next]_vars
  PROVE  \A v \in Vault : ViewGrows(v)
  <1> USE DEF vaultVars
  <1>1. CASE marker' = marker
    BY <1>1 DEF ViewGrows
  <1>2. ASSUME NEW c \in Client, AdvanceMarker(c)
        PROVE  \A v \in Vault : ViewGrows(v)
    <2> DEFINE rc == client[c].receipt
    <2>1. /\ client[c].pc = "expose" /\ marker' = [marker EXCEPT ![V(c)] = rc]
          /\ V(c) \in Vault /\ marker \in [Vault -> ReceiptType \cup {None}]
      BY <1>2, ConstantsTyped DEF AdvanceMarker, At, PlaneInv, TypeOK, VariablesTyped
    <2>2. client[c] \in CommandType /\ CommandTyped(client[c]) /\ CommandOK(c)
      BY DEF PlaneInv, TypeOK, VariablesTyped
    <2>3. /\ rc # None /\ rc.principal = P(c)
          /\ marker[V(c)] # None =>
               marker[V(c)].principal = P(c) /\ marker[V(c)].members \subseteq rc.members
      BY <2>1, <2>2, NoFileAssumption DEF CommandOK, Backed, CommandTyped
    <2> HIDE DEF rc
    <2> QED
      BY <2>1, <2>3 DEF ViewGrows
  <1>3. ASSUME NEW c \in Client, SyncStep(c), ~AdvanceMarker(c)
        PROVE  marker' = marker
    BY <1>3
    DEF SyncStep, RefuseJournal, ResendJournal, WriteJournal, SubmitNothing, HubDecide,
        HubAnswer, NextPage, FinishPush, RefuseApply, ApplyNothing, PublishReceipt,
        UnlinkJournal, End
  <1>4. ASSUME NEW c \in Client, ClaimStep(c)
        PROVE  marker' = marker
    BY <1>4
    DEF ClaimStep, StartPull, PullBusy, CheckTask, RefuseTask, HubClaim, VerifyClaim, End
  <1>5. ASSUME ~ \E c \in Client : SyncStep(c)
        PROVE  marker' = marker
    BY <1>4, <1>5
    DEF Next, vars, AppendLocal, BeginSync, BeginClaim, Abandon, LateEffect, OtherAppend
  <1> QED
    BY <1>1, <1>2, <1>3, <1>5

(***************************************************************************)
(* A vault's view never loses a record nor passes to another principal:    *)
(* what was accepted against last-successful.json is stored before anybody *)
(* replaces that file, although receipt and records are written between.   *)
(***************************************************************************)
THEOREM ViewsNeverShrink == Spec => ViewsGrow
  <1>1. PlaneInv /\ [Next]_vars => [\A v \in Vault : ViewGrows(v)]_vars
    BY StepGrowsViews
  <1> QED
    BY <1>1, PlaneInvHolds, PTL DEF Spec, ViewsGrow

-----------------------------------------------------------------------------
(***************************************************************************)
(* What a user is told                                                     *)
(***************************************************************************)

\* A claim is checked against a marker, which only receipts replace.
MarkerSeen(q, m) == q.pc \in {"unlink", "check", "verify"} => m # None

ClaimsHeld == \A c \in Client : \A o \in told[c] : Successor(o) \in hub

ToldInv ==
  /\ ClaimsHeld
  /\ \A c \in Client : MarkerSeen(client[c], marker[V(c)])

LEMMA ToldKeeps ==
  ASSUME PlaneInv, ToldInv, NEW c \in Client, NEW s, hub \subseteq hub',
         \A d \in Client : client'[d] = IF d = c THEN s ELSE client[d],
         MarkerSeen(s, marker'[V(c)]),
         \A v \in Vault : marker[v] # None => marker'[v] # None,
         told' = told
  PROVE  ToldInv'
  <1>1. \A d \in Client : MarkerSeen(client'[d], marker'[V(d)])
    BY ConstantsTyped DEF ToldInv, MarkerSeen
  <1> QED
    BY <1>1 DEF ToldInv, ClaimsHeld, V

LEMMA ToldStays ==
  ASSUME PlaneInv, ToldInv, hub \subseteq hub', UNCHANGED <<client, marker, told>>
  PROVE  ToldInv'
  BY DEF ToldInv, ClaimsHeld, V

LEMMA GotoTold ==
  ASSUME PlaneInv, ToldInv, NEW c \in Client, NEW s, hub \subseteq hub', Goto(c, s),
         MarkerSeen(s, marker[V(c)]), UNCHANGED <<marker, told>>
  PROVE  ToldInv'
  <1>1. \A d \in Client : client'[d] = IF d = c THEN s ELSE client[d]
    BY DEF Goto, PlaneInv, TypeOK, VariablesTyped
  <1> QED
    BY <1>1, ToldKeeps

LEMMA FinishTold ==
  ASSUME PlaneInv, ToldInv, NEW c \in Client, Finish(c), UNCHANGED <<hub, marker, told>>
  PROVE  ToldInv'
  BY GotoTold DEF Finish, MarkerSeen, Idle

LEMMA SyncTold ==
  ASSUME PlaneInv, ToldInv, NEW c \in Client, SyncStep(c)
  PROVE  ToldInv'
  <1> USE DEF vaultVars
  <1> DEFINE q == client[c]
  <1>0. /\ q \in CommandType /\ V(c) \in Vault /\ MarkerSeen(q, marker[V(c)])
        /\ CommandTyped(q)
    BY ConstantsTyped DEF PlaneInv, TypeOK, VariablesTyped, ToldInv
  <1>1. CASE RefuseJournal(c)
    BY <1>1, FinishTold DEF RefuseJournal, End
  <1>2. ASSUME NEW B, Goto(c, Submit(c, B)), UNCHANGED <<hub, marker, told>>
        PROVE  ToldInv'
    <2> DEFINE s == Submit(c, B)
    <2>1. MarkerSeen(s, marker[V(c)]) /\ Goto(c, s)
      BY <1>0, <1>2 DEF MarkerSeen, Submit, CommandType
    <2> HIDE DEF s
    <2> QED
      BY <1>2, <2>1, GotoTold
  <1>3. CASE ResendJournal(c) \/ SubmitNothing(c) \/ \E B \in Batches(c) : WriteJournal(c, B)
    BY <1>2, <1>3 DEF ResendJournal, SubmitNothing, WriteJournal
  <1>4. ASSUME NEW r \in Record, HubDecide(c, r)
        PROVE  ToldInv'
    <2> DEFINE s == [q EXCEPT !.undecided = @ \ {r},
                              !.outcomes = @ \cup {Outcome(r, Decide(r, P(c)).code)}]
    <2>1. /\ q.pc = "submit" /\ Goto(c, s) /\ hub' = Decide(r, P(c)).hub
          /\ UNCHANGED <<marker, told>>
      BY <1>4 DEF HubDecide, At
    <2>2. hub \subseteq hub'
      BY <2>1, CodeTyped
    <2>3. s.pc = "submit"
      BY <1>0, <2>1 DEF CommandType
    <2> HIDE DEF s
    <2> QED
      BY <2>1, <2>2, <2>3, GotoTold DEF MarkerSeen
  <1>5. ASSUME NEW s, Goto(c, s), s.pc = "pages", UNCHANGED <<hub, marker, told>>
        PROVE  ToldInv'
    BY <1>5, GotoTold DEF MarkerSeen
  <1>6. CASE HubAnswer(c)
    <2> DEFINE s == [q EXCEPT !.pc = "pages", !.page = 1, !.outcomes = {},
                    !.receipt = [principal |-> P(c), members |-> AuthorizedRecords(hub, L(c)),
                                 excluded |-> Cardinality(hub \ AuthorizedRecords(hub, L(c))),
                                 outcomes |-> q.outcomes]]
    <2>1. s.pc = "pages" /\ Goto(c, s) /\ UNCHANGED <<hub, marker, told>>
      BY <1>0, <1>6 DEF HubAnswer, CommandType
    <2> HIDE DEF s
    <2> QED
      BY <1>5, <2>1
  <1>7. CASE NextPage(c)
    <2> DEFINE s == [q EXCEPT !.page = @ + 1]
    <2>1. s.pc = "pages" /\ Goto(c, s) /\ UNCHANGED <<hub, marker, told>>
      BY <1>0, <1>7 DEF NextPage, At, CommandType
    <2> HIDE DEF s
    <2> QED
      BY <1>5, <2>1
  <1>8. CASE FinishPush(c) \/ RefuseApply(c)
    BY <1>8, FinishTold DEF FinishPush, RefuseApply, End
  <1>9. CASE ApplyNothing(c)
    <2> DEFINE s == [q EXCEPT !.pc = "unlink"]
    <2>1. MarkerSeen(s, marker[V(c)]) /\ Goto(c, s) /\ UNCHANGED <<hub, marker, told>>
      BY <1>9 DEF ApplyNothing, MarkerSeen
    <2> HIDE DEF s
    <2> QED
      BY <2>1, GotoTold
  <1>10. CASE PublishReceipt(c)
    <2> DEFINE s == [q EXCEPT !.pc = "expose"]
    <2>1. MarkerSeen(s, marker[V(c)]) /\ Goto(c, s) /\ UNCHANGED <<hub, marker, told>>
      BY <1>0, <1>10 DEF PublishReceipt, MarkerSeen, CommandType
    <2> HIDE DEF s
    <2> QED
      BY <2>1, GotoTold
  <1>11. CASE AdvanceMarker(c)
    <2> DEFINE s == [q EXCEPT !.pc = "unlink"]
    <2>1. /\ q.pc = "expose" /\ Goto(c, s) /\ UNCHANGED <<hub, told>>
          /\ marker' = [marker EXCEPT ![V(c)] = q.receipt]
      BY <1>11 DEF AdvanceMarker, At
    <2>2. q.receipt # None
      BY <1>0, <2>1, NoFileAssumption DEF CommandTyped
    <2>3. /\ marker'[V(c)] # None
          /\ \A v \in Vault : marker[v] # None => marker'[v] # None
      BY <1>0, <2>1, <2>2 DEF PlaneInv, TypeOK, VariablesTyped
    <2> HIDE DEF s
    <2>4. \A d \in Client : client'[d] = IF d = c THEN s ELSE client[d]
      BY <2>1 DEF Goto, PlaneInv, TypeOK, VariablesTyped
    <2> QED
      BY <2>1, <2>3, <2>4, ToldKeeps DEF MarkerSeen
  <1>12. CASE UnlinkJournal(c)
    <2>1. CASE q.goal = "claim"
      <3>1. Goto(c, AfterPull(c)) /\ UNCHANGED <<hub, marker, told>> /\ q.pc = "unlink"
        BY <1>12, <2>1 DEF UnlinkJournal, At
      <3> QED
        BY <1>0, <3>1, GotoTold DEF MarkerSeen
    <2> QED
      BY <1>12, <2>1, FinishTold DEF UnlinkJournal
  <1> QED
    BY <1>1, <1>3, <1>4, <1>6, <1>7, <1>8, <1>9, <1>10, <1>11, <1>12 DEF SyncStep

LEMMA ClaimTold ==
  ASSUME PlaneInv, ToldInv, NEW c \in Client, ClaimStep(c)
  PROVE  ToldInv'
  <1> USE DEF vaultVars
  <1> DEFINE q == client[c]
  <1>0. /\ q \in CommandType /\ V(c) \in Vault /\ MarkerSeen(q, marker[V(c)])
        /\ CommandOK(c) /\ VaultOK(V(c))
    BY ConstantsTyped DEF PlaneInv, TypeOK, VariablesTyped, ToldInv
  <1>1. ASSUME NEW s, Goto(c, s), s.pc \in {"journal", "claim", "pull"},
               hub \subseteq hub', UNCHANGED <<marker, told>>
        PROVE  ToldInv'
    BY <1>1, GotoTold DEF MarkerSeen
  <1>2. CASE StartPull(c)
    <2> DEFINE s == [q EXCEPT !.pc = "journal", !.outcomes = {}]
    <2>1. s.pc = "journal" /\ Goto(c, s) /\ UNCHANGED <<hub, marker, told>>
      BY <1>0, <1>2 DEF StartPull, CommandType
    <2> HIDE DEF s
    <2> QED
      BY <1>1, <2>1
  <1>3. CASE PullBusy(c) \/ RefuseTask(c)
    BY <1>3, FinishTold DEF PullBusy, RefuseTask, End
  <1>4. CASE CheckTask(c)
    <2> DEFINE s == [q EXCEPT !.pc = "claim",
                     !.preclaimed = Successor(q.target) \in marker[V(c)].members]
    <2>1. s.pc = "claim" /\ Goto(c, s) /\ UNCHANGED <<hub, marker, told>>
      BY <1>0, <1>4 DEF CheckTask, CommandType
    <2> HIDE DEF s
    <2> QED
      BY <1>1, <2>1
  <1>5. CASE HubClaim(c)
    <2> DEFINE s == [q EXCEPT !.pc = "pull", !.answer = Successor(q.target)]
    <2>1. s.pc = "pull" /\ Goto(c, s) /\ hub \subseteq hub' /\ UNCHANGED <<marker, told>>
      BY <1>0, <1>5 DEF HubClaim, CommandType
    <2> HIDE DEF s
    <2> QED
      BY <1>1, <2>1
  <1>6. CASE VerifyClaim(c)
    <2>1. /\ q.pc = "verify" /\ Finish(c) /\ UNCHANGED <<hub, marker>>
          /\ told' = [told EXCEPT ![c] = @ \cup {q.target}]
          /\ Leaves(Revisions(marker[V(c)].members, q.target.task)) = {q.answer}
      BY <1>6 DEF VerifyClaim, Verified, At
    <2>2. q.answer \in marker[V(c)].members
      BY <2>1 DEF Leaves, Revisions
    <2>3. marker[V(c)].members \subseteq hub
      BY <1>0, <2>1 DEF VaultOK, MarkerSeen, AuthorizedRecords
    <2>4. q.answer = Successor(q.target)
      BY <1>0, <2>1 DEF CommandOK, Backed
    <2>5. ClaimsHeld'
      BY <2>1, <2>2, <2>3, <2>4 DEF ClaimsHeld, ToldInv, PlaneInv, TypeOK, VariablesTyped
    <2>6. \A d \in Client : client'[d] = IF d = c THEN Idle ELSE client[d]
      BY <2>1, FinishTyped DEF PlaneInv
    <2>7. \A d \in Client : MarkerSeen(client[d], marker[V(d)])'
      BY <2>1, <2>6 DEF ToldInv, MarkerSeen, Idle, V
    <2> QED
      BY <2>5, <2>7 DEF ToldInv
  <1> QED
    BY <1>2, <1>3, <1>4, <1>5, <1>6 DEF ClaimStep

LEMMA NextTold ==
  ASSUME PlaneInv, ToldInv, [Next]_vars
  PROVE  ToldInv'
  <1>1. ASSUME NEW c \in Client, NEW phase \in Phases, BeginSync(c, phase)
        PROVE  ToldInv'
    <2> DEFINE s == [Idle EXCEPT !.pc = "journal", !.goal = phase]
    <2>1. s.pc = "journal" /\ Goto(c, s) /\ UNCHANGED <<hub, marker, told>>
      BY <1>1 DEF BeginSync, Idle, vaultVars
    <2> HIDE DEF s
    <2> QED
      BY <2>1, GotoTold DEF MarkerSeen
  <1>2. ASSUME NEW c \in Client, NEW o \in Open, BeginClaim(c, o)
        PROVE  ToldInv'
    <2> DEFINE s == [Idle EXCEPT !.pc = "pull", !.goal = "claim", !.target = o]
    <2>1. s.pc = "pull" /\ Goto(c, s) /\ UNCHANGED <<hub, marker, told>>
      BY <1>2 DEF BeginClaim, Idle, vaultVars
    <2> HIDE DEF s
    <2> QED
      BY <2>1, GotoTold DEF MarkerSeen
  <1>3. ASSUME NEW c \in Client, Abandon(c)
        PROVE  ToldInv'
    BY <1>3, FinishTold DEF Abandon, vaultVars
  <1>4. ASSUME NEW x \in late, LateEffect(x)
        PROVE  ToldInv'
    BY <1>4, LateGrows, ToldStays DEF PlaneInv, vaultVars
  <1>5. CASE \/ \E v \in Vault, r \in Record : AppendLocal(v, r)
             \/ \E r \in Others : OtherAppend(r)
             \/ UNCHANGED vars
    BY <1>5, ToldStays DEF AppendLocal, OtherAppend, vars, vaultVars
  <1> QED
    BY <1>1, <1>2, <1>3, <1>4, <1>5, SyncTold, ClaimTold DEF Next

(***************************************************************************)
(* A user is told of a claim only when the hub holds it: claim_http        *)
(* believes the pull that follows, never the answer alone.                 *)
(***************************************************************************)
THEOREM ClaimsAreHeld == Spec => []ClaimsHeld
  <1>1. Init => ToldInv
    BY DEF Init, ToldInv, ClaimsHeld, MarkerSeen, Idle
  <1>2. ToldInv => ClaimsHeld
    BY DEF ToldInv
  <1> QED
    BY <1>1, <1>2, NextTold, PlaneInvHolds, PTL DEF Spec

-----------------------------------------------------------------------------
(***************************************************************************)
(* What the hub holds and what its answers show                            *)
(***************************************************************************)

\* The complete reading of a consistent part of H.
ReadOf(rc, H) ==
  \E K \in SUBSET H :
    Consistent(K) /\ rc.members = AuthorizedRecords(K, LabelOf[rc.principal])

\* What a command submits, lies in its vault; what it was answered, was read.
Sourced(q, own, H) ==
  /\ q.pc = "submit" => q.undecided \subseteq own
  /\ q.pc \in {"pages", "expose"} => ReadOf(q.receipt, H)

CommandsSourced == \A c \in Client : Sourced(client[c], local[V(c)], hub)

JournalsSourced ==
  \A v \in Vault : journal[v] # None => journal[v].refs \subseteq local[v]

LateSourced == \A x \in late : ~x.claim => x.record \in local[x.vault]

UnionInv ==
  /\ PlaneInv
  /\ Whole(hub)
  /\ CommandsSourced
  /\ JournalsSourced
  /\ LateSourced

LEMMA SourcedGrows ==
  ASSUME NEW q, NEW own, NEW more, NEW H, NEW G, Sourced(q, own, H),
         own \subseteq more, H \subseteq G
  PROVE  Sourced(q, more, G)
  BY DEF Sourced, ReadOf

LEMMA IdleSourced == \A own, H : Sourced(Idle, own, H)
  BY DEF Sourced, Idle

\* The conjuncts a step of one command keeps, if its new state is sourced.
LEMMA SourcesKeep ==
  ASSUME UnionInv, TypeOK', NEW c \in Client, NEW s,
         \A d \in Client : client'[d] = IF d = c THEN s ELSE client[d],
         hub \subseteq hub', \A v \in Vault : local[v] \subseteq local'[v],
         \A v \in Vault : journal'[v] # None => journal'[v].refs \subseteq local'[v],
         \A x \in late' : ~x.claim => x.record \in local[x.vault],
         Sourced(s, local'[V(c)], hub')
  PROVE  CommandsSourced' /\ JournalsSourced' /\ LateSourced'
  <1>1. CommandsSourced'
    <2> SUFFICES ASSUME NEW d \in Client
                 PROVE  Sourced(client'[d], local'[V(d)], hub')
      BY DEF CommandsSourced, V
    <2>1. V(d) \in Vault
      BY ConstantsTyped
    <2>2. CASE d = c
      BY <2>2
    <2>3. CASE d # c
      BY <2>1, <2>3, SourcedGrows DEF UnionInv, CommandsSourced
    <2> QED
      BY <2>2, <2>3
  <1>2. JournalsSourced'
    BY DEF JournalsSourced
  <1>3. LateSourced'
    <2>1. \A x \in late' : x.vault \in Vault
      BY DEF TypeOK, VariablesTyped, LateType
    <2> QED
      BY <2>1 DEF LateSourced
  <1> QED
    BY <1>1, <1>2, <1>3

\* The same for steps that change no file and add no late effect.
LEMMA GotoSourced ==
  ASSUME UnionInv, TypeOK', NEW c \in Client, NEW s, Goto(c, s), hub \subseteq hub',
         UNCHANGED <<local, journal>>, late' \subseteq late,
         Sourced(s, local[V(c)], hub')
  PROVE  CommandsSourced' /\ JournalsSourced' /\ LateSourced'
  <1>1. \A d \in Client : client'[d] = IF d = c THEN s ELSE client[d]
    BY DEF Goto, UnionInv, PlaneInv, TypeOK, VariablesTyped
  <1> QED
    BY <1>1, SourcesKeep DEF UnionInv, JournalsSourced, LateSourced

LEMMA FinishSourced ==
  ASSUME UnionInv, TypeOK', NEW c \in Client, Finish(c),
         UNCHANGED <<hub, local, journal, late>>
  PROVE  CommandsSourced' /\ JournalsSourced' /\ LateSourced'
  BY IdleSourced, GotoSourced DEF Finish

-----------------------------------------------------------------------------
LEMMA JournalSourced ==
  ASSUME UnionInv, TypeOK', NEW c \in Client,
         \/ RefuseJournal(c)
         \/ ResendJournal(c)
         \/ \E B \in Batches(c) : WriteJournal(c, B)
         \/ SubmitNothing(c)
  PROVE  CommandsSourced' /\ JournalsSourced' /\ LateSourced'
  <1> DEFINE q == client[c]
  <1>0. q \in CommandType /\ V(c) \in Vault /\ journal \in [Vault -> JournalType \cup {None}]
    BY ConstantsTyped DEF UnionInv, PlaneInv, TypeOK, VariablesTyped
  <1>1. CASE RefuseJournal(c)
    BY <1>1, FinishSourced DEF RefuseJournal, End, vaultVars
  <1>2. ASSUME NEW B, B \subseteq local[V(c)]
        PROVE  \A H : Sourced(Submit(c, B), local[V(c)], H)
    BY <1>0, <1>2 DEF Sourced, Submit, CommandType
  <1>3. CASE ResendJournal(c)
    <2>1. journal[V(c)].refs \subseteq local[V(c)]
      BY <1>0, <1>3 DEF ResendJournal, UnionInv, JournalsSourced
    <2> QED
      BY <1>2, <1>3, <2>1, GotoSourced DEF ResendJournal, vaultVars
  <1>4. CASE SubmitNothing(c)
    BY <1>2, <1>4, GotoSourced DEF SubmitNothing, vaultVars
  <1>5. ASSUME NEW B \in Batches(c), WriteJournal(c, B)
        PROVE  CommandsSourced' /\ JournalsSourced' /\ LateSourced'
    <2> DEFINE s == Submit(c, B)
    <2>1. B \subseteq local[V(c)]
      BY DEF Batches
    <2>2. /\ \A d \in Client : client'[d] = IF d = c THEN s ELSE client[d]
          /\ UNCHANGED <<hub, late, local>>
      BY <1>5 DEF WriteJournal, Goto, UnionInv, PlaneInv, TypeOK, VariablesTyped
    <2>3. \A v \in Vault : journal'[v] = IF v = V(c) THEN JournalOf(c, B) ELSE journal[v]
      BY <1>0, <1>5 DEF WriteJournal
    <2>4. \A v \in Vault : journal'[v] # None => journal'[v].refs \subseteq local'[v]
      BY <2>1, <2>2, <2>3 DEF JournalOf, UnionInv, JournalsSourced
    <2>5. Sourced(s, local'[V(c)], hub')
      BY <1>2, <2>1, <2>2
    <2> HIDE DEF s
    <2> QED
      BY <2>2, <2>4, <2>5, SourcesKeep DEF UnionInv, LateSourced
  <1> QED
    BY <1>1, <1>3, <1>4, <1>5

LEMMA ExchangeSourced ==
  ASSUME UnionInv, TypeOK', NEW c \in Client,
         \/ \E r \in Record : HubDecide(c, r)
         \/ HubAnswer(c)
         \/ NextPage(c)
         \/ FinishPush(c)
         \/ RefuseApply(c)
         \/ ApplyNothing(c)
  PROVE  CommandsSourced' /\ JournalsSourced' /\ LateSourced'
  <1> USE DEF vaultVars
  <1> DEFINE q == client[c]
  <1>0. q \in CommandType /\ Sourced(q, local[V(c)], hub)
    BY DEF UnionInv, PlaneInv, TypeOK, VariablesTyped, CommandsSourced
  <1>1. ASSUME NEW r \in Record, HubDecide(c, r)
        PROVE  CommandsSourced' /\ JournalsSourced' /\ LateSourced'
    <2> DEFINE s == [q EXCEPT !.undecided = @ \ {r},
                              !.outcomes = @ \cup {Outcome(r, Decide(r, P(c)).code)}]
    <2>1. /\ q.pc = "submit" /\ Goto(c, s) /\ hub' = Decide(r, P(c)).hub
          /\ UNCHANGED <<late, local, journal>>
      BY <1>1 DEF HubDecide, At
    <2>2. hub \subseteq hub'
      BY <2>1, CodeTyped
    <2>3. Sourced(s, local[V(c)], hub')
      BY <1>0, <2>1 DEF Sourced, CommandType
    <2> HIDE DEF s
    <2> QED
      BY <2>1, <2>2, <2>3, GotoSourced
  <1>2. CASE HubAnswer(c)
    <2> DEFINE rc == [principal |-> P(c), members |-> AuthorizedRecords(hub, L(c)),
                      excluded |-> Cardinality(hub \ AuthorizedRecords(hub, L(c))),
                      outcomes |-> q.outcomes]
               s == [q EXCEPT !.pc = "pages", !.page = 1, !.outcomes = {}, !.receipt = rc]
    <2>1. Goto(c, s) /\ UNCHANGED <<hub, late, local, journal>>
      BY <1>2 DEF HubAnswer
    <2>2. rc.principal = P(c) /\ rc.members = AuthorizedRecords(hub, LabelOf[P(c)])
      BY DEF L
    <2> HIDE DEF rc
    <2>3. s.pc = "pages" /\ s.receipt = rc
      BY <1>0 DEF CommandType
    <2> HIDE DEF s
    <2>4. ReadOf(rc, hub)
      BY <2>2, WholeIsConsistent DEF ReadOf, UnionInv
    <2> QED
      BY <2>1, <2>3, <2>4, GotoSourced DEF Sourced
  <1>3. CASE NextPage(c)
    <2> DEFINE s == [q EXCEPT !.page = @ + 1]
    <2>1. Goto(c, s) /\ UNCHANGED <<hub, late, local, journal>>
      BY <1>3 DEF NextPage
    <2>2. Sourced(s, local[V(c)], hub)
      BY <1>0 DEF Sourced, CommandType
    <2> HIDE DEF s
    <2> QED
      BY <2>1, <2>2, GotoSourced
  <1>4. CASE FinishPush(c) \/ RefuseApply(c)
    BY <1>4, FinishSourced DEF FinishPush, RefuseApply, End
  <1>5. CASE ApplyNothing(c)
    <2> DEFINE s == [q EXCEPT !.pc = "unlink"]
    <2>1. Goto(c, s) /\ UNCHANGED <<hub, late, local, journal>>
      BY <1>5 DEF ApplyNothing
    <2>2. Sourced(s, local[V(c)], hub)
      BY <1>0 DEF Sourced, CommandType
    <2> HIDE DEF s
    <2> QED
      BY <2>1, <2>2, GotoSourced
  <1> QED
    BY <1>1, <1>2, <1>3, <1>4, <1>5

LEMMA ApplySourced ==
  ASSUME UnionInv, TypeOK', NEW c \in Client,
         PublishReceipt(c) \/ AdvanceMarker(c) \/ UnlinkJournal(c)
  PROVE  CommandsSourced' /\ JournalsSourced' /\ LateSourced'
  <1> DEFINE q == client[c]
  <1>0. /\ q \in CommandType /\ Sourced(q, local[V(c)], hub) /\ V(c) \in Vault
        /\ local \in [Vault -> SUBSET Record] /\ journal \in [Vault -> JournalType \cup {None}]
    BY ConstantsTyped DEF UnionInv, PlaneInv, TypeOK, VariablesTyped, CommandsSourced
  <1>1. CASE PublishReceipt(c)
    <2> DEFINE s == [q EXCEPT !.pc = "expose"]
    <2>1. Goto(c, s) /\ q.pc = "pages" /\ UNCHANGED <<hub, late, local, journal>>
      BY <1>1 DEF PublishReceipt, Applying, Complete, At
    <2>2. Sourced(s, local[V(c)], hub)
      BY <1>0, <2>1 DEF Sourced, CommandType
    <2> HIDE DEF s
    <2> QED
      BY <2>1, <2>2, GotoSourced
  <1>2. CASE AdvanceMarker(c)
    <2> DEFINE s == [q EXCEPT !.pc = "unlink"]
    <2>1. /\ \A d \in Client : client'[d] = IF d = c THEN s ELSE client[d]
          /\ UNCHANGED <<hub, late, journal>>
          /\ local' = [local EXCEPT ![V(c)] = @ \cup q.receipt.members]
      BY <1>2 DEF AdvanceMarker, Goto, UnionInv, PlaneInv, TypeOK, VariablesTyped
    <2>2. \A v \in Vault : local[v] \subseteq local'[v]
      BY <1>0, <2>1
    <2>3. Sourced(s, local'[V(c)], hub')
      BY <1>0 DEF Sourced, CommandType
    <2> HIDE DEF s
    <2>4. \A v \in Vault : journal'[v] # None => journal'[v].refs \subseteq local'[v]
      BY <2>1, <2>2 DEF UnionInv, JournalsSourced
    <2> QED
      BY <2>1, <2>2, <2>3, <2>4, SourcesKeep DEF UnionInv, LateSourced
  <1>3. CASE UnlinkJournal(c)
    <2>1. /\ UNCHANGED <<hub, late, local>>
          /\ \A v \in Vault : journal'[v] = IF v = V(c) THEN None ELSE journal[v]
      BY <1>0, <1>3 DEF UnlinkJournal
    <2>2. PICK s : /\ \A d \in Client : client'[d] = IF d = c THEN s ELSE client[d]
                   /\ s.pc \notin {"submit", "pages", "expose"}
      <3>1. CASE q.goal = "claim"
        <4> DEFINE s == AfterPull(c)
        <4>1. s.pc \in {"check", "verify"}
          BY <1>0 DEF AfterPull, CommandType
        <4>2. \A d \in Client : client'[d] = IF d = c THEN s ELSE client[d]
          BY <1>3, <3>1 DEF UnlinkJournal, Goto, UnionInv, PlaneInv, TypeOK, VariablesTyped
        <4> HIDE DEF s
        <4> QED
          BY <4>1, <4>2
      <3>2. CASE q.goal # "claim"
        <4>1. Finish(c)
          BY <1>3, <3>2 DEF UnlinkJournal
        <4>2. \A d \in Client : client'[d] = IF d = c THEN Idle ELSE client[d]
          BY <4>1, FinishTyped DEF UnionInv, PlaneInv
        <4> QED
          BY <4>2, IdleTyped
      <3> QED
        BY <3>1, <3>2
    <2>3. Sourced(s, local'[V(c)], hub')
      BY <2>2 DEF Sourced
    <2>4. \A v \in Vault : journal'[v] # None => journal'[v].refs \subseteq local'[v]
      BY <2>1 DEF UnionInv, JournalsSourced
    <2> QED
      BY <2>1, <2>2, <2>3, <2>4, SourcesKeep DEF UnionInv, LateSourced
  <1> QED
    BY <1>1, <1>2, <1>3

LEMMA ClaimSourced ==
  ASSUME UnionInv, TypeOK', NEW c \in Client, ClaimStep(c)
  PROVE  CommandsSourced' /\ JournalsSourced' /\ LateSourced'
  <1> USE DEF vaultVars
  <1> DEFINE q == client[c]
  <1>0. q \in CommandType
    BY DEF UnionInv, PlaneInv, TypeOK, VariablesTyped
  <1>1. ASSUME NEW s, Goto(c, s), s.pc \in {"journal", "claim", "pull"}, hub \subseteq hub',
               UNCHANGED <<late, local, journal>>
        PROVE  CommandsSourced' /\ JournalsSourced' /\ LateSourced'
    BY <1>1, GotoSourced DEF Sourced
  <1>2. CASE StartPull(c)
    <2> DEFINE s == [q EXCEPT !.pc = "journal", !.outcomes = {}]
    <2>1. Goto(c, s) /\ UNCHANGED <<hub, late, local, journal>>
      BY <1>2 DEF StartPull
    <2>2. s.pc = "journal"
      BY <1>0 DEF CommandType
    <2> HIDE DEF s
    <2> QED
      BY <1>1, <2>1, <2>2
  <1>3. CASE CheckTask(c)
    <2> DEFINE s == [q EXCEPT !.pc = "claim",
                     !.preclaimed = Successor(q.target) \in marker[V(c)].members]
    <2>1. Goto(c, s) /\ UNCHANGED <<hub, late, local, journal>>
      BY <1>3 DEF CheckTask
    <2>2. s.pc = "claim"
      BY <1>0 DEF CommandType
    <2> HIDE DEF s
    <2> QED
      BY <1>1, <2>1, <2>2
  <1>4. CASE HubClaim(c)
    <2> DEFINE s == [q EXCEPT !.pc = "pull", !.answer = Successor(q.target)]
    <2>1. Goto(c, s) /\ hub \subseteq hub' /\ UNCHANGED <<late, local, journal>>
      BY <1>4 DEF HubClaim
    <2>2. s.pc = "pull"
      BY <1>0 DEF CommandType
    <2> HIDE DEF s
    <2> QED
      BY <1>1, <2>1, <2>2
  <1>5. CASE PullBusy(c) \/ RefuseTask(c) \/ VerifyClaim(c)
    BY <1>5, FinishSourced DEF PullBusy, RefuseTask, VerifyClaim, End
  <1> QED
    BY <1>2, <1>3, <1>4, <1>5 DEF ClaimStep

LEMMA BeginSourced ==
  ASSUME UnionInv, TypeOK', NEW c \in Client,
         \/ \E phase \in Phases : BeginSync(c, phase)
         \/ \E o \in Open : BeginClaim(c, o)
  PROVE  CommandsSourced' /\ JournalsSourced' /\ LateSourced'
  <1> USE DEF vaultVars
  <1>1. ASSUME NEW phase \in Phases, BeginSync(c, phase)
        PROVE  CommandsSourced' /\ JournalsSourced' /\ LateSourced'
    <2> DEFINE s == [Idle EXCEPT !.pc = "journal", !.goal = phase]
    <2>1. Sourced(s, local[V(c)], hub)
      BY DEF Sourced, Idle
    <2>2. Goto(c, s) /\ UNCHANGED <<hub, late, local, journal>>
      BY <1>1 DEF BeginSync
    <2> HIDE DEF s
    <2> QED
      BY <2>1, <2>2, GotoSourced
  <1>2. ASSUME NEW o \in Open, BeginClaim(c, o)
        PROVE  CommandsSourced' /\ JournalsSourced' /\ LateSourced'
    <2> DEFINE s == [Idle EXCEPT !.pc = "pull", !.goal = "claim", !.target = o]
    <2>1. Sourced(s, local[V(c)], hub)
      BY DEF Sourced, Idle
    <2>2. Goto(c, s) /\ UNCHANGED <<hub, late, local, journal>>
      BY <1>2 DEF BeginClaim
    <2> HIDE DEF s
    <2> QED
      BY <2>1, <2>2, GotoSourced
  <1> QED
    BY <1>1, <1>2

\* What is left of a request given up was in the vault as well.
LEMMA AbandonSourced ==
  ASSUME UnionInv, TypeOK', NEW c \in Client, Abandon(c)
  PROVE  CommandsSourced' /\ JournalsSourced' /\ LateSourced'
  <1>1. /\ \A d \in Client : client'[d] = IF d = c THEN Idle ELSE client[d]
        /\ UNCHANGED <<hub, local, journal>> /\ late' = late \cup Remaining(c)
    BY FinishTyped DEF Abandon, UnionInv, PlaneInv, vaultVars
  <1>2. ASSUME NEW x \in Remaining(c), ~x.claim
        PROVE  x.record \in local[x.vault]
    <2>1. At(c, "submit")
      BY <1>2 DEF Remaining
    <2>2. PICK r \in client[c].undecided :
            x = [vault |-> V(c), principal |-> P(c), record |-> r, claim |-> FALSE]
      BY <1>2, <2>1 DEF Remaining
    <2>3. client[c].undecided \subseteq local[V(c)]
      BY <2>1 DEF UnionInv, CommandsSourced, Sourced, At
    <2> QED
      BY <2>2, <2>3
  <1>3. \A x \in late' : ~x.claim => x.record \in local[x.vault]
    BY <1>1, <1>2 DEF UnionInv, LateSourced
  <1> QED
    BY <1>1, <1>3, IdleSourced, SourcesKeep DEF UnionInv, JournalsSourced

\* Steps of users, late requests and other vaults change no command.
LEMMA OutsideSourced ==
  ASSUME UnionInv, TypeOK', hub \subseteq hub', \A v \in Vault : local[v] \subseteq local'[v],
         late' \subseteq late, UNCHANGED <<journal, client>>
  PROVE  CommandsSourced' /\ JournalsSourced' /\ LateSourced'
  <1>1. CommandsSourced'
    <2> SUFFICES ASSUME NEW d \in Client
                 PROVE  Sourced(client'[d], local'[V(d)], hub')
      BY DEF CommandsSourced, V
    <2> QED
      BY ConstantsTyped, SourcedGrows DEF UnionInv, CommandsSourced
  <1>2. JournalsSourced'
    BY DEF UnionInv, JournalsSourced
  <1>3. LateSourced'
    <2>1. \A x \in late' : x.vault \in Vault
      BY DEF TypeOK, VariablesTyped, LateType
    <2> QED
      BY <2>1 DEF UnionInv, LateSourced
  <1> QED
    BY <1>1, <1>2, <1>3

LEMMA NextSourced ==
  ASSUME UnionInv, [Next]_vars
  PROVE  CommandsSourced' /\ JournalsSourced' /\ LateSourced'
  <1>0. TypeOK'
    BY NextTyped DEF UnionInv, PlaneInv
  <1>1. ASSUME NEW v \in Vault, NEW r \in Record, AppendLocal(v, r)
        PROVE  CommandsSourced' /\ JournalsSourced' /\ LateSourced'
    <2>1. \A w \in Vault : local[w] \subseteq local'[w]
      BY <1>1 DEF AppendLocal, UnionInv, PlaneInv, TypeOK, VariablesTyped
    <2> QED
      BY <1>0, <1>1, <2>1, OutsideSourced DEF AppendLocal
  <1>2. ASSUME NEW c \in Client, SyncStep(c)
        PROVE  CommandsSourced' /\ JournalsSourced' /\ LateSourced'
    BY <1>0, <1>2, JournalSourced, ExchangeSourced, ApplySourced DEF SyncStep
  <1>3. ASSUME NEW x \in late, LateEffect(x)
        PROVE  CommandsSourced' /\ JournalsSourced' /\ LateSourced'
    BY <1>0, <1>3, LateGrows, OutsideSourced DEF UnionInv, PlaneInv, vaultVars
  <1>4. ASSUME NEW r \in Others, OtherAppend(r)
        PROVE  CommandsSourced' /\ JournalsSourced' /\ LateSourced'
    BY <1>0, <1>4, OutsideSourced DEF OtherAppend, vaultVars
  <1>5. CASE UNCHANGED vars
    BY <1>0, <1>5, OutsideSourced DEF vars, vaultVars
  <1> QED
    BY <1>0, <1>1, <1>2, <1>3, <1>4, <1>5, ClaimSourced, BeginSourced, AbandonSourced DEF Next

-----------------------------------------------------------------------------
(***************************************************************************)
(* The plane implements the union                                          *)
(***************************************************************************)
LEMMA UnionRelations ==
  /\ \A H, t : Union!Revisions(H, t) = Revisions(H, t)
  /\ \A T : Union!Genesis(T) = Genesis(T) /\ Union!Leaves(T) = Leaves(T)
  /\ \A r : Union!Successor(r) = Successor(r)
  /\ \A H, l : Union!AuthorizedRecords(H, l) = AuthorizedRecords(H, l)
  /\ \A H : Union!Consistent(H) <=> Consistent(H)
  <1>1. \A H, t : Union!Revisions(H, t) = Revisions(H, t)
    BY DEF Union!Revisions, Union!IsTask, Union!TaskKinds, Revisions, IsTask, TaskKinds
  <1>2. \A T : Union!Genesis(T) = Genesis(T) /\ Union!Leaves(T) = Leaves(T)
    BY DEF Union!Genesis, Union!Leaves, Union!Predecessor, Genesis, Leaves, Predecessor
  <1>3. \A r : Union!Successor(r) = Successor(r) /\ Union!Predecessor(r) = Predecessor(r)
    BY DEF Union!Successor, Union!Predecessor, Successor, Predecessor
  <1>4. \A H, l : Union!AuthorizedRecords(H, l) = AuthorizedRecords(H, l)
    BY DEF Union!AuthorizedRecords, Union!Authorized, Union!Declares, Union!Readable,
      AuthorizedRecords, Authorized, Declares, Readable
  <1>5. \A T : Union!ChainValid(T) <=> ChainValid(T)
    BY <1>2, <1>3 DEF Union!ChainValid, ChainValid
  <1>6. \A r, H, l : Union!ReceiptBindingValid(r, H, l) <=> ReceiptBindingValid(r, H, l)
    BY <1>1, <1>2, <1>5 DEF Union!ReceiptBindingValid, Union!Declares, Union!ReceiptAgrees,
      ReceiptBindingValid, Declares, ReceiptAgrees
  <1>7. \A H : Union!Consistent(H) <=> Consistent(H)
    BY <1>1, <1>5, <1>6 DEF Union!Consistent, Union!ChainsValid, Consistent, ChainsValid
  <1> QED
    BY <1>1, <1>2, <1>3, <1>4, <1>7

ShownView == [v \in Vault |-> Shown(marker[v])]

\* What is to be shown of each step.
UnionStep == Whole(hub') /\ [Union!Next]_(Union!vars)

LEMMA StutterIsStep ==
  ASSUME UnionInv, UNCHANGED <<hub, local, marker>>
  PROVE  UnionStep
  BY DEF UnionInv, UnionStep, Union!vars

LEMMA AdmissionIsStep ==
  ASSUME UnionInv, NEW r \in Record, NEW l, NEW p,
         r \in Others \/ \E v \in Vault : r \in local[v],
         hub' = IF SubmissionCode(r, l, p, hub) = "admitted" THEN hub \cup {r} ELSE hub,
         UNCHANGED <<local, marker>>
  PROVE  UnionStep
  <1>1. CASE SubmissionCode(r, l, p, hub) = "admitted"
    <2>1. Whole(hub \cup {r}) /\ hub' = hub \cup {r}
      BY <1>1, AdmissionKeepsWhole DEF UnionInv
    <2>2. Union!Consistent(hub \cup {r})
      BY <2>1, WholeIsConsistent, UnionRelations
    <2>3. Union!Admit(r)
      BY <2>1, <2>2 DEF Union!Admit
    <2> QED
      BY <2>1, <2>3 DEF UnionStep, Union!Next
  <1>2. CASE SubmissionCode(r, l, p, hub) # "admitted"
    BY <1>2, StutterIsStep
  <1> QED
    BY <1>1, <1>2

LEMMA ClaimIsStep ==
  ASSUME UnionInv, NEW o \in Open, NEW p, Claims(o, p), hub' = hub \cup {Successor(o)},
         UNCHANGED <<local, marker>>
  PROVE  UnionStep
  <1>1. /\ o \in Record /\ o.kind = "open"
        /\ Leaves(Revisions(hub, o.task)) \in {{o}, {Successor(o)}}
    BY DEF Open, Claims
  <1>2. Whole(hub')
    BY <1>1, ClaimKeepsWhole DEF UnionInv
  <1>3. CASE Successor(o) \in hub
    <2>1. hub' = hub
      BY <1>3
    <2> QED
      BY <2>1, StutterIsStep
  <1>4. CASE o \in Genesis(hub) /\ Leaves(Revisions(hub, o.task)) = {o}
    <2>1. o \in Union!Genesis(hub) /\ Union!Claim(o)
      BY <1>4, UnionRelations DEF Union!Claim
    <2> QED
      BY <1>2, <2>1 DEF UnionStep, Union!Next
  <1> QED
    BY <1>1, <1>3, <1>4, ClaimKeepsWhole DEF UnionInv

\* The witness is the part of the hub the answer was read from.
LEMMA AdvanceIsStep ==
  ASSUME UnionInv, NEW c \in Client, AdvanceMarker(c)
  PROVE  UnionStep
  <1> DEFINE rc == client[c].receipt
             v == V(c)
             l == LabelOf[P(c)]
  <1>1. /\ client[c].pc = "expose" /\ v \in Vault /\ l \in Label
        /\ marker' = [marker EXCEPT ![v] = rc]
        /\ local' = [local EXCEPT ![v] = @ \cup rc.members]
        /\ hub' = hub
    BY ConstantsTyped DEF AdvanceMarker, At, L
  <1>2. /\ ReadOf(rc, hub) /\ rc.principal = P(c) /\ rc # None
        /\ marker \in [Vault -> ReceiptType \cup {None}]
    BY <1>1, NoFileAssumption
    DEF UnionInv, CommandsSourced, Sourced, PlaneInv, CommandOK, Backed, TypeOK, VariablesTyped,
      CommandTyped
  <1>3. PICK K \in SUBSET hub : Consistent(K) /\ rc.members = AuthorizedRecords(K, l)
    BY <1>2 DEF ReadOf
  <1>4. Shown(rc) = [label |-> l, members |-> AuthorizedRecords(K, l)]
    BY <1>2, <1>3 DEF Shown
  <1>5. ShownView' = [ShownView EXCEPT ![v] = Shown(rc)]
    BY <1>1, <1>2 DEF ShownView, Shown
  <1> HIDE DEF rc, v, l
  <1>6. Union!Show(v, l)
    BY <1>1, <1>3, <1>4, <1>5, UnionRelations DEF Union!Show, ShownView
  <1> QED
    BY <1>1, <1>6 DEF UnionStep, Union!Next, UnionInv

LEMMA SyncIsStep ==
  ASSUME UnionInv, NEW c \in Client, SyncStep(c)
  PROVE  UnionStep
  <1>1. ASSUME NEW r \in Record, HubDecide(c, r)
        PROVE  UnionStep
    <2>1. r \in local[V(c)] /\ V(c) \in Vault
      BY <1>1, ConstantsTyped DEF HubDecide, At, UnionInv, CommandsSourced, Sourced
    <2>2. hub' = IF SubmissionCode(r, LabelOf[P(c)], P(c), hub) = "admitted"
                 THEN hub \cup {r} ELSE hub
      BY <1>1 DEF HubDecide, Decide
    <2> QED
      BY <1>1, <2>1, <2>2, AdmissionIsStep DEF HubDecide, vaultVars
  <1>2. CASE RefuseJournal(c) \/ FinishPush(c) \/ RefuseApply(c)
    BY <1>2, StutterIsStep DEF RefuseJournal, FinishPush, RefuseApply, End, vaultVars
  <1>3. CASE ResendJournal(c) \/ SubmitNothing(c) \/ \E B \in Batches(c) : WriteJournal(c, B)
    BY <1>3, StutterIsStep DEF ResendJournal, SubmitNothing, WriteJournal, vaultVars
  <1>4. CASE HubAnswer(c) \/ NextPage(c) \/ ApplyNothing(c)
    BY <1>4, StutterIsStep DEF HubAnswer, NextPage, ApplyNothing, vaultVars
  <1>5. CASE PublishReceipt(c) \/ UnlinkJournal(c)
    BY <1>5, StutterIsStep DEF PublishReceipt, UnlinkJournal
  <1> QED
    BY <1>1, <1>2, <1>3, <1>4, <1>5, AdvanceIsStep DEF SyncStep

LEMMA ClaimStepIsStep ==
  ASSUME UnionInv, NEW c \in Client, ClaimStep(c)
  PROVE  UnionStep
  <1>1. CASE HubClaim(c)
    <2>1. client[c].target \in Open
      BY <1>1 DEF HubClaim, At, UnionInv, PlaneInv, TypeOK, CommandTyped
    <2> QED
      BY <1>1, <2>1, ClaimIsStep DEF HubClaim, vaultVars
  <1>2. CASE StartPull(c) \/ PullBusy(c) \/ CheckTask(c) \/ RefuseTask(c) \/ VerifyClaim(c)
    BY <1>2, StutterIsStep DEF StartPull, PullBusy, CheckTask, RefuseTask, VerifyClaim, End,
      vaultVars
  <1> QED
    BY <1>1, <1>2 DEF ClaimStep

\* A late request is decided as it would have been in time.
LEMMA LateIsStep ==
  ASSUME UnionInv, NEW x \in late, LateEffect(x)
  PROVE  UnionStep
  <1>1. /\ x.record \in Record /\ x.vault \in Vault
        /\ x.claim => x.record \in Open
        /\ UNCHANGED <<local, marker>>
    BY DEF LateEffect, vaultVars, UnionInv, PlaneInv, TypeOK, VariablesTyped, LateType
  <1>2. CASE ~x.claim
    <2>1. hub' = IF SubmissionCode(x.record, LabelOf[x.principal], x.principal, hub)
                      = "admitted"
                 THEN hub \cup {x.record} ELSE hub
      BY <1>2 DEF LateEffect, Decide
    <2>2. x.record \in local[x.vault]
      BY <1>2 DEF UnionInv, LateSourced
    <2> QED
      BY <1>1, <2>1, <2>2, AdmissionIsStep
  <1>3. CASE x.claim /\ Claims(x.record, x.principal)
    BY <1>1, <1>3, ClaimIsStep DEF LateEffect
  <1>4. CASE x.claim /\ ~Claims(x.record, x.principal)
    BY <1>1, <1>4, StutterIsStep DEF LateEffect
  <1> QED
    BY <1>2, <1>3, <1>4

LEMMA NextIsStep ==
  ASSUME UnionInv, [Next]_vars
  PROVE  UnionStep
  <1>1. ASSUME NEW v \in Vault, NEW r \in Record, AppendLocal(v, r)
        PROVE  UnionStep
    <2>1. Union!Append(v, r) /\ hub' = hub
      BY <1>1 DEF AppendLocal, Union!Append
    <2> QED
      BY <2>1 DEF UnionStep, Union!Next, UnionInv
  <1>2. ASSUME NEW c \in Client,
               \/ \E phase \in Phases : BeginSync(c, phase)
               \/ \E o \in Open : BeginClaim(c, o)
               \/ Abandon(c)
        PROVE  UnionStep
    BY <1>2, StutterIsStep DEF BeginSync, BeginClaim, Abandon, vaultVars
  <1>3. ASSUME NEW r \in Others, OtherAppend(r)
        PROVE  UnionStep
    BY <1>3, HttpAssumption, AdmissionIsStep DEF OtherAppend, vaultVars
  <1>4. CASE UNCHANGED vars
    BY <1>4, StutterIsStep DEF vars, vaultVars
  <1> QED
    BY <1>1, <1>2, <1>3, <1>4, SyncIsStep, ClaimStepIsStep, LateIsStep DEF Next

LEMMA InitUnion == Init => UnionInv /\ Union!Init
  <1> SUFFICES ASSUME Init PROVE UnionInv /\ Union!Init
    OBVIOUS
  <1>1. CommandsSourced
    BY IdleSourced DEF Init, CommandsSourced
  <1>2. Whole(hub)
    BY DEF Init, Whole, HistoryOK, Revisions
  <1>3. Union!Init
    BY DEF Init, Union!Init, Shown
  <1> QED
    BY <1>1, <1>2, <1>3, InitInv DEF Init, UnionInv, JournalsSourced, LateSourced

LEMMA NextUnion ==
  ASSUME UnionInv, [Next]_vars
  PROVE  UnionInv'
  BY NextKeeps, NextSourced, NextIsStep DEF UnionInv, UnionStep

LEMMA UnionInvHolds == Spec => []UnionInv
  BY InitUnion, NextUnion, PTL DEF Spec

(***************************************************************************)
(* What a hub answers passes _validate_pull_record_relationships whenever  *)
(* its last page comes: sync-record-history-invalid is unreachable.        *)
(***************************************************************************)
THEOREM AnswersStayVerifiable == Spec => []AnswersVerify
  <1>1. UnionInv => AnswersVerify
    <2> SUFFICES ASSUME UnionInv, NEW c \in Client, At(c, "pages")
                 PROVE  PullRelationsValid(client[c].receipt.members)
      BY DEF AnswersVerify
    <2>1. ReadOf(client[c].receipt, hub) /\ hub \subseteq Record
      BY DEF At, UnionInv, CommandsSourced, Sourced, PlaneInv, TypeOK, VariablesTyped
    <2> QED
      BY <2>1, ReadingVerifies DEF ReadOf
  <1> QED
    BY <1>1, UnionInvHolds, PTL

(***************************************************************************)
(* The HTTP client, a hub that decides what reaches it in time or late,    *)
(* and the hub's other vaults implement the union that the local plane     *)
(* implements: every step admits one record that keeps the hub consistent, *)
(* claims a leaf, appends one record, shows and stores a complete reading  *)
(* of a consistent part of the hub, or changes none of these.              *)
(***************************************************************************)
THEOREM HttpImplementsUnion == Spec => ImplementsUnion
  <1>1. UnionInv /\ [Next]_vars => [Union!Next]_(Union!vars)
    BY NextIsStep DEF UnionStep
  <1> QED
    BY <1>1, InitUnion, UnionInvHolds, PTL DEF Spec, ImplementsUnion, Union!Spec
=============================================================================
