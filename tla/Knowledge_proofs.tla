--------------------------- MODULE Knowledge_proofs ---------------------------
(***************************************************************************)
(* Proofs about what knowledge passes through: Exchange, Revocation,       *)
(* Evolution, Projection, Context and Kickoff, for any number of           *)
(* receivers, processes, recipients, envelopes, records, candidates,       *)
(* publishers, readers and links; and about Knowledge, which composes      *)
(* them.                                                                   *)
(*                                                                         *)
(* The arguments.                                                          *)
(*                                                                         *)
(* Exchange.  The ledger inserts a reference once, so one receiver at most *)
(* is between its claim and its answer, and while one is, or while the     *)
(* reference is free, nothing was decided.  What an answer accepts is      *)
(* computed from the envelope, and from the local revisions as they were   *)
(* when the call began.  The independent reader's loop is shown to compute *)
(* what the reference's set expressions say of the bundle.                 *)
(*                                                                         *)
(* Revocation.  A retained receipt is never replaced, and a process that   *)
(* answers from the ledger carries the retained receipt or one the ledger  *)
(* has yet to see.                                                         *)
(*                                                                         *)
(* Evolution.  An accepted candidate is seen, and what it superseded stays *)
(* superseded, so neither is taken twice.                                  *)
(*                                                                         *)
(* Projection.  A publication another one disturbed knows it, so what an   *)
(* undisturbed one replaced is still there when it ends; an alteration in  *)
(* place changes no digest, and the gate lets no altered index answer.     *)
(*                                                                         *)
(* Context.  An export raised no objection, and every objection of the     *)
(* independent reader to such a pack was one of the export; the verdicts   *)
(* part the records, so the counts and the selection add up.               *)
(*                                                                         *)
(* Kickoff.  An answer that verifies holds the pairs its receipt names,    *)
(* which are those the hub showed, whatever became of its pages; the       *)
(* projection lock keeps the marker while a pack is open, and among        *)
(* finitely many numbers one is highest.                                   *)
(*                                                                         *)
(* Knowledge.  A behaviour that has chosen a part is a behaviour of that   *)
(* part, because the others rest.                                          *)
(***************************************************************************)
EXTENDS Knowledge, FiniteSetTheorems, SequenceTheorems, WellFoundedInduction, TLAPS

-----------------------------------------------------------------------------
(***************************************************************************)
(* Exchange: the inductive invariant                                       *)
(***************************************************************************)
Undecided == \A i \in DOMAIN receipts : ~Decided(i)

\* The ledger's reference is what a claiming receiver holds.
ClaimHeld ==
  /\ ~claimed => Undecided /\ \A w \in Receiver : receiver[w].pc = "idle"
  /\ \A w \in Receiver : receiver[w].pc = "claimed" =>
       /\ Undecided
       /\ \A v \in Receiver : v # w => receiver[v].pc = "idle"

ExchangeInv == TypeOK /\ ClaimHeld /\ DecidedOnce /\ ReceiptsHonest

-----------------------------------------------------------------------------
(***************************************************************************)
(* Receipts                                                                *)
(***************************************************************************)

\* The least of a few positions is one of them.
LEMMA FirstIsOne ==
  ASSUME NEW found \in SUBSET (1 .. 5), found # {}
  PROVE  Min(found) \in found
  <1>0. \A x \in found : x \in {1, 2, 3, 4, 5}
    OBVIOUS
  <1>1. \E x \in found : \A y \in found : x <= y
    <2>1. CASE 1 \in found
      BY <1>0, <2>1
    <2>2. CASE 1 \notin found /\ 2 \in found
      BY <1>0, <2>2
    <2>3. CASE {1, 2} \cap found = {} /\ 3 \in found
      BY <1>0, <2>3
    <2>4. CASE {1, 2, 3} \cap found = {} /\ 4 \in found
      BY <1>0, <2>4
    <2>5. CASE {1, 2, 3, 4} \cap found = {}
      <3>1. found = {5}
        BY <1>0, <2>5
      <3> QED
        BY <3>1
    <2> QED
      BY <2>1, <2>2, <2>3, <2>4, <2>5
  <1> QED
    BY <1>1 DEF Min

\* A fault found is one of those the reader looks for.
LEMMA FirstFault ==
  ASSUME NEW faults, First(ReferenceOrder, faults) # <<>>
  PROVE  First(ReferenceOrder, faults)[1] \in {"bundle-id", "audience", "protected", "extension", "expiry"}
  <1> DEFINE found == {i \in DOMAIN ReferenceOrder : ReferenceOrder[i] \in faults}
  <1>1. DOMAIN ReferenceOrder = 1 .. 5
    BY DEF ReferenceOrder
  <1>2. found # {} /\ First(ReferenceOrder, faults) = <<ReferenceOrder[Min(found)]>>
    BY DEF First
  <1>3. Min(found) \in 1 .. 5
    BY <1>1, <1>2, FirstIsOne
  <1> QED
    BY <1>2, <1>3 DEF ReferenceOrder

\* A damaged copy is refused with a code of its own.
LEMMA FirstCopyFault ==
  ASSUME NEW faults \in SUBSET {"uncanonical", "schema", "identity"}, faults # {}
  PROVE  First(CopyFaults, faults)[1] \in {"uncanonical", "schema", "identity"}
  <1> DEFINE found == {i \in DOMAIN CopyFaults : CopyFaults[i] \in faults}
  <1>1. DOMAIN CopyFaults = 1 .. 3
    BY DEF CopyFaults
  <1>2. found # {}
    <2>1. /\ 1 \in DOMAIN CopyFaults /\ CopyFaults[1] = "uncanonical"
          /\ 2 \in DOMAIN CopyFaults /\ CopyFaults[2] = "schema"
          /\ 3 \in DOMAIN CopyFaults /\ CopyFaults[3] = "identity"
      BY DEF CopyFaults
    <2> QED
      BY <2>1
  <1>3. Min(found) \in 1 .. 3
    BY <1>1, <1>2, FirstIsOne
  <1>4. First(CopyFaults, faults) = <<CopyFaults[Min(found)]>>
    BY <1>2 DEF First
  <1> QED
    BY <1>3, <1>4 DEF CopyFaults

LEMMA RefusalTyped ==
  ASSUME NEW e, NEW outcome \in Outcomes, NEW code \in Codes
  PROVE  Refusal(outcome, code) \in ReceiptType(e)
  BY DEF Refusal, Receipt, ReceiptType

LEMMA BundledDeclared ==
  ASSUME NEW e
  PROVE  BundledIds(e) \subseteq DeclaredIds(e)
  <1> SUFFICES ASSUME NEW i \in Bundled(e)
               PROVE  e.bundle[i].record \in DeclaredIds(e)
    BY DEF BundledIds
  <1>1. <<e.bundle[i].record, e.bundle[i].revision>> \in e.records
    BY DEF Bundled, Matches
  <1> QED
    BY <1>1 DEF DeclaredIds

LEMMA LocalDeclared ==
  ASSUME NEW e, NEW held
  PROVE  LocalIds(e, held) \subseteq DeclaredIds(e)
  BY DEF LocalIds, DeclaredIds

LEMMA ResolutionTyped ==
  ASSUME NEW e, NEW accepted \in SUBSET DeclaredIds(e)
  PROVE  Resolution(e, accepted) \in ReceiptType(e)
  <1>1. DeclaredIds(e) \subseteq Ids(e)
    BY DEF Ids
  <1> QED
    BY <1>1, RefusalTyped DEF Resolution, Receipt, ReceiptType, Outcomes, Codes

LEMMA ContradictoryKnown ==
  ASSUME NEW e
  PROVE  Contradictory(e) \subseteq Ids(e)
  BY DEF Contradictory, Ids, DeclaredIds

LEMMA VerdictTyped ==
  ASSUME NEW e, NEW held, NEW t, NEW caller \in CallerFault
  PROVE  Verdict(e, held, t, caller) \in ReceiptType(e)
  <1> DEFINE fault == First(ReferenceOrder, FaultsAt(e, t))
             accepted == BundledIds(e) \cup LocalIds(e, held)
  <1>1. fault # <<>> => FaultRefusal(fault[1]) \in ReceiptType(e)
    BY FirstFault, RefusalTyped DEF FaultRefusal, Outcomes, Codes
  <1>2. ConflictRefusal(e) \in ReceiptType(e)
    BY ContradictoryKnown DEF ConflictRefusal, ConflictCode, Receipt, ReceiptType, Ids, Outcomes, Codes
  <1>3. Receipt("quarantined", "availability-metadata-invalid", {}, DeclaredIds(e)) \in ReceiptType(e)
    BY DEF Receipt, ReceiptType, Ids, Outcomes, Codes
  <1>4. Resolution(e, accepted) \in ReceiptType(e)
    BY BundledDeclared, LocalDeclared, ResolutionTyped
  <1>5. /\ Refusal("unsupported", "schema-unsupported") \in ReceiptType(e)
        /\ Refusal("quarantined", "record-schema-negotiation-invalid") \in ReceiptType(e)
    BY RefusalTyped DEF Outcomes, Codes
  <1> QED
    BY <1>1, <1>2, <1>3, <1>4, <1>5 DEF Verdict

\* What a verdict accepts was declared, and bundled or held within the handling.
LEMMA VerdictHonest ==
  ASSUME NEW e, NEW held \in Stock, NEW t, NEW caller \in CallerFault,
         Verdict(e, held, t, caller).outcome \in Accepting
  PROVE  LET r == Verdict(e, held, t, caller)
         IN /\ r.accepted \cap r.unresolved = {}
            /\ r.accepted \cup r.unresolved = DeclaredIds(e)
            /\ \A id \in r.accepted : Genuine(e, id)
  <1> DEFINE accepted == BundledIds(e) \cup LocalIds(e, held)
  <1>1. Verdict(e, held, t, caller) = Resolution(e, accepted)
    BY DEF Verdict, FaultRefusal, ConflictRefusal, Refusal, Receipt, Accepting
  <1>2. accepted \subseteq DeclaredIds(e)
    BY BundledDeclared, LocalDeclared
  <1>3. /\ Resolution(e, accepted).accepted = accepted
        /\ Resolution(e, accepted).unresolved = DeclaredIds(e) \ accepted
    BY <1>1, <1>2 DEF Resolution, Refusal, Receipt, Accepting
  <1>4. ASSUME NEW id \in BundledIds(e)
        PROVE  Genuine(e, id)
    <2>1. PICK i \in Bundled(e) : e.bundle[i].record = id
      BY DEF BundledIds
    <2>2. /\ i \in DOMAIN e.bundle /\ e.bundle[i].valid /\ e.bundle[i].rank <= e.handling
          /\ <<e.bundle[i].record, e.bundle[i].revision>> \in e.records
      BY DEF Bundled, Matches, WithinHandling
    <2> DEFINE d == <<e.bundle[i].record, e.bundle[i].revision>>
    <2>3. d \in e.records /\ d[1] = id /\ e.bundle[i].revision = d[2]
      BY <2>1, <2>2
    <2> QED
      BY <2>1, <2>2, <2>3 DEF Genuine
  <1>5. ASSUME NEW id \in LocalIds(e, held)
        PROVE  Genuine(e, id)
    <2>1. PICK d \in e.records : d[1] = id /\ \E h \in held : h[1] = d /\ WithinHandling(e, h[2])
      BY DEF LocalIds
    <2> QED
      BY <2>1 DEF Genuine, WithinHandling
  <1> QED
    BY <1>1, <1>2, <1>3, <1>4, <1>5

-----------------------------------------------------------------------------
(***************************************************************************)
(* The invariant holds                                                     *)
(***************************************************************************)
LEMMA InitExchange == Init => ExchangeInv
  <1> SUFFICES ASSUME Init PROVE ExchangeInv
    OBVIOUS
  <1>1. TypeOK
    <2>1. Idle \in CallType
      BY DEF CallType, Idle, CallerFault
    <2>2. receipts \in Seq(ReceiptType(envelope))
      BY DEF Init
    <2>3. now \in 0 .. MaxTime
      BY ExchangeAssumption DEF Init
    <2> QED
      BY <2>1, <2>2, <2>3 DEF Init, TypeOK
  <1>2. \A i \in DOMAIN receipts : FALSE
    BY DEF Init
  <1>3. \A w \in Receiver : receiver[w].pc = "idle"
    BY DEF Init, Idle
  <1> QED
    BY <1>1, <1>2, <1>3 DEF ExchangeInv, ClaimHeld, Undecided, DecidedOnce, ReceiptsHonest

\* What one more answer does to the history.
LEMMA OneMore ==
  ASSUME TypeOK, NEW r \in ReceiptType(envelope), Answer(r), envelope' = envelope
  PROVE  /\ receipts' \in Seq(ReceiptType(envelope))
         /\ DOMAIN receipts' = 1 .. Len(receipts) + 1
         /\ DOMAIN receipts = 1 .. Len(receipts)
         /\ \A i \in DOMAIN receipts : receipts'[i] = receipts[i]
         /\ receipts'[Len(receipts) + 1] = r
         /\ Len(receipts) \in Nat
  BY DEF TypeOK, Answer

\* An answer that decides nothing and accepts nothing, given by anybody.
LEMMA RefusalKeeps ==
  ASSUME ExchangeInv, NEW r \in ReceiptType(envelope), Answer(r),
         r.code \in BeforeClaim \cup {"replay"}, r.outcome \notin Accepting,
         claimed' \in BOOLEAN, claimed => claimed',
         UNCHANGED <<envelope, stock, now, receiver>>
  PROVE  ExchangeInv'
  <1>1. TypeOK /\ ClaimHeld /\ DecidedOnce /\ ReceiptsHonest
    BY DEF ExchangeInv
  <1> DEFINE n == Len(receipts)
  <1>2. /\ receipts' \in Seq(ReceiptType(envelope))
        /\ DOMAIN receipts' = 1 .. n + 1 /\ DOMAIN receipts = 1 .. n /\ n \in Nat
        /\ \A i \in DOMAIN receipts : receipts'[i] = receipts[i]
        /\ receipts'[n + 1] = r
    BY <1>1, OneMore
  <1>3. TypeOK'
    BY <1>1, <1>2 DEF TypeOK
  <1> HIDE DEF n
  <1>4. \A i \in DOMAIN receipts' : i \in DOMAIN receipts \/ i = n + 1
    BY <1>2
  <1>5. /\ \A i \in DOMAIN receipts : Decided(i)' <=> Decided(i)
        /\ \A i \in DOMAIN receipts' : i = n + 1 => ~Decided(i)'
    BY <1>2 DEF Decided
  <1>6. ClaimHeld'
    BY <1>1, <1>4, <1>5 DEF ClaimHeld, Undecided
  <1>7. DecidedOnce'
    BY <1>1, <1>2, <1>4, <1>5 DEF DecidedOnce
  <1>8. ReceiptsHonest'
    BY <1>1, <1>2, <1>4 DEF ReceiptsHonest
  <1> QED
    BY <1>3, <1>6, <1>7, <1>8 DEF ExchangeInv

\* A call that gives up its claim, or takes one, without an answer.
LEMMA CallKeeps ==
  ASSUME ExchangeInv, NEW w \in Receiver, NEW s \in CallType,
         receiver' = [receiver EXCEPT ![w] = s],
         claimed' \in BOOLEAN, claimed => claimed',
         s.pc = "claimed" => Undecided /\ claimed' /\ \A v \in Receiver : receiver[v].pc = "idle",
         UNCHANGED <<envelope, stock, now, receipts>>
  PROVE  ExchangeInv'
  <1>1. TypeOK /\ ClaimHeld /\ DecidedOnce /\ ReceiptsHonest
    BY DEF ExchangeInv
  <1>2. \A v \in Receiver : receiver'[v] = IF v = w THEN s ELSE receiver[v]
    BY <1>1 DEF TypeOK
  <1>3. TypeOK'
    BY <1>1 DEF TypeOK
  <1>4. (Undecided <=> Undecided') /\ (DecidedOnce <=> DecidedOnce') /\ (ReceiptsHonest <=> ReceiptsHonest')
    BY DEF Undecided, DecidedOnce, Decided, ReceiptsHonest
  <1>5. s.pc \in {"idle", "claimed"}
    BY DEF CallType, Idle
  <1>6. ClaimHeld'
    <2>1. ~claimed' => Undecided' /\ \A v \in Receiver : receiver'[v].pc = "idle"
      BY <1>1, <1>2, <1>4, <1>5 DEF ClaimHeld
    <2>2. ASSUME NEW v \in Receiver, receiver'[v].pc = "claimed"
          PROVE  Undecided' /\ \A u \in Receiver : u # v => receiver'[u].pc = "idle"
      <3>1. CASE v = w
        BY <1>2, <1>4, <2>2, <3>1
      <3>2. CASE v # w
        BY <1>1, <1>2, <1>4, <1>5, <2>2, <3>2 DEF ClaimHeld
      <3> QED
        BY <3>1, <3>2
    <2> QED
      BY <2>1, <2>2 DEF ClaimHeld
  <1> QED
    BY <1>1, <1>3, <1>4, <1>6 DEF ExchangeInv

\* The one decision of an envelope.
LEMMA DecideKeeps ==
  ASSUME ExchangeInv, NEW w \in Receiver, Decide(w)
  PROVE  ExchangeInv'
  <1>1. TypeOK /\ ClaimHeld /\ DecidedOnce /\ ReceiptsHonest
    BY DEF ExchangeInv
  <1> DEFINE n == Len(receipts)
             r == Verdict(envelope, receiver[w].held, now, receiver[w].caller)
  <1>2. /\ receiver[w].held \in Stock /\ receiver[w].caller \in CallerFault
        /\ receiver[w].pc = "claimed"
    BY <1>1 DEF TypeOK, CallType, Idle, Decide
  <1>3. /\ Answer(r) /\ receiver' = [receiver EXCEPT ![w] = Idle]
        /\ UNCHANGED <<envelope, stock, claimed, now>>
    BY DEF Decide
  <1>4. r \in ReceiptType(envelope)
    BY <1>2, VerdictTyped
  <1>5. /\ receipts' \in Seq(ReceiptType(envelope))
        /\ DOMAIN receipts' = 1 .. n + 1 /\ DOMAIN receipts = 1 .. n /\ n \in Nat
        /\ \A i \in DOMAIN receipts : receipts'[i] = receipts[i]
        /\ receipts'[n + 1] = r
    BY <1>1, <1>3, <1>4, OneMore
  <1>6. r.outcome \in Accepting =>
          /\ r.accepted \cap r.unresolved = {}
          /\ r.accepted \cup r.unresolved = DeclaredIds(envelope)
          /\ \A id \in r.accepted : Genuine(envelope, id)
    BY <1>2, VerdictHonest
  <1> HIDE DEF r, n
  <1>7. \A i \in DOMAIN receipts' : i \in DOMAIN receipts \/ i = n + 1
    BY <1>5
  <1>8. Idle \in CallType /\ Idle.pc = "idle"
    BY DEF CallType, Idle, CallerFault
  <1>9. TypeOK'
    BY <1>1, <1>3, <1>5, <1>8 DEF TypeOK
  <1>10. /\ \A i \in DOMAIN receipts : ~Decided(i)
         /\ claimed
         /\ \A v \in Receiver : v # w => receiver[v].pc = "idle"
    BY <1>1, <1>2 DEF ClaimHeld, Undecided, TypeOK
  <1>11. \A i \in DOMAIN receipts : ~Decided(i)'
    BY <1>5, <1>10 DEF Decided
  <1>12. \A v \in Receiver : receiver'[v].pc = "idle"
    BY <1>1, <1>3, <1>8, <1>10 DEF TypeOK
  <1>13. ClaimHeld'
    BY <1>3, <1>10, <1>12 DEF ClaimHeld
  <1>14. DecidedOnce'
    BY <1>5, <1>7, <1>11 DEF DecidedOnce
  <1>15. ReceiptsHonest'
    BY <1>1, <1>3, <1>5, <1>6, <1>7 DEF ReceiptsHonest
  <1> QED
    BY <1>9, <1>13, <1>14, <1>15 DEF ExchangeInv

LEMMA NextExchange == ExchangeInv /\ [Next]_vars => ExchangeInv'
  <1> SUFFICES ASSUME ExchangeInv, [Next]_vars PROVE ExchangeInv'
    OBVIOUS
  <1>1. TypeOK /\ ClaimHeld
    BY DEF ExchangeInv
  <1>2. ASSUME NEW w \in Receiver, RefuseCopy(w)
        PROVE  ExchangeInv'
    <2>1. PICK faults \in (SUBSET {"uncanonical", "schema", "identity"}) \ {{}} :
            Answer(Refusal("rejected", First(CopyFaults, faults)[1]))
      BY <1>2 DEF RefuseCopy
    <2> DEFINE code == First(CopyFaults, faults)[1]
    <2>2. code \in {"uncanonical", "schema", "identity"}
      BY FirstCopyFault
    <2> HIDE DEF code
    <2>3. Refusal("rejected", code) \in ReceiptType(envelope)
      BY <2>2, RefusalTyped DEF Outcomes, Codes, BeforeClaim
    <2>4. UNCHANGED <<envelope, stock, claimed, now, receiver>>
      BY <1>2 DEF RefuseCopy
    <2> QED
      BY <1>1, <2>1, <2>2, <2>3, <2>4, RefusalKeeps
      DEF code, Refusal, Receipt, BeforeClaim, Accepting, TypeOK
  <1>3. ASSUME NEW w \in Receiver, LedgerFails(w)
        PROVE  ExchangeInv'
    <2>1. Refusal("quarantined", "replay-ledger-unavailable") \in ReceiptType(envelope)
      BY RefusalTyped DEF Outcomes, Codes, BeforeClaim
    <2>2. claimed' \in BOOLEAN /\ (claimed => claimed')
      <3>1. claimed' = claimed \/ claimed' = TRUE
        BY <1>3 DEF LedgerFails
      <3>2. claimed \in BOOLEAN
        BY <1>1 DEF TypeOK
      <3>3. CASE claimed' = claimed
        BY <3>2, <3>3
      <3>4. CASE claimed' = TRUE
        BY <3>4
      <3> QED
        BY <3>1, <3>3, <3>4
    <2> QED
      BY <1>3, <2>1, <2>2, RefusalKeeps
      DEF LedgerFails, Refusal, Receipt, BeforeClaim, Accepting
  <1>4. ASSUME NEW w \in Receiver, Duplicate(w)
        PROVE  ExchangeInv'
    <2>1. Refusal("duplicate", "replay") \in ReceiptType(envelope)
      BY RefusalTyped DEF Outcomes, Codes
    <2> QED
      BY <1>1, <1>4, <2>1, RefusalKeeps DEF Duplicate, Refusal, Receipt, Accepting, TypeOK
  <1>5. ASSUME NEW w \in Receiver, Claim(w)
        PROVE  ExchangeInv'
    <2>1. PICK caller \in CallerFault :
            receiver' = [receiver EXCEPT ![w] = [pc |-> "claimed", held |-> stock, caller |-> caller]]
      BY <1>5 DEF Claim
    <2>2. [pc |-> "claimed", held |-> stock, caller |-> caller] \in CallType
      BY <1>1 DEF CallType, TypeOK
    <2>3. Undecided /\ \A v \in Receiver : receiver[v].pc = "idle"
      BY <1>1, <1>5 DEF Claim, Unclaimed, ClaimHeld
    <2> QED
      BY <1>5, <2>1, <2>2, <2>3, CallKeeps DEF Claim
  <1>6. ASSUME NEW w \in Receiver, Crash(w)
        PROVE  ExchangeInv'
    <2>1. Idle \in CallType /\ Idle.pc # "claimed"
      BY DEF CallType, Idle, CallerFault
    <2> QED
      BY <1>1, <1>6, <2>1, CallKeeps DEF Crash, TypeOK
  <1>7. ASSUME Tick \/ Restock \/ UNCHANGED vars
        PROVE  ExchangeInv'
    <2>1. UNCHANGED <<envelope, claimed, receiver, receipts>>
      BY <1>7 DEF Tick, Restock, vars
    <2>2. stock' \in Stock /\ now' \in 0 .. MaxTime
      BY <1>1, <1>7, ExchangeAssumption DEF Tick, Restock, vars, TypeOK
    <2>3. TypeOK'
      BY <1>1, <2>1, <2>2 DEF TypeOK
    <2>4. (ClaimHeld /\ DecidedOnce /\ ReceiptsHonest)'
      BY <2>1 DEF ExchangeInv, ClaimHeld, Undecided, DecidedOnce, Decided, ReceiptsHonest
    <2> QED
      BY <2>3, <2>4 DEF ExchangeInv
  <1> QED
    BY <1>2, <1>3, <1>4, <1>5, <1>6, <1>7, DecideKeeps DEF Next

THEOREM ExchangeInvHolds == Spec => []ExchangeInv
  BY InitExchange, NextExchange, PTL DEF Spec

-----------------------------------------------------------------------------
(***************************************************************************)
(* Exchange: the independent reader                                        *)
(*                                                                         *)
(* The reader's loop is a recursive function.  Every function that         *)
(* satisfies its recursion agrees with what the first n records of the     *)
(* bundle amount to: a least position where it did not would follow one    *)
(* where it did.                                                           *)
(***************************************************************************)

\* A set of naturals that is not empty has a least element.
LEMMA LeastExists ==
  ASSUME NEW S \in SUBSET Nat, S # {}
  PROVE  \E n \in S : \A m \in S : n <= m
  <1> DEFINE Less == {pair \in Nat \X Nat : pair[1] < pair[2]}
  <1>1. IsWellFoundedOn(Less, Nat)
    BY NatLessThanWellFounded DEF OpToRel
  <1>2. \E n \in S : \A m \in S : ~ (<<m, n>> \in Less)
    <2> HIDE DEF Less
    <2> QED
      BY <1>1, WFMin
  <1>3. \A m, n \in S : m \in Nat /\ n \in Nat /\ (<<m, n>> \in Less <=> m < n)
    OBVIOUS
  <1>4. \A m, n \in S : <<m, n>> \notin Less => n <= m
    BY <1>3, SMT
  <1> QED
    BY <1>2, <1>4

\* The bundle is a sequence of records.
LEMMA BundleItems ==
  ASSUME NEW e \in Envelope
  PROVE  /\ Len(e.bundle) \in Nat /\ DOMAIN e.bundle = 1 .. Len(e.bundle)
         /\ \A i \in 1 .. Len(e.bundle) :
              e.bundle[i].valid \in BOOLEAN /\ e.bundle[i].rank \in Nat
         /\ e.handling \in Nat
  BY EnvelopeAssumption, LenProperties

\* What the first n records of a bundle amount to.
Repeated(e, i) == \E y \in Bundled(e) : y < i /\ e.bundle[y].record = e.bundle[i].record

BundledUpTo(e, n) == {e.bundle[i].record : i \in {j \in Bundled(e) : j <= n}}

InvalidUpTo(e, n) == {e.bundle[i].record : i \in {j \in 1 .. n : ~e.bundle[j].valid}}

ConflictUpTo(e, n) ==
  \E i \in 1 .. n : Matches(e, i) /\ ~Repeated(e, i) /\ e.bundle[i].rank > e.handling

ContradictoryUpTo(e, n) ==
  Unseen(e).contradictory
    \cup {e.bundle[i].record : i \in {j \in 1 .. n : ~Matches(e, j) \/ Repeated(e, j)}}

SeenUpTo(e, n) ==
  [bundled |-> BundledUpTo(e, n), invalid |-> InvalidUpTo(e, n),
   conflict |-> ConflictUpTo(e, n), contradictory |-> ContradictoryUpTo(e, n)]

LEMMA NothingSeen ==
  ASSUME NEW e \in Envelope
  PROVE  SeenUpTo(e, 0) = Unseen(e)
  <1>1. \A i \in Bundled(e) : i \in Nat /\ i >= 1
    BY BundleItems DEF Bundled
  <1>2. BundledUpTo(e, 0) = {}
    BY <1>1 DEF BundledUpTo
  <1>3. InvalidUpTo(e, 0) = {} /\ ConflictUpTo(e, 0) = FALSE
    BY DEF InvalidUpTo, ConflictUpTo
  <1>4. ContradictoryUpTo(e, 0) = Unseen(e).contradictory
    BY DEF ContradictoryUpTo
  <1> QED
    BY <1>2, <1>3, <1>4 DEF SeenUpTo, Unseen

LEMMA OneMoreSeen ==
  ASSUME NEW e \in Envelope, NEW n \in 1 .. Len(e.bundle)
  PROVE  SeenUpTo(e, n) = LookAt(e, SeenUpTo(e, n - 1), e.bundle[n])
  <1> DEFINE item == e.bundle[n]
             before == SeenUpTo(e, n - 1)
  <1>1. /\ Len(e.bundle) \in Nat /\ DOMAIN e.bundle = 1 .. Len(e.bundle) /\ n \in Nat
        /\ item.valid \in BOOLEAN /\ item.rank \in Nat /\ e.handling \in Nat
    BY BundleItems
  <1>2. /\ \A j \in Nat : j <= n <=> j <= n - 1 \/ j = n
        /\ \A j \in Nat : j < n <=> j <= n - 1
        /\ \A j : j \in 1 .. n <=> j \in 1 .. n - 1 \/ j = n
    BY <1>1
  <1>3. \A i \in Bundled(e) : i \in Nat
    BY <1>1 DEF Bundled
  <1>4. Matches(e, n) <=> item.valid /\ <<item.record, item.revision>> \in e.records
    BY DEF Matches
  <1>5. Repeated(e, n) <=> item.record \in before.bundled
    BY <1>2, <1>3 DEF Repeated, BundledUpTo, SeenUpTo
  <1>6. n \in Bundled(e) <=> Matches(e, n) /\ item.rank <= e.handling
    BY <1>1 DEF Bundled, WithinHandling
  <1>7. BundledUpTo(e, n) =
          IF n \in Bundled(e) THEN BundledUpTo(e, n - 1) \cup {item.record}
          ELSE BundledUpTo(e, n - 1)
    BY <1>1, <1>2, <1>3 DEF BundledUpTo
  <1>8. InvalidUpTo(e, n) = IF item.valid THEN InvalidUpTo(e, n - 1)
                            ELSE InvalidUpTo(e, n - 1) \cup {item.record}
    BY <1>1, <1>2 DEF InvalidUpTo
  <1>9. ContradictoryUpTo(e, n) =
          IF ~Matches(e, n) \/ Repeated(e, n)
            THEN ContradictoryUpTo(e, n - 1) \cup {item.record}
            ELSE ContradictoryUpTo(e, n - 1)
    BY <1>1, <1>2 DEF ContradictoryUpTo
  <1>10. ConflictUpTo(e, n) <=>
           ConflictUpTo(e, n - 1)
             \/ (Matches(e, n) /\ ~Repeated(e, n) /\ item.rank > e.handling)
    BY <1>1, <1>2 DEF ConflictUpTo
  <1>11. ConflictUpTo(e, n) \in BOOLEAN /\ ConflictUpTo(e, n - 1) \in BOOLEAN
    BY DEF ConflictUpTo
  <1> DEFINE refused == ~item.valid \/ item.record \in before.bundled
                          \/ <<item.record, item.revision>> \notin e.records
  <1>12. refused <=> ~Matches(e, n) \/ Repeated(e, n)
    BY <1>4, <1>5
  <1>13. CASE refused
    <2>1. LookAt(e, before, item) =
            [bundled |-> BundledUpTo(e, n - 1),
             invalid |-> IF item.valid THEN InvalidUpTo(e, n - 1)
                         ELSE InvalidUpTo(e, n - 1) \cup {item.record},
             conflict |-> ConflictUpTo(e, n - 1),
             contradictory |-> ContradictoryUpTo(e, n - 1) \cup {item.record}]
      BY <1>13 DEF LookAt, SeenUpTo
    <2>2. BundledUpTo(e, n) = BundledUpTo(e, n - 1)
      BY <1>5, <1>6, <1>7, <1>12, <1>13 DEF SeenUpTo
    <2>3. ContradictoryUpTo(e, n) = ContradictoryUpTo(e, n - 1) \cup {item.record}
      BY <1>9, <1>12, <1>13
    <2>4. ConflictUpTo(e, n) = ConflictUpTo(e, n - 1)
      BY <1>10, <1>11, <1>12, <1>13
    <2> QED
      BY <1>8, <2>1, <2>2, <2>3, <2>4 DEF SeenUpTo
  <1>14. CASE ~refused /\ item.rank > e.handling
    <2>1. LookAt(e, before, item) =
            [bundled |-> BundledUpTo(e, n - 1), invalid |-> InvalidUpTo(e, n - 1),
             conflict |-> TRUE, contradictory |-> ContradictoryUpTo(e, n - 1)]
      BY <1>14 DEF LookAt, SeenUpTo
    <2>2. BundledUpTo(e, n) = BundledUpTo(e, n - 1)
      BY <1>1, <1>6, <1>7, <1>14
    <2>3. ContradictoryUpTo(e, n) = ContradictoryUpTo(e, n - 1)
      BY <1>9, <1>12, <1>14
    <2>4. ConflictUpTo(e, n) = TRUE
      BY <1>10, <1>11, <1>12, <1>14
    <2>5. InvalidUpTo(e, n) = InvalidUpTo(e, n - 1)
      BY <1>8, <1>14
    <2> QED
      BY <2>1, <2>2, <2>3, <2>4, <2>5 DEF SeenUpTo
  <1>15. CASE ~refused /\ ~(item.rank > e.handling)
    <2>1. LookAt(e, before, item) =
            [bundled |-> BundledUpTo(e, n - 1) \cup {item.record},
             invalid |-> InvalidUpTo(e, n - 1), conflict |-> ConflictUpTo(e, n - 1),
             contradictory |-> ContradictoryUpTo(e, n - 1)]
      BY <1>15 DEF LookAt, SeenUpTo
    <2>2. BundledUpTo(e, n) = BundledUpTo(e, n - 1) \cup {item.record}
      BY <1>1, <1>6, <1>7, <1>12, <1>15
    <2>3. ContradictoryUpTo(e, n) = ContradictoryUpTo(e, n - 1)
      BY <1>9, <1>12, <1>15
    <2>4. ConflictUpTo(e, n) = ConflictUpTo(e, n - 1)
      BY <1>10, <1>11, <1>12, <1>15
    <2>5. InvalidUpTo(e, n) = InvalidUpTo(e, n - 1)
      BY <1>8, <1>15
    <2> QED
      BY <2>1, <2>2, <2>3, <2>4, <2>5 DEF SeenUpTo
  <1> QED
    BY <1>13, <1>14, <1>15

\* What the loop computes is what its records amount to.
LEMMA LoopComputes ==
  ASSUME NEW e \in Envelope
  PROVE  LookedAt(e) = SeenUpTo(e, Len(e.bundle))
  <1> DEFINE m == Len(e.bundle)
             Loops(g) == g = [n \in 0 .. m |->
                           IF n = 0 THEN Unseen(e) ELSE LookAt(e, g[n - 1], e.bundle[n])]
             closed == [n \in 0 .. m |-> SeenUpTo(e, n)]
  <1>1. m \in Nat
    BY BundleItems
  <1>2. Loops(closed)
    <2>1. \A n \in 0 .. m : n # 0 => n \in 1 .. m /\ n - 1 \in 0 .. m
      BY <1>1
    <2>2. \A n \in 0 .. m : closed[n] =
            IF n = 0 THEN Unseen(e) ELSE LookAt(e, closed[n - 1], e.bundle[n])
      BY <1>1, <2>1, NothingSeen, OneMoreSeen
    <2> QED
      BY <2>2
  <1>3. ASSUME NEW g, Loops(g)
        PROVE  g = closed
    <2> DEFINE Differ == {n \in 0 .. m : g[n] # closed[n]}
    <2>1. Differ = {}
      <3> SUFFICES ASSUME Differ # {}
                   PROVE  FALSE
        OBVIOUS
      <3>1. Differ \in SUBSET Nat
        OBVIOUS
      <3>2. PICK n \in Differ : \A k \in Differ : n <= k
        <4> HIDE DEF Differ
        <4> QED
          BY <3>1, LeastExists
      <3>3. n \in 0 .. m /\ g[n] # closed[n]
        BY <3>2
      <3>4. g[n] = IF n = 0 THEN Unseen(e) ELSE LookAt(e, g[n - 1], e.bundle[n])
        BY <1>3, <3>3
      <3>5. closed[n] = IF n = 0 THEN Unseen(e) ELSE LookAt(e, closed[n - 1], e.bundle[n])
        BY <1>2, <3>3
      <3>6. n # 0
        BY <3>3, <3>4, <3>5
      <3>7. n - 1 \in 0 .. m /\ ~(n <= n - 1)
        BY <1>1, <3>3, <3>6
      <3>8. g[n - 1] = closed[n - 1]
        BY <3>2, <3>7
      <3> QED
        BY <3>3, <3>4, <3>5, <3>8
    <2>2. DOMAIN g = 0 .. m /\ g = [n \in 0 .. m |-> g[n]]
      BY <1>3
    <2>3. \A n \in 0 .. m : g[n] = SeenUpTo(e, n)
      BY <2>1
    <2> QED
      BY <2>2, <2>3
  <1> HIDE DEF closed
  <1>4. (CHOOSE g : Loops(g)) = closed
    BY <1>2, <1>3
  <1>5. LookedAt(e) = closed[m]
    BY <1>4 DEF LookedAt
  <1> QED
    BY <1>1, <1>5 DEF closed

\* The independent reader finds in a bundle what the reference finds.
LEMMA LoopFinds ==
  ASSUME NEW e \in Envelope
  PROVE  /\ LookedAt(e).bundled = BundledIds(e)
         /\ LookedAt(e).invalid = InvalidIds(e)
         /\ LookedAt(e).contradictory = Contradictory(e)
         /\ LookedAt(e).contradictory # {} \/ LookedAt(e).conflict <=> Conflicting(e)
  <1> DEFINE m == Len(e.bundle)
  <1>1. /\ m \in Nat /\ DOMAIN e.bundle = 1 .. m /\ e.handling \in Nat
        /\ \A i \in 1 .. m : e.bundle[i].rank \in Nat
    BY BundleItems
  <1>2. LookedAt(e) = [bundled |-> BundledUpTo(e, m), invalid |-> InvalidUpTo(e, m),
                       conflict |-> ConflictUpTo(e, m),
                       contradictory |-> ContradictoryUpTo(e, m)]
    BY LoopComputes DEF SeenUpTo
  <1>3. BundledUpTo(e, m) = BundledIds(e)
    <2>1. \A i \in Bundled(e) : i \in 1 .. m
      BY <1>1 DEF Bundled
    <2> QED
      BY <1>1, <2>1 DEF BundledUpTo, BundledIds
  <1>4. InvalidUpTo(e, m) = InvalidIds(e)
    BY <1>1 DEF InvalidUpTo, InvalidIds
  <1>5. ContradictoryUpTo(e, m) = Contradictory(e)
    <2>1. \A x, y \in e.records : y[1] = x[1] => (y # x <=> y[2] # x[2])
      <3>1. \A d \in e.records : d = <<d[1], d[2]>>
        BY EnvelopeAssumption
      <3> QED
        BY <3>1
    <2>2. Unseen(e).contradictory =
            {d[1] : d \in {x \in e.records : \E y \in e.records : y[1] = x[1] /\ y[2] # x[2]}}
      BY <2>1 DEF Unseen
    <2> QED
      BY <1>1, <2>2 DEF ContradictoryUpTo, Contradictory, Repeated
  <1>6. ContradictoryUpTo(e, m) # {} \/ ConflictUpTo(e, m) <=> Conflicting(e)
    <2>1. \A i \in 1 .. m : WithinHandling(e, e.bundle[i].rank) <=> ~(e.bundle[i].rank > e.handling)
      BY <1>1 DEF WithinHandling
    <2>2. ConflictUpTo(e, m) => HandlingConflict(e)
      BY <1>1, <2>1 DEF ConflictUpTo, HandlingConflict
    <2>3. ASSUME HandlingConflict(e), ~ConflictUpTo(e, m)
          PROVE  ContradictoryUpTo(e, m) # {}
      <3>1. PICK i \in 1 .. m : Matches(e, i) /\ e.bundle[i].rank > e.handling
        BY <1>1, <2>1, <2>3 DEF HandlingConflict
      <3>2. Repeated(e, i)
        BY <2>3, <3>1 DEF ConflictUpTo
      <3>3. e.bundle[i].record \in ContradictoryUpTo(e, m)
        BY <3>2 DEF ContradictoryUpTo
      <3> QED
        BY <3>3
    <2> QED
      BY <1>5, <2>2, <2>3 DEF Conflicting
  <1> QED
    BY <1>2, <1>3, <1>4, <1>5, <1>6

\* Both readers look for the same faults, though in different orders.
LEMMA SameFaults ==
  ASSUME NEW faults
  PROVE  First(ReferenceOrder, faults) = <<>> <=> First(IndependentOrder, faults) = <<>>
  <1>1. DOMAIN ReferenceOrder = 1 .. 5 /\ DOMAIN IndependentOrder = 1 .. 5
    BY DEF ReferenceOrder, IndependentOrder
  <1>2. ASSUME NEW i \in 1 .. 5
        PROVE  /\ \E j \in 1 .. 5 : IndependentOrder[j] = ReferenceOrder[i]
               /\ \E j \in 1 .. 5 : ReferenceOrder[j] = IndependentOrder[i]
    <2>1. i = 1 \/ i = 2 \/ i = 3 \/ i = 4 \/ i = 5
      OBVIOUS
    <2>2. /\ ReferenceOrder[1] = "bundle-id" /\ IndependentOrder[5] = "bundle-id"
          /\ ReferenceOrder[2] = "audience" /\ IndependentOrder[1] = "audience"
          /\ ReferenceOrder[3] = "protected" /\ IndependentOrder[2] = "protected"
          /\ ReferenceOrder[4] = "extension" /\ IndependentOrder[3] = "extension"
          /\ ReferenceOrder[5] = "expiry" /\ IndependentOrder[4] = "expiry"
      BY DEF ReferenceOrder, IndependentOrder
    <2> QED
      BY <2>1, <2>2
  <1>3. \A order : First(order, faults) = <<>> <=> \A i \in DOMAIN order : order[i] \notin faults
    <2> SUFFICES ASSUME NEW order
                 PROVE  First(order, faults) = <<>> <=> \A i \in DOMAIN order : order[i] \notin faults
      OBVIOUS
    <2> DEFINE found == {i \in DOMAIN order : order[i] \in faults}
    <2>1. First(order, faults) = IF found = {} THEN <<>> ELSE <<order[Min(found)]>>
      BY DEF First
    <2>2. <<order[Min(found)]>> # <<>>
      OBVIOUS
    <2> QED
      BY <2>1, <2>2
  <1> QED
    BY <1>1, <1>2, <1>3

\* The readers give the same verdict on a copy without local records.
LEMMA ReadersDecideAlike ==
  ASSUME NEW e \in Envelope, NEW t
  PROVE  LET mine == Verdict(e, {}, t, "none")
             theirs == IndependentVerdict(e, t)
         IN  /\ theirs.outcome = "admitted" <=> mine.outcome = "admitted"
             /\ theirs.outcome = "admitted" => theirs.accepted = mine.accepted
             /\ FaultsAt(e, t) = {} /\ Conflicting(e) => theirs = mine
  <1> DEFINE mine == Verdict(e, {}, t, "none")
             theirs == IndependentVerdict(e, t)
             first == First(ReferenceOrder, FaultsAt(e, t))
             other == First(IndependentOrder, FaultsAt(e, t))
  <1>1. first = <<>> <=> other = <<>>
    BY SameFaults
  <1>2. \A f : FaultRefusal(f).outcome # "admitted"
    BY DEF FaultRefusal, Refusal, Receipt
  <1>3. FaultsAt(e, t) = {} => first = <<>>
    BY DEF First
  <1>4. CASE first # <<>>
    <2>1. mine = FaultRefusal(first[1]) /\ theirs = FaultRefusal(other[1])
      BY <1>1, <1>4 DEF Verdict, IndependentVerdict
    <2> QED
      BY <1>2, <1>3, <1>4, <2>1
  <1>5. CASE first = <<>> /\ Conflicting(e)
    <2>1. mine = ConflictRefusal(e)
      BY <1>5 DEF Verdict
    <2>2. LookedAt(e).contradictory # {} \/ LookedAt(e).conflict
      BY <1>5, LoopFinds
    <2>3. theirs = Receipt("quarantined",
                    IF InvalidIds(e) # {} THEN "bundled-record-invalid"
                    ELSE IF Contradictory(e) # {} THEN "contradictory-bundle"
                    ELSE "handling-sensitivity-mismatch",
                    {}, DeclaredIds(e) \cup Contradictory(e))
      BY <1>1, <1>5, <2>2, LoopFinds DEF IndependentVerdict
    <2>4. theirs = mine
      BY <2>1, <2>3 DEF ConflictRefusal, ConflictCode
    <2>5. theirs.outcome = "quarantined"
      BY <2>3 DEF Receipt
    <2> QED
      BY <2>4, <2>5
  <1>6. CASE first = <<>> /\ ~Conflicting(e)
    <2>1. LocalIds(e, {}) = {}
      BY DEF LocalIds
    <2>2. mine = Resolution(e, BundledIds(e))
      BY <1>6, <2>1 DEF Verdict
    <2>3. LookedAt(e).contradictory = {} /\ ~LookedAt(e).conflict
          /\ LookedAt(e).bundled = BundledIds(e)
      BY <1>6, LoopFinds
    <2>4. CASE DeclaredIds(e) = BundledIds(e)
      <3>1. theirs = Resolution(e, BundledIds(e))
        BY <1>1, <1>6, <2>3, <2>4 DEF IndependentVerdict
      <3> QED
        BY <1>6, <2>2, <3>1
    <2>5. CASE DeclaredIds(e) # BundledIds(e)
      <3>1. theirs = Receipt("quarantined", "incomplete-bundle", {}, DeclaredIds(e))
        BY <1>1, <1>6, <2>3, <2>5 DEF IndependentVerdict
      <3>2. BundledIds(e) \subseteq DeclaredIds(e)
        <4>1. \A i \in Bundled(e) : <<e.bundle[i].record, e.bundle[i].revision>> \in e.records
          BY DEF Bundled, Matches
        <4>2. \A r, v : <<r, v>>[1] = r
          OBVIOUS
        <4> QED
          BY <4>1, <4>2 DEF BundledIds, DeclaredIds
      <3>3. DeclaredIds(e) \ BundledIds(e) # {}
        BY <2>5, <3>2
      <3>4. Resolution(e, BundledIds(e)).outcome # "admitted"
        BY <3>3 DEF Resolution, Receipt
      <3> QED
        BY <1>6, <2>2, <3>1, <3>4 DEF Receipt
    <2> QED
      BY <2>4, <2>5
  <1> QED
    BY <1>4, <1>5, <1>6

-----------------------------------------------------------------------------
(***************************************************************************)
(* Exchange: the theorems                                                  *)
(***************************************************************************)

(***************************************************************************)
(* Every variable keeps its type: what a receiver holds and every receipt. *)
(***************************************************************************)
THEOREM TypeCorrect == Spec => []TypeOK
  <1>1. ExchangeInv => TypeOK
    BY DEF ExchangeInv
  <1> QED
    BY <1>1, ExchangeInvHolds, PTL

(***************************************************************************)
(* One call at most decides an envelope, however receivers race, die and   *)
(* call again: admit_v2 claims the reference before the checks.            *)
(***************************************************************************)
THEOREM EnvelopeDecidedOnce == Spec => []DecidedOnce
  BY ExchangeInvHolds, PTL DEF ExchangeInv

(***************************************************************************)
(* What a receipt of admit_v2 accepts and leaves unresolved is what the    *)
(* envelope declared; what it accepts came or was held at the declared     *)
(* bytes, no more sensitive than the envelope handles.  And the reader of  *)
(* independent_reader.py admits a bundle of any length if and only if      *)
(* admit_v2 would without local records, with the same conflicts.          *)
(***************************************************************************)
THEOREM AcceptedAsDeclared == Spec => []AcceptanceHonest
  <1>1. ExchangeInv => AcceptanceHonest
    <2> SUFFICES ASSUME ExchangeInv PROVE ReadersAgree
      BY DEF ExchangeInv, AcceptanceHonest
    <2> QED
      BY ReadersDecideAlike DEF ExchangeInv, TypeOK, ReadersAgree
  <1> QED
    BY <1>1, ExchangeInvHolds, PTL

-----------------------------------------------------------------------------
(***************************************************************************)
(* Revocation: the inductive invariant                                     *)
(***************************************************************************)
RevocationInv ==
  /\ ledger \in [Recipient -> Revocation!Acknowledgement \cup {Revocation!NoReceipt}]
  /\ answers \in [Recipient -> SUBSET Revocation!AnswerType]
  /\ DOMAIN process = Process
  /\ \A p \in Process : Revocation!CallOK(process[p], ledger)
  /\ \A r \in Recipient : \A a \in answers[r] : Revocation!Acknowledges(a) => a = ledger[r]

LEMMA AcknowledgementsDiffer ==
  \A a \in Revocation!Acknowledgement : Revocation!Acknowledges(a) /\ a # Revocation!NoReceipt
  BY DEF Revocation!Acknowledgement, Revocation!Receipt, Revocation!Acknowledges, Revocation!NoReceipt

\* A call moves on without an answer.
LEMMA GotoKeeps ==
  ASSUME RevocationInv, NEW p \in Process, NEW s, process' = [process EXCEPT ![p] = s],
         Revocation!CallOK(s, ledger), ledger' = ledger, answers' = answers
  PROVE  RevocationInv'
  <1>1. \A o \in Process : process'[o] = IF o = p THEN s ELSE process[o]
    BY DEF RevocationInv
  <1> QED
    BY <1>1 DEF RevocationInv

\* An answer that does not acknowledge, or is the retained receipt.
LEMMA AnswerKeeps ==
  ASSUME RevocationInv, NEW p \in Process, NEW s,
         process' = [process EXCEPT ![p] = s] \/ (process' = process /\ process[p] = s),
         Revocation!CallOK(s, ledger), NEW r \in Recipient, NEW a \in Revocation!AnswerType,
         Revocation!Acknowledges(a) => a = ledger[r],
         answers' = [answers EXCEPT ![r] = @ \cup {a}], ledger' = ledger
  PROVE  RevocationInv'
  <1>1. \A o \in Process : process'[o] = IF o = p THEN s ELSE process[o]
    BY DEF RevocationInv
  <1>2. \A t \in Recipient : answers'[t] = IF t = r THEN answers[t] \cup {a} ELSE answers[t]
    BY DEF RevocationInv
  <1>3. answers' \in [Recipient -> SUBSET Revocation!AnswerType]
    BY DEF RevocationInv
  <1> QED
    BY <1>1, <1>2, <1>3 DEF RevocationInv

LEMMA IdleOK == \A rows : Revocation!CallOK(Revocation!Idle, rows)
  BY DEF Revocation!CallOK, Revocation!Idle

LEMMA DeclinedTyped ==
  /\ Revocation!Declined \in Revocation!AnswerType
  /\ ~Revocation!Acknowledges(Revocation!Declined)
  BY DEF Revocation!Declined, Revocation!Receipt, Revocation!AnswerType, Revocation!Outcome, Revocation!Acknowledges

\* The first acknowledgement of a recipient is retained, a later one is not.
LEMMA RetainKeeps ==
  ASSUME RevocationInv, NEW p \in Process, Revocation!Retain(p)
  PROVE  RevocationInv'
  <1> DEFINE r == process[p].recipient
             row == Revocation!FirstWriterWins(ledger[r], process[p].receipt)
             s == [process[p] EXCEPT !.pc = "retained", !.receipt = row]
  <1>1. r \in Recipient /\ process[p].receipt \in Revocation!Acknowledgement
    BY DEF RevocationInv, Revocation!CallOK, Revocation!Retain
  <1>2. /\ ledger' = [ledger EXCEPT ![r] = row]
        /\ process' = [process EXCEPT ![p] = s]
        /\ answers' = answers
    BY DEF Revocation!Retain, Revocation!Goto
  <1>3. row \in Revocation!Acknowledgement /\ (ledger[r] # Revocation!NoReceipt => row = ledger[r])
    BY <1>1 DEF RevocationInv, Revocation!FirstWriterWins
  <1>4. \A t \in Recipient : ledger'[t] = IF t = r THEN row ELSE ledger[t]
    BY <1>2 DEF RevocationInv
  <1>5. \A t \in Recipient : ledger[t] # Revocation!NoReceipt => ledger'[t] = ledger[t]
    BY <1>3, <1>4
  <1>6. ASSUME NEW o \in Process
        PROVE  Revocation!CallOK(process'[o], ledger')
    <2>1. CASE o = p
      <3>1. process'[o] = s
        BY <1>2, <2>1 DEF RevocationInv
      <3>2. s.recipient = r /\ s.receipt = row
        OBVIOUS
      <3> QED
        BY <1>1, <1>3, <1>4, <3>1, <3>2 DEF Revocation!CallOK
    <2>2. CASE o # p
      <3>1. process'[o] = process[o] /\ Revocation!CallOK(process[o], ledger)
        BY <1>2, <2>2 DEF RevocationInv
      <3> QED
        BY <1>5, <3>1, AcknowledgementsDiffer DEF Revocation!CallOK
    <2> QED
      BY <2>1, <2>2
  <1>7. ASSUME NEW t \in Recipient, NEW a \in answers'[t], Revocation!Acknowledges(a)
        PROVE  a = ledger'[t]
    <2>1. a = ledger[t]
      BY <1>2, <1>7 DEF RevocationInv
    <2>2. ledger[t] # Revocation!NoReceipt
      BY <1>7, <2>1 DEF Revocation!Acknowledges, Revocation!NoReceipt
    <2> QED
      BY <1>5, <2>1, <2>2
  <1>8. ledger' \in [Recipient -> Revocation!Acknowledgement \cup {Revocation!NoReceipt}]
    BY <1>2, <1>3 DEF RevocationInv
  <1> QED
    BY <1>2, <1>6, <1>7, <1>8 DEF RevocationInv

LEMMA NextRevocation == RevocationInv /\ [Revocation!Next]_Revocation!vars => RevocationInv'
  <1> SUFFICES ASSUME RevocationInv, [Revocation!Next]_Revocation!vars PROVE RevocationInv'
    OBVIOUS
  <1>1. ASSUME NEW p \in Process,
               \/ Revocation!StartOpen(p) \/ Revocation!OpenStatement(p) \/ Revocation!Opened(p)
               \/ Revocation!Crash(p)
        PROVE  RevocationInv'
    <2>1. PICK s : process' = [process EXCEPT ![p] = s] /\ s.pc \notin {"retaining", "retained"}
      <3>1. CASE Revocation!OpenStatement(p)
        <4> DEFINE s == [process[p] EXCEPT !.opened = @ + 1]
        <4>1. s.pc = process[p].pc
          OBVIOUS
        <4> QED
          BY <3>1, <4>1 DEF Revocation!OpenStatement, Revocation!Goto
      <3> QED
        BY <1>1, <3>1 DEF Revocation!StartOpen, Revocation!Opened, Revocation!Crash, Revocation!Goto,
           Revocation!Idle
    <2>2. Revocation!CallOK(s, ledger)
      BY <2>1 DEF Revocation!CallOK
    <2>3. UNCHANGED <<ledger, answers>>
      BY <1>1 DEF Revocation!StartOpen, Revocation!OpenStatement, Revocation!Opened, Revocation!Crash
    <2> QED
      BY <2>1, <2>2, <2>3, GotoKeeps
  <1>2. ASSUME NEW p \in Process, Revocation!Reject(p) \/ Revocation!AnswerOther(p)
        PROVE  RevocationInv'
    <2>1. PICK r \in Recipient, a \in Revocation!AnswerType :
            ~Revocation!Acknowledges(a) /\ answers' = [answers EXCEPT ![r] = @ \cup {a}]
      <3>1. CASE Revocation!Reject(p)
        BY <3>1, DeclinedTyped DEF Revocation!Reject, Revocation!Answer
      <3>2. CASE Revocation!AnswerOther(p)
        <4>1. PICK r \in Recipient, outcome \in Revocation!Outcome \ {"acknowledged"} :
                Revocation!Answer(r, Revocation!Receipt(outcome, "none"))
          BY <3>2 DEF Revocation!AnswerOther
        <4>2. /\ Revocation!Receipt(outcome, "none") \in Revocation!AnswerType
              /\ ~Revocation!Acknowledges(Revocation!Receipt(outcome, "none"))
          BY DEF Revocation!Receipt, Revocation!AnswerType, Revocation!Acknowledges
        <4> QED
          BY <4>1, <4>2 DEF Revocation!Answer
      <3> QED
        BY <1>2, <3>1, <3>2
    <2>2. UNCHANGED <<ledger, process>>
      BY <1>2 DEF Revocation!Reject, Revocation!AnswerOther
    <2>3. Revocation!CallOK(process[p], ledger)
      BY DEF RevocationInv
    <2> QED
      BY <2>1, <2>2, <2>3, AnswerKeeps
  <1>3. ASSUME NEW p \in Process, Revocation!AnswerUnavailable(p)
        PROVE  RevocationInv'
    BY <1>3, AnswerKeeps, DeclinedTyped, IdleOK
    DEF Revocation!AnswerUnavailable, Revocation!Answer, Revocation!Goto
  <1>4. ASSUME NEW p \in Process, Revocation!StartRetain(p)
        PROVE  RevocationInv'
    <2>1. PICK r \in Recipient, e \in Evidence :
            Revocation!Goto(p, [process[p] EXCEPT !.pc = "retaining", !.recipient = r,
                                  !.receipt = Revocation!Receipt("acknowledged", e)])
      BY <1>4 DEF Revocation!StartRetain
    <2> DEFINE s == [process[p] EXCEPT !.pc = "retaining", !.recipient = r,
                       !.receipt = Revocation!Receipt("acknowledged", e)]
    <2>2. process[p].pc = "open" /\ UNCHANGED <<ledger, answers>> /\ process' = [process EXCEPT ![p] = s]
      BY <1>4, <2>1 DEF Revocation!StartRetain, Revocation!Goto
    <2>3. Revocation!CallOK(s, ledger)
      BY DEF Revocation!CallOK, Revocation!Acknowledgement
    <2> QED
      BY <2>2, <2>3, GotoKeeps
  <1>5. ASSUME NEW p \in Process, Revocation!Return(p)
        PROVE  RevocationInv'
    <2> DEFINE q == process[p]
               s == [Revocation!Idle EXCEPT !.pc = "open"]
    <2>1. q.recipient \in Recipient /\ q.receipt \in Revocation!Acknowledgement /\ q.receipt = ledger[q.recipient]
      BY <1>5 DEF RevocationInv, Revocation!CallOK, Revocation!Return
    <2>2. q.receipt \in Revocation!AnswerType
      <3>1. PICK e \in Evidence : q.receipt = Revocation!Receipt("acknowledged", e)
        BY <2>1 DEF Revocation!Acknowledgement
      <3>2. Revocation!Receipt("acknowledged", e) \in Revocation!AnswerType
        BY DEF Revocation!AnswerType, Revocation!Receipt, Revocation!Outcome
      <3> QED
        BY <3>1, <3>2
    <2>3. Revocation!Answer(q.recipient, q.receipt) /\ Revocation!Goto(p, s) /\ ledger' = ledger
      BY <1>5, <2>1, AcknowledgementsDiffer DEF Revocation!Return
    <2>4. Revocation!CallOK(s, ledger)
      BY DEF Revocation!CallOK, Revocation!Idle
    <2> QED
      BY <2>1, <2>2, <2>3, <2>4, AnswerKeeps DEF Revocation!Answer, Revocation!Goto
  <1>6. ASSUME Revocation!Tick \/ UNCHANGED Revocation!vars
        PROVE  RevocationInv'
    BY <1>6 DEF Revocation!Tick, Revocation!vars, RevocationInv
  <1> QED
    BY <1>1, <1>2, <1>3, <1>4, <1>5, <1>6, RetainKeeps DEF Revocation!Next

THEOREM RevocationInvHolds == Revocation!Spec => []RevocationInv
  <1>1. Revocation!Init => RevocationInv
    <2> SUFFICES ASSUME Revocation!Init PROVE RevocationInv
      OBVIOUS
    <2>1. \A p \in Process : Revocation!CallOK(process[p], ledger)
      BY IdleOK DEF Revocation!Init
    <2> QED
      BY <2>1 DEF Revocation!Init, RevocationInv
  <1> QED
    BY <1>1, NextRevocation, PTL DEF Revocation!Spec

(***************************************************************************)
(* Every acknowledgement ever returned to a recipient is the one receipt   *)
(* SQLiteRevocationReplayLedger.retain kept first; so are the receipts of  *)
(* an aggregate that says everybody acknowledged, and those that suppress. *)
(***************************************************************************)
THEOREM FirstAcknowledgementKept ==
  Revocation!Spec => []Revocation!FirstAcknowledgementStands
  <1>1. RevocationInv => Revocation!FirstAcknowledgementStands
    <2> SUFFICES ASSUME RevocationInv PROVE Revocation!FirstAcknowledgementStands
      OBVIOUS
    <2>1. \A r \in Recipient : \A a \in answers[r] : Revocation!Acknowledges(a) => a = ledger[r]
      BY DEF RevocationInv
    <2>2. ASSUME NEW choice \in [Recipient -> UNION {answers[r] : r \in Recipient}],
                 \A r \in Recipient : choice[r] \in answers[r],
                 Revocation!AggregateOutcome(choice) = "acknowledged",
                 NEW r \in Recipient
          PROVE  choice[r] = ledger[r]
      <3>1. Recipient = Revocation!Successful(choice)
        BY <2>2 DEF Revocation!AggregateOutcome
      <3>2. Revocation!Acknowledges(choice[r])
        BY <3>1 DEF Revocation!Successful
      <3> QED
        BY <2>1, <2>2, <3>2
    <2>3. ASSUME NEW list \in SUBSET UNION {{<<r, a>> : a \in answers[r]} : r \in Recipient},
                 Revocation!Suppresses(list), NEW x \in list
          PROVE  ledger[x[1]] = x[2]
      <3>1. PICK r \in Recipient : x \in {<<r, a>> : a \in answers[r]}
        BY <2>3
      <3>2. PICK a \in answers[r] : x = <<r, a>>
        BY <3>1
      <3>3. Revocation!Acknowledges(a) /\ x[1] = r /\ x[2] = a
        BY <2>3, <3>2 DEF Revocation!Suppresses
      <3> QED
        BY <2>1, <3>3
    <2> QED
      BY <2>1, <2>2, <2>3 DEF Revocation!FirstAcknowledgementStands
  <1> QED
    BY <1>1, RevocationInvHolds, PTL

-----------------------------------------------------------------------------
(***************************************************************************)
(* Revocation: types                                                       *)
(***************************************************************************)
RevocationTyped ==
  /\ schema \subseteq 1 .. 3
  /\ process \in [Process -> Revocation!CallType]
  /\ clock \in 0 .. MaxTime

\* A process that opens the ledger counts the statements it committed.
LEMMA OpenStatementTyped ==
  ASSUME RevocationTyped, NEW p \in Process, Revocation!OpenStatement(p)
  PROVE  RevocationTyped'
  <1>1. /\ process[p].opened < 3 /\ schema' = schema \cup {process[p].opened + 1}
        /\ process' = [process EXCEPT ![p] = [process[p] EXCEPT !.opened = @ + 1]]
        /\ clock' = clock
    BY DEF Revocation!OpenStatement, Revocation!Goto
  <1>2. process[p] \in Revocation!CallType /\ process[p].opened + 1 \in 1 .. 3
    BY <1>1 DEF RevocationTyped, Revocation!CallType
  <1>3. [process[p] EXCEPT !.opened = @ + 1] \in Revocation!CallType
    BY <1>2 DEF Revocation!CallType
  <1> QED
    BY <1>1, <1>2, <1>3 DEF RevocationTyped

\* A process that carries an acknowledgement into the ledger and out of it.
LEMMA RetainTyped ==
  ASSUME RevocationTyped, RevocationInv, NEW p \in Process,
         Revocation!StartRetain(p) \/ Revocation!Retain(p)
  PROVE  RevocationTyped'
  <1>1. process[p] \in Revocation!CallType /\ UNCHANGED <<schema, clock>>
    BY DEF RevocationTyped, Revocation!StartRetain, Revocation!Retain
  <1>2. CASE Revocation!StartRetain(p)
    <2>1. PICK r \in Recipient, e \in Evidence :
            process' = [process EXCEPT ![p] =
              [process[p] EXCEPT !.pc = "retaining", !.recipient = r,
                 !.receipt = Revocation!Receipt("acknowledged", e)]]
      BY <1>2 DEF Revocation!StartRetain, Revocation!Goto
    <2>2. Revocation!Receipt("acknowledged", e) \in Revocation!Acknowledgement
      BY DEF Revocation!Acknowledgement
    <2>3. [process[p] EXCEPT !.pc = "retaining", !.recipient = r,
             !.receipt = Revocation!Receipt("acknowledged", e)] \in Revocation!CallType
      BY <1>1, <2>2 DEF Revocation!CallType
    <2> QED
      BY <1>1, <2>1, <2>3 DEF RevocationTyped
  <1>3. CASE Revocation!Retain(p)
    <2> DEFINE row == Revocation!FirstWriterWins(ledger[process[p].recipient], process[p].receipt)
    <2>1. row \in Revocation!Acknowledgement \cup {Revocation!NoReceipt}
      BY <1>3 DEF RevocationInv, Revocation!CallOK, Revocation!FirstWriterWins, Revocation!Retain
    <2>2. process' = [process EXCEPT ![p] = [process[p] EXCEPT !.pc = "retained", !.receipt = row]]
      BY <1>3 DEF Revocation!Retain, Revocation!Goto
    <2> HIDE DEF row
    <2>3. [process[p] EXCEPT !.pc = "retained", !.receipt = row] \in Revocation!CallType
      BY <1>1, <2>1 DEF Revocation!CallType
    <2> QED
      BY <1>1, <2>2, <2>3 DEF RevocationTyped
  <1> QED
    BY <1>2, <1>3

\* The steps that leave a process with the ledger open, or without a call.
LEMMA RestTyped ==
  ASSUME RevocationTyped, NEW p \in Process,
         \/ Revocation!StartOpen(p) \/ Revocation!Opened(p) \/ Revocation!Reject(p)
         \/ Revocation!AnswerOther(p) \/ Revocation!AnswerUnavailable(p) \/ Revocation!Return(p)
         \/ Revocation!Crash(p)
  PROVE  RevocationTyped'
  <1>1. \A pc \in {"idle", "opening", "open"} : [Revocation!Idle EXCEPT !.pc = pc] \in Revocation!CallType
    BY DEF Revocation!CallType, Revocation!Idle
  <1>2. Revocation!Idle \in Revocation!CallType
    BY DEF Revocation!CallType, Revocation!Idle
  <1>3. \/ process' = process
        \/ \E s \in Revocation!CallType : process' = [process EXCEPT ![p] = s]
    BY <1>1, <1>2 DEF Revocation!StartOpen, Revocation!Opened, Revocation!Reject, Revocation!AnswerOther,
       Revocation!AnswerUnavailable, Revocation!Return, Revocation!Crash, Revocation!Goto
  <1>4. UNCHANGED <<schema, clock>>
    BY DEF Revocation!StartOpen, Revocation!Opened, Revocation!Reject, Revocation!AnswerOther,
       Revocation!AnswerUnavailable, Revocation!Return, Revocation!Crash
  <1> QED
    BY <1>3, <1>4 DEF RevocationTyped

\* What the ledger, the calls and the answers of revocations hold has its type.
THEOREM RevocationsKeepTypes == Revocation!Spec => []Revocation!TypeOK
  <1>1. Revocation!Init => RevocationTyped
    BY ExchangeAssumption DEF Revocation!Init, RevocationTyped, Revocation!CallType, Revocation!Idle
  <1>2. RevocationTyped /\ RevocationInv /\ [Revocation!Next]_(Revocation!vars) => RevocationTyped'
    <2> SUFFICES ASSUME RevocationTyped, RevocationInv, [Revocation!Next]_(Revocation!vars)
                 PROVE  RevocationTyped'
      OBVIOUS
    <2>1. CASE Revocation!Tick
      BY <2>1, ExchangeAssumption DEF Revocation!Tick, RevocationTyped
    <2>2. CASE UNCHANGED Revocation!vars
      BY <2>2 DEF Revocation!vars, RevocationTyped
    <2> QED
      BY <2>1, <2>2, OpenStatementTyped, RetainTyped, RestTyped DEF Revocation!Next
  <1>3. RevocationTyped /\ RevocationInv => Revocation!TypeOK
    BY DEF RevocationTyped, RevocationInv, Revocation!TypeOK, Revocation!Statements
  <1> QED
    BY <1>1, <1>2, <1>3, RevocationInvHolds, PTL DEF Revocation!Spec

-----------------------------------------------------------------------------
(***************************************************************************)
(* Evolution: the inductive invariant                                      *)
(***************************************************************************)

EvolutionInv ==
  /\ acceptances \in Seq(Evolution!Acceptance(seen, records))
  /\ Evolution!SuccessionUnforked

LEMMA LeastOfEight ==
  ASSUME NEW found \in SUBSET (1 .. 8), found # {}
  PROVE  Evolution!Min(found) \in found
  <1>1. \E x \in found : \A y \in found : x <= y
    <2>1. \A x \in found : x \in {1, 2, 3, 4, 5, 6, 7, 8}
      OBVIOUS
    <2>2. PICK x \in found : TRUE
      OBVIOUS
    <2> QED
      BY <2>1
  <1> QED
    BY <1>1 DEF Evolution!Min

\* An accepted candidate passed every check of admit_candidate.
LEMMA AcceptedPassed ==
  ASSUME NEW c, NEW decision \in Evolution!Decision, NEW asserted \in BOOLEAN, NEW negotiated \in BOOLEAN
  PROVE  LET checks == Evolution!Checks(c, decision, asserted, negotiated)
             failing == {i \in DOMAIN checks : checks[i].holds}
             outcome == IF failing = {} THEN "accepted" ELSE checks[Evolution!Min(failing)].outcome
         IN outcome = "accepted" =>
              /\ c \notin seen
              /\ ~(asserted /\ Evolution!Stale(c))
              /\ \A r \in Evolution!Transitions(c) : ~Evolution!NotCurrent(r, asserted)
  <1> DEFINE checks == Evolution!Checks(c, decision, asserted, negotiated)
             failing == {i \in DOMAIN checks : checks[i].holds}
  <1>1. DOMAIN checks = 1 .. 8
    BY DEF Evolution!Checks
  <1>2. /\ checks[1].holds <=> c \in seen
        /\ checks[2].holds <=> asserted /\ Evolution!Stale(c)
        /\ checks[8].holds <=> c.version = "v2" /\ \E r \in Evolution!Predecessors(c) : Evolution!NotCurrent(r, asserted)
    BY DEF Evolution!Checks
  <1>3. \A i \in 1 .. 8 : checks[i].holds => checks[i].outcome # "accepted"
    <2>1. /\ checks[1].outcome = "duplicate" /\ checks[2].outcome = "stale"
          /\ checks[4].outcome = "unsupported" /\ checks[5].outcome = "conflict"
          /\ checks[6].outcome = "duplicate" /\ checks[7].outcome = "conflict"
          /\ checks[8].outcome = "stale"
      BY DEF Evolution!Checks
    <2>2. checks[3].outcome = decision /\ (checks[3].holds <=> decision # "accepted")
      BY DEF Evolution!Checks
    <2> HIDE DEF checks
    <2>3. \A i \in 1 .. 8 : i \in {1, 2, 3, 4, 5, 6, 7, 8}
      OBVIOUS
    <2> QED
      BY <2>1, <2>2, <2>3
  <1> HIDE DEF checks
  <1>4. failing # {} => checks[Evolution!Min(failing)].outcome # "accepted"
    BY <1>1, <1>3, LeastOfEight
  <1>5. failing = {} => ~checks[1].holds /\ ~checks[2].holds /\ ~checks[8].holds
    BY <1>1
  <1> QED
    BY <1>2, <1>4, <1>5 DEF checks, Evolution!Transitions

\* What is superseded is not current.
LEMMA SupersededNotCurrent ==
  ASSUME NEW r, Evolution!CurrentRevisions(r.id) = {r}
  PROVE  r \in records /\ Evolution!Superseded(r) \notin records
  <1>1. r \in Evolution!CurrentRevisions(r.id)
    OBVIOUS
  <1> QED
    BY <1>1 DEF Evolution!CurrentRevisions, Evolution!Current

\* Revisions and seen candidates only come; the receipts stay as true as before.
LEMMA GrowthKeeps ==
  ASSUME EvolutionInv, records \subseteq records', seen \subseteq seen', acceptances' = acceptances
  PROVE  EvolutionInv'
  <1>1. Evolution!Acceptance(seen, records) \subseteq Evolution!Acceptance(seen', records')
    BY DEF Evolution!Acceptance
  <1>2. acceptances' \in Seq(Evolution!Acceptance(seen', records'))
    BY <1>1, SeqMonotonic DEF EvolutionInv
  <1>3. Evolution!SuccessionUnforked'
    BY DEF EvolutionInv, Evolution!SuccessionUnforked
  <1> QED
    BY <1>2, <1>3 DEF EvolutionInv

\* An acceptance.
LEMMA AcceptKeeps ==
  ASSUME EvolutionInv, NEW c, c \notin seen, seen' = seen \cup {c},
         NEW taken, \A r \in taken : Evolution!CurrentRevisions(r.id) = {r},
         records' = records \cup {Evolution!Accepted(c)} \cup {Evolution!Superseded(r) : r \in taken},
         acceptances' = Append(acceptances, [candidate |-> c, transitions |-> taken,
                                       wasCurrent |-> TRUE, stale |-> FALSE])
  PROVE  EvolutionInv'
  <1> DEFINE n == Len(acceptances)
             x == [candidate |-> c, transitions |-> taken, wasCurrent |-> TRUE, stale |-> FALSE]
             A == Evolution!Acceptance(seen', records')
  <1>1. Evolution!Acceptance(seen, records) \subseteq A
    BY DEF Evolution!Acceptance
  <1>2. acceptances \in Seq(A)
    BY <1>1, SeqMonotonic DEF EvolutionInv
  <1>3. \A r \in taken : /\ r \in records /\ Evolution!Superseded(r) \notin records
                         /\ Evolution!Superseded(r) \in records'
    BY SupersededNotCurrent
  <1>4. x \in A
    BY <1>3 DEF Evolution!Acceptance
  <1>5. \A i \in DOMAIN acceptances : acceptances[i] \in Evolution!Acceptance(seen, records)
    BY DEF EvolutionInv
  <1>6. /\ \A i \in DOMAIN acceptances :
             /\ acceptances[i].candidate \in seen
             /\ acceptances[i].wasCurrent /\ ~acceptances[i].stale
             /\ \A r \in acceptances[i].transitions : Evolution!Superseded(r) \in records
        /\ \A i, j \in DOMAIN acceptances : i # j =>
             /\ acceptances[i].candidate # acceptances[j].candidate
             /\ acceptances[i].transitions \cap acceptances[j].transitions = {}
    BY <1>5 DEF EvolutionInv, Evolution!SuccessionUnforked, Evolution!Acceptance
  <1> HIDE DEF A
  <1>7. /\ acceptances' \in Seq(A)
        /\ DOMAIN acceptances' = 1 .. n + 1 /\ DOMAIN acceptances = 1 .. n /\ n \in Nat
        /\ \A i \in DOMAIN acceptances : acceptances'[i] = acceptances[i]
        /\ acceptances'[n + 1] = x
    BY <1>2, <1>4
  <1>8. /\ x.candidate = c /\ x.transitions = taken
        /\ x.wasCurrent = TRUE /\ x.stale = FALSE
    OBVIOUS
  <1> HIDE DEF x, n
  <1>9. \A i \in DOMAIN acceptances' : i \in DOMAIN acceptances \/ i = n + 1
    BY <1>7
  <1>10. records \subseteq records'
    OBVIOUS
  <1>11. ASSUME NEW i \in DOMAIN acceptances'
         PROVE  /\ acceptances'[i].wasCurrent /\ ~acceptances'[i].stale
                /\ \A r \in acceptances'[i].transitions : Evolution!Superseded(r) \in records'
    <2>1. CASE i \in DOMAIN acceptances
      BY <1>6, <1>7, <1>10, <2>1
    <2>2. CASE i = n + 1
      BY <1>3, <1>7, <1>8, <2>2
    <2> QED
      BY <1>9, <2>1, <2>2
  <1>12. ASSUME NEW i \in DOMAIN acceptances
         PROVE  acceptances[i].candidate # c /\ acceptances[i].transitions \cap taken = {}
    BY <1>3, <1>6
  <1>13. ASSUME NEW i \in DOMAIN acceptances', NEW j \in DOMAIN acceptances', i # j
         PROVE  /\ acceptances'[i].candidate # acceptances'[j].candidate
                /\ acceptances'[i].transitions \cap acceptances'[j].transitions = {}
    <2>1. CASE i \in DOMAIN acceptances /\ j \in DOMAIN acceptances
      BY <1>6, <1>7, <1>13, <2>1
    <2>2. CASE i \in DOMAIN acceptances /\ j = n + 1
      BY <1>7, <1>8, <1>12, <2>2
    <2>3. CASE i = n + 1 /\ j \in DOMAIN acceptances
      BY <1>7, <1>8, <1>12, <2>3
    <2> QED
      BY <1>9, <1>13, <2>1, <2>2, <2>3
  <1>14. Evolution!SuccessionUnforked'
    BY <1>11, <1>13 DEF Evolution!SuccessionUnforked
  <1> QED
    BY <1>7, <1>14 DEF EvolutionInv, A

LEMMA AdmitKeeps ==
  ASSUME EvolutionInv, NEW c, Evolution!Admit(c)
  PROVE  EvolutionInv'
  <1>1. PICK decision \in Evolution!Decision, asserted \in BOOLEAN, negotiated \in BOOLEAN :
          LET checks == Evolution!Checks(c, decision, asserted, negotiated)
              failing == {i \in DOMAIN checks : checks[i].holds}
              outcome == IF failing = {} THEN "accepted" ELSE checks[Evolution!Min(failing)].outcome
              taken == Evolution!Transitions(c)
          IN IF outcome = "accepted"
             THEN /\ records' = records \cup {Evolution!Accepted(c)} \cup {Evolution!Superseded(r) : r \in taken}
                  /\ acceptances' = Append(acceptances,
                       [candidate |-> c, transitions |-> taken,
                        wasCurrent |-> \A r \in taken : Evolution!CurrentRevisions(r.id) = {r},
                        stale |-> asserted /\ Evolution!Stale(c)])
             ELSE UNCHANGED <<records, acceptances>>
    BY DEF Evolution!Admit
  <1> DEFINE checks == Evolution!Checks(c, decision, asserted, negotiated)
             failing == {i \in DOMAIN checks : checks[i].holds}
             outcome == IF failing = {} THEN "accepted" ELSE checks[Evolution!Min(failing)].outcome
             taken == Evolution!Transitions(c)
  <1>2. seen' = seen \cup {c}
    BY DEF Evolution!Admit
  <1>3. CASE outcome = "accepted"
    <2>1. /\ c \notin seen
          /\ ~(asserted /\ Evolution!Stale(c))
          /\ \A r \in taken : ~Evolution!NotCurrent(r, asserted)
      BY <1>3, AcceptedPassed
    <2>2. \A r \in taken : Evolution!CurrentRevisions(r.id) = {r}
      BY <2>1 DEF Evolution!NotCurrent
    <2>3. /\ records' = records \cup {Evolution!Accepted(c)} \cup {Evolution!Superseded(r) : r \in taken}
          /\ acceptances' = Append(acceptances,
               [candidate |-> c, transitions |-> taken,
                wasCurrent |-> \A r \in taken : Evolution!CurrentRevisions(r.id) = {r},
                stale |-> asserted /\ Evolution!Stale(c)])
      BY <1>1, <1>3
    <2>4. /\ (\A r \in taken : Evolution!CurrentRevisions(r.id) = {r}) = TRUE
          /\ (asserted /\ Evolution!Stale(c)) = FALSE
      BY <2>1, <2>2
    <2> HIDE DEF taken
    <2> QED
      BY <1>2, <2>1, <2>2, <2>3, <2>4, AcceptKeeps
  <1>4. CASE outcome # "accepted"
    BY <1>1, <1>2, <1>4, GrowthKeeps
  <1> QED
    BY <1>3, <1>4

THEOREM EvolutionInvHolds == Evolution!Spec => []EvolutionInv
  <1>1. Evolution!Init => EvolutionInv
    BY DEF Evolution!Init, EvolutionInv, Evolution!SuccessionUnforked
  <1>2. EvolutionInv /\ [Evolution!Next]_(Evolution!vars) => EvolutionInv'
    <2> SUFFICES ASSUME EvolutionInv, [Evolution!Next]_(Evolution!vars) PROVE EvolutionInv'
      OBVIOUS
    <2>1. CASE Evolution!Build \/ UNCHANGED Evolution!vars
      BY <2>1, GrowthKeeps DEF Evolution!Build, Evolution!vars
    <2> QED
      BY <2>1, AdmitKeeps DEF Evolution!Next
  <1> QED
    BY <1>1, <1>2, PTL DEF Evolution!Spec

(***************************************************************************)
(* A candidate is accepted once; what an acceptance supersedes was the one *)
(* current revision of its record and stays superseded, and no caller who  *)
(* said what is current had a stale candidate accepted (admit_candidate).  *)
(***************************************************************************)
THEOREM SuccessionStaysUnforked == Evolution!Spec => []Evolution!SuccessionUnforked
  <1>1. EvolutionInv => Evolution!SuccessionUnforked
    BY DEF EvolutionInv
  <1> QED
    BY <1>1, EvolutionInvHolds, PTL

-----------------------------------------------------------------------------
(***************************************************************************)
(* Evolution: types                                                        *)
(***************************************************************************)
EvolutionTyped ==
  /\ \A r \in records : Evolution!RevisionTyped(r) /\ r.life \in {"accepted", "sealed", "superseded"}
  /\ \A c \in candidates : Evolution!CandidateTyped(c)
  /\ seen \subseteq candidates

\* An admission keeps what was there, and adds the accepted draft and superseded
\* copies of what it takes.
LEMMA AdmissionAdds ==
  ASSUME NEW c, Evolution!Admit(c)
  PROVE  \/ records' = records
         \/ \E taken \in SUBSET records :
              records' = records \cup {Evolution!Accepted(c)} \cup {Evolution!Superseded(r) : r \in taken}
  <1>1. PICK decision \in Evolution!Decision, asserted \in BOOLEAN, negotiated \in BOOLEAN :
          LET checks == Evolution!Checks(c, decision, asserted, negotiated)
              failing == {i \in DOMAIN checks : checks[i].holds}
              outcome == IF failing = {} THEN "accepted" ELSE checks[Evolution!Min(failing)].outcome
              taken == Evolution!Transitions(c)
          IN IF outcome = "accepted"
             THEN /\ records' = records \cup {Evolution!Accepted(c)} \cup {Evolution!Superseded(r) : r \in taken}
                  /\ acceptances' = Append(acceptances,
                       [candidate |-> c, transitions |-> taken,
                        wasCurrent |-> \A r \in taken : Evolution!CurrentRevisions(r.id) = {r},
                        stale |-> asserted /\ Evolution!Stale(c)])
             ELSE UNCHANGED <<records, acceptances>>
    BY DEF Evolution!Admit
  <1> DEFINE checks == Evolution!Checks(c, decision, asserted, negotiated)
             failing == {i \in DOMAIN checks : checks[i].holds}
             outcome == IF failing = {} THEN "accepted" ELSE checks[Evolution!Min(failing)].outcome
             taken == Evolution!Transitions(c)
  <1>2. ASSUME outcome = "accepted" PROVE taken \in SUBSET records
    <2>1. \A r \in taken : ~Evolution!NotCurrent(r, asserted)
      BY <1>2, AcceptedPassed
    <2> QED
      BY <2>1, SupersededNotCurrent DEF Evolution!NotCurrent
  <1>3. CASE outcome = "accepted"
    BY <1>1, <1>2, <1>3
  <1>4. CASE outcome # "accepted"
    BY <1>1, <1>4
  <1> QED
    BY <1>3, <1>4

LEMMA BuildTyped ==
  ASSUME EvolutionTyped, Evolution!Build
  PROVE  EvolutionTyped'
  <1>1. PICK version \in {"v1", "v2"}, id \in Id, content \in Content, sources \in SUBSET records,
             supersedes \in SUBSET records, disputes \in SUBSET records,
             twice \in SUBSET records :
          candidates' = candidates \cup
            {Evolution!Candidate(version, id, content, sources, supersedes, twice, disputes)}
    BY DEF Evolution!Build
  <1> DEFINE c == Evolution!Candidate(version, id, content, sources, supersedes, twice, disputes)
  <1>2. Evolution!CandidateTyped(c)
    BY DEF Evolution!Candidate, Evolution!RevisionTyped, Evolution!CandidateTyped
  <1>3. UNCHANGED <<records, seen>>
    BY DEF Evolution!Build
  <1> HIDE DEF c
  <1>4. \A d \in candidates' : Evolution!CandidateTyped(d)
    BY <1>1, <1>2 DEF EvolutionTyped, c
  <1> QED
    BY <1>1, <1>3, <1>4 DEF EvolutionTyped, Evolution!CandidateTyped

LEMMA AdmitTyped ==
  ASSUME EvolutionTyped, NEW c \in candidates, Evolution!Admit(c)
  PROVE  EvolutionTyped'
  <1>1. seen' = seen \cup {c} /\ candidates' = candidates
    BY DEF Evolution!Admit
  <1>2. Evolution!RevisionTyped(Evolution!Accepted(c)) /\ Evolution!Accepted(c).life = "accepted"
    <2>1. Evolution!RevisionTyped(c.draft)
      BY DEF EvolutionTyped, Evolution!CandidateTyped
    <2>2. Evolution!Accepted(c) =
            [id |-> c.draft.id, content |-> c.draft.content, life |-> "accepted",
             relations |-> c.draft.relations]
      BY <2>1 DEF Evolution!RevisionTyped, Evolution!Accepted
    <2> QED
      BY <2>1, <2>2 DEF Evolution!RevisionTyped
  <1>3. ASSUME NEW r \in records
        PROVE  Evolution!RevisionTyped(Evolution!Superseded(r)) /\ Evolution!Superseded(r).life = "superseded"
    <2>1. Evolution!RevisionTyped(r)
      BY DEF EvolutionTyped
    <2>2. Evolution!Superseded(r) =
            [id |-> r.id, content |-> r.content, life |-> "superseded", relations |-> r.relations]
      BY <2>1 DEF Evolution!RevisionTyped, Evolution!Superseded
    <2> QED
      BY <2>1, <2>2 DEF Evolution!RevisionTyped
  <1>4. CASE records' = records
    BY <1>1, <1>4 DEF EvolutionTyped, Evolution!CandidateTyped
  <1>5. ASSUME NEW taken \in SUBSET records,
               records' = records \cup {Evolution!Accepted(c)} \cup {Evolution!Superseded(r) : r \in taken}
        PROVE  EvolutionTyped'
    <2>1. \A r \in records' :
            r \in records \/ r = Evolution!Accepted(c) \/ \E q \in records : r = Evolution!Superseded(q)
      BY <1>5
    <2>2. \A r \in records' : Evolution!RevisionTyped(r) /\ r.life \in {"accepted", "sealed", "superseded"}
      BY <1>2, <1>3, <2>1 DEF EvolutionTyped
    <2>3. \A d \in candidates' : Evolution!CandidateTyped(d)'
      BY <1>1, <1>5 DEF EvolutionTyped, Evolution!CandidateTyped
    <2> QED
      BY <1>1, <2>2, <2>3 DEF EvolutionTyped
  <1> QED
    BY <1>4, <1>5, AdmissionAdds

\* The store keeps whole revisions of known identities and no drafts; it has seen
\* candidates that were built, and accepted ones it has seen.
THEOREM RevisionsKeepTypes ==
  ASSUME Evolution!EvolutionConstants
  PROVE  Evolution!Spec => []Evolution!TypeOK
  <1>1. Evolution!Init => EvolutionTyped
    BY DEF Evolution!Init, Evolution!EvolutionConstants, EvolutionTyped, Evolution!RevisionTyped
  <1>2. EvolutionTyped /\ [Evolution!Next]_(Evolution!vars) => EvolutionTyped'
    BY BuildTyped, AdmitTyped
    DEF Evolution!Next, Evolution!vars, EvolutionTyped, Evolution!CandidateTyped
  <1>3. EvolutionTyped /\ EvolutionInv => Evolution!TypeOK
    BY DEF EvolutionTyped, EvolutionInv, Evolution!TypeOK
  <1> QED
    BY <1>1, <1>2, <1>3, EvolutionInvHolds, PTL DEF Evolution!Spec

-----------------------------------------------------------------------------
(***************************************************************************)
(* Projection: the inductive invariant                                     *)
(***************************************************************************)
\* What a publication that is still alone has replaced is still there.
Undisturbed(q) ==
  q.alone =>
    /\ q.pc \in {"index", "receipt"} => ndjson = q.rows
    /\ q.pc = "receipt" => index # NoFile /\ index.digest = q.rows

FilesAgree ==
  settled # NoFile =>
    /\ ndjson = settled /\ projectionReceipt = settled
    /\ index # NoFile /\ index.digest = settled

\* A search that is to see the settled publication has its index open, and only
\* a runtime whose integrity check reaches the full-text index opens one.
Opened(s) ==
  s.pc = "open" =>
    /\ capable /\ s.file # NoFile
    /\ s.expected # NoFile => s.file.digest = s.expected

Answered(s) ==
  s.pc = "answered" =>
    /\ s.file.forged = "no"
    /\ s.receipt.ids = {x.id : x \in {y \in s.receipt.digest :
         y.id \in s.receipt.query /\ ~(s.receipt.excluding /\ y.superseded)}}
    /\ s.expected # NoFile => s.receipt.digest = s.expected

ProjectionInv ==
  /\ Projection!TypeOK
  /\ \A p \in Publisher : Undisturbed(publisher[p])
  /\ FilesAgree
  /\ \A r \in Reader : Opened(reader[r]) /\ Answered(reader[r])

\* Publications leave searches alone.
LEMMA SearchesUntouched ==
  ASSUME ProjectionInv, UNCHANGED <<capable, reader>>
  PROVE  \A r \in Reader : Opened(reader[r])' /\ Answered(reader[r])'
  BY DEF ProjectionInv, Opened, Answered

\* Searches leave the published files alone.
LEMMA FilesUntouched ==
  ASSUME ProjectionInv, UNCHANGED <<ndjson, index, projectionReceipt, publisher, settled>>
  PROVE  (\A p \in Publisher : Undisturbed(publisher[p]))' /\ FilesAgree'
  BY DEF ProjectionInv, Undisturbed, FilesAgree

LEMMA StageKeeps ==
  ASSUME ProjectionInv, NEW p \in Publisher, Projection!Stage(p)
  PROVE  ProjectionInv'
  <1>1. PICK vault \in Vaults, s \in Suppressed :
          publisher' = [publisher EXCEPT ![p] =
            [pc |-> "ndjson", rows |-> Projection!Visible(vault, s), alone |-> TRUE]]
    BY DEF Projection!Stage
  <1>2. UNCHANGED <<ndjson, index, projectionReceipt, capable, reader, settled>>
    BY DEF Projection!Stage, Projection!files
  <1>3. Projection!Visible(vault, s) \in Projection!RecordSets
    BY DEF Projection!Visible, Projection!RecordSets
  <1>4. Projection!TypeOK'
    BY <1>1, <1>2, <1>3 DEF ProjectionInv, Projection!TypeOK, Projection!PublicationType
  <1>5. (\A q \in Publisher : Undisturbed(publisher[q]))'
    BY <1>1, <1>2 DEF ProjectionInv, Projection!TypeOK, Undisturbed
  <1> QED
    BY <1>2, <1>4, <1>5, SearchesUntouched DEF ProjectionInv, FilesAgree

\* A publication that goes on, or is disturbed, keeps what it staged.
LEMMA PublicationMoves ==
  ASSUME NEW q \in Projection!PublicationType
  PROVE  /\ [q EXCEPT !.alone = FALSE] \in Projection!PublicationType
         /\ q.pc # "idle" =>
              /\ q.rows \in Projection!RecordSets
              /\ \A next \in {"index", "receipt"}, b \in BOOLEAN :
                   [q EXCEPT !.pc = next, !.alone = b] \in Projection!PublicationType
  BY DEF Projection!PublicationType

\* A replacement disturbs every other publication.
LEMMA ReplacedDisturbs ==
  ASSUME ProjectionInv, NEW p \in Publisher, NEW next \in {"index", "receipt"},
         publisher[p].pc # "idle", Projection!Replaced(p, next)
  PROVE  /\ publisher' \in [Publisher -> Projection!PublicationType]
         /\ publisher'[p].pc = next /\ publisher'[p].rows = publisher[p].rows
         /\ publisher'[p].alone => publisher[p].alone \/ publisher[p].pc = "ndjson"
         /\ \A q \in Publisher \ {p} : publisher'[q].alone = FALSE
  <1> DEFINE b == IF publisher[p].pc = "ndjson"
                  THEN \A o \in Publisher \ {p} : publisher[o].pc \in {"idle", "ndjson"}
                  ELSE publisher[p].alone
  <1>1. \A q \in Publisher : publisher[q] \in Projection!PublicationType
    BY DEF ProjectionInv, Projection!TypeOK
  <1>2. /\ b \in BOOLEAN /\ publisher[p].alone \in BOOLEAN
        /\ b => publisher[p].alone \/ publisher[p].pc = "ndjson"
    BY <1>1 DEF Projection!PublicationType
  <1>3. publisher' = [q \in Publisher |->
          IF q = p THEN [publisher[q] EXCEPT !.pc = next, !.alone = b]
          ELSE [publisher[q] EXCEPT !.alone = FALSE]]
    BY <1>1 DEF Projection!Replaced, Projection!PublicationType
  <1> HIDE DEF b
  <1>4. ASSUME NEW q \in Publisher PROVE publisher'[q] \in Projection!PublicationType
    BY <1>1, <1>2, <1>3, PublicationMoves
  <1>5. publisher' \in [Publisher -> Projection!PublicationType]
    BY <1>3, <1>4
  <1> QED
    BY <1>1, <1>2, <1>3, <1>5 DEF Projection!PublicationType

LEMMA ReplaceRecordsKeeps ==
  ASSUME ProjectionInv, NEW p \in Publisher, Projection!ReplaceRecords(p)
  PROVE  ProjectionInv'
  <1>1. /\ publisher[p].pc = "ndjson" /\ ndjson' = publisher[p].rows
        /\ Projection!Replaced(p, "index") /\ settled' = NoFile
        /\ UNCHANGED <<index, projectionReceipt, capable, reader>>
    BY DEF Projection!ReplaceRecords
  <1>2. Projection!TypeOK'
    <2>1. publisher[p].rows \in Projection!RecordSets
      BY <1>1, PublicationMoves DEF ProjectionInv, Projection!TypeOK
    <2> QED
      BY <1>1, <2>1, ReplacedDisturbs DEF ProjectionInv, Projection!TypeOK
  <1>3. (\A q \in Publisher : Undisturbed(publisher[q]))'
    BY <1>1, ReplacedDisturbs DEF Undisturbed
  <1> QED
    BY <1>1, <1>2, <1>3, SearchesUntouched DEF ProjectionInv, FilesAgree

LEMMA ReplaceIndexKeeps ==
  ASSUME ProjectionInv, NEW p \in Publisher, NoFile \notin Projection!Files, Projection!ReplaceIndex(p)
  PROVE  ProjectionInv'
  <1>1. /\ publisher[p].pc = "index" /\ index' = Projection!IndexOf(publisher[p].rows)
        /\ Projection!Replaced(p, "receipt") /\ settled' = NoFile
        /\ UNCHANGED <<ndjson, projectionReceipt, capable, reader>>
    BY DEF Projection!ReplaceIndex
  <1>2. index' \in Projection!Files /\ index'.digest = publisher[p].rows
    BY <1>1 DEF Projection!IndexOf, Projection!Files, ProjectionInv, Projection!TypeOK, Projection!PublicationType, Projection!RecordSets
  <1>3. Projection!TypeOK'
    BY <1>1, <1>2, ReplacedDisturbs DEF ProjectionInv, Projection!TypeOK
  <1>4. (\A q \in Publisher : Undisturbed(publisher[q]))'
    BY <1>1, <1>2, ReplacedDisturbs DEF Undisturbed, ProjectionInv
  <1> QED
    BY <1>1, <1>3, <1>4, SearchesUntouched DEF ProjectionInv, FilesAgree

LEMMA ReplaceReceiptKeeps ==
  ASSUME ProjectionInv, NEW p \in Publisher, Projection!ReplaceReceipt(p)
  PROVE  ProjectionInv'
  <1>1. /\ publisher[p].pc = "receipt" /\ projectionReceipt' = publisher[p].rows
        /\ publisher' = [q \in Publisher |->
             IF q = p THEN Projection!NotPublishing ELSE [publisher[q] EXCEPT !.alone = FALSE]]
        /\ settled' = IF publisher[p].alone THEN publisher[p].rows ELSE NoFile
        /\ UNCHANGED <<ndjson, index, capable, reader>>
    BY DEF Projection!ReplaceReceipt
  <1>2. Projection!TypeOK'
    BY <1>1 DEF ProjectionInv, Projection!TypeOK, Projection!PublicationType, Projection!RecordSets, Projection!NotPublishing
  <1>3. (\A q \in Publisher : Undisturbed(publisher[q]))'
    BY <1>1 DEF Undisturbed, ProjectionInv, Projection!TypeOK, Projection!PublicationType, Projection!NotPublishing
  <1>4. FilesAgree'
    BY <1>1 DEF FilesAgree, ProjectionInv, Undisturbed
  <1> QED
    BY <1>1, <1>2, <1>3, <1>4, SearchesUntouched DEF ProjectionInv

LEMMA PublisherDiesKeeps ==
  ASSUME ProjectionInv, NEW p \in Publisher, Projection!PublisherDies(p)
  PROVE  ProjectionInv'
  <1>1. /\ publisher' = [publisher EXCEPT ![p] = Projection!NotPublishing]
        /\ UNCHANGED <<ndjson, index, projectionReceipt, capable, reader, settled>>
    BY DEF Projection!PublisherDies, Projection!files
  <1>2. Projection!TypeOK'
    BY <1>1 DEF ProjectionInv, Projection!TypeOK, Projection!PublicationType, Projection!RecordSets, Projection!NotPublishing
  <1>3. (\A q \in Publisher : Undisturbed(publisher[q]))'
    BY <1>1 DEF Undisturbed, ProjectionInv, Projection!TypeOK, Projection!NotPublishing
  <1> QED
    BY <1>1, <1>2, <1>3, SearchesUntouched DEF ProjectionInv, FilesAgree

\* A reader r moves to x and nothing else changes.
LEMMA ReaderMoves ==
  ASSUME ProjectionInv, NEW r \in Reader, NEW x \in Projection!SearchType, Opened(x), Answered(x),
         reader' = [reader EXCEPT ![r] = x],
         UNCHANGED <<ndjson, index, projectionReceipt, capable, publisher, settled>>
  PROVE  ProjectionInv'
  <1>1. Projection!TypeOK'
    BY DEF ProjectionInv, Projection!TypeOK
  <1>2. ASSUME NEW s \in Reader
        PROVE  (Opened(reader[s]) /\ Answered(reader[s]))'
    <2>1. reader'[s] = IF s = r THEN x ELSE reader[s]
      BY DEF ProjectionInv, Projection!TypeOK
    <2> QED
      BY <2>1 DEF ProjectionInv, Opened, Answered
  <1> QED
    BY <1>1, <1>2, FilesUntouched DEF ProjectionInv

\* What the gate lets pass an altered index cannot be.
LEMMA GateHolds ==
  ASSUME ProjectionInv, NEW r \in Reader, reader[r].pc = "open", Projection!GatePasses(reader[r].file)
  PROVE  /\ reader[r].file \in Projection!Files
         /\ reader[r].file.forged = "no" /\ reader[r].file.digest = reader[r].file.rows
  BY DEF ProjectionInv, Projection!TypeOK, Projection!SearchType, Projection!NotReading, Opened,
         Projection!GatePasses, Projection!Files

\* A search that answers from the rows the gate let pass.
LEMMA AnswerHonest ==
  ASSUME ProjectionInv, NEW r \in Reader, reader[r].pc = "open", Projection!GatePasses(reader[r].file),
         NEW query \in SUBSET Projection!RecordIds, NEW excluding \in BOOLEAN, NEW ids,
         ids = Projection!Matching(reader[r].file, query, excluding),
         reader' = [reader EXCEPT ![r].pc = "answered", ![r].receipt =
           [ids |-> ids, query |-> query, excluding |-> excluding, digest |-> reader[r].file.digest]],
         UNCHANGED <<ndjson, index, projectionReceipt, capable, publisher, settled>>
  PROVE  ProjectionInv'
  <1> DEFINE answer == [ids |-> ids, query |-> query, excluding |-> excluding, digest |-> reader[r].file.digest]
             x == [reader[r] EXCEPT !.pc = "answered", !.receipt = answer]
  <1>1. reader[r] \in Projection!SearchType
    BY DEF ProjectionInv, Projection!TypeOK
  <1>2. reader' = [reader EXCEPT ![r] = x]
    BY <1>1 DEF ProjectionInv, Projection!TypeOK, Projection!SearchType
  <1>3. ids \in SUBSET Projection!RecordIds /\ reader[r].file.digest \in Projection!RecordSets
    BY GateHolds DEF Projection!Matching, Projection!RecordIds, Projection!RecordSets, Projection!Files
  <1>4. answer \in Projection!SearchReceipts
    BY <1>3 DEF Projection!SearchReceipts
  <1>5. x \in Projection!SearchType
    <2>1. reader[r] \in [pc : {"open"}, file : Projection!Files,
                         expected : Projection!RecordSets \cup {NoFile}, receipt : {NoFile}]
      BY <1>1 DEF Projection!SearchType, Projection!NotReading
    <2> HIDE DEF answer
    <2>2. x \in [pc : {"answered"}, file : Projection!Files,
                 expected : Projection!RecordSets \cup {NoFile},
                 receipt : Projection!SearchReceipts]
      BY <1>4, <2>1
    <2> QED
      BY <2>2 DEF Projection!SearchType
  <1>6. Opened(x)
    BY <1>1 DEF Opened, Projection!SearchType
  <1>7. /\ x.pc = "answered" /\ x.file = reader[r].file /\ x.expected = reader[r].expected
        /\ x.receipt.ids = ids /\ x.receipt.query = query /\ x.receipt.excluding = excluding
        /\ x.receipt.digest = reader[r].file.digest
    BY <1>1 DEF Projection!SearchType
  <1> HIDE DEF x, answer
  <1>8. Answered(x)
    BY <1>7, GateHolds DEF Answered, Projection!Matching, ProjectionInv, Opened
  <1> QED
    BY <1>2, <1>5, <1>6, <1>8, ReaderMoves

LEMMA OpenKeeps ==
  ASSUME ProjectionInv, NEW r \in Reader, Projection!Open(r)
  PROVE  ProjectionInv'
  <1> DEFINE x == [pc |-> "open", file |-> index, expected |-> settled, receipt |-> NoFile]
  <1>1. /\ Projection!Readable /\ reader' = [reader EXCEPT ![r] = x]
        /\ UNCHANGED <<ndjson, index, projectionReceipt, capable, publisher, settled>>
    BY DEF Projection!Open, Projection!files
  <1>2. x \in Projection!SearchType
    BY <1>1 DEF Projection!Readable, Projection!SearchType, ProjectionInv, Projection!TypeOK
  <1>3. Opened(x) /\ Answered(x)
    BY <1>1 DEF Projection!Readable, Opened, Answered, ProjectionInv, FilesAgree
  <1> QED
    BY <1>1, <1>2, <1>3, ReaderMoves

LEMMA SearchKeeps ==
  ASSUME ProjectionInv, NEW r \in Reader, Projection!Search(r) \/ Projection!Snapshot(r)
  PROVE  ProjectionInv'
  <1>1. reader[r].pc = "open" /\ Projection!GatePasses(reader[r].file)
    BY DEF Projection!Search, Projection!Snapshot
  <1>2. UNCHANGED <<ndjson, index, projectionReceipt, capable, publisher, settled>>
    BY DEF Projection!Search, Projection!Snapshot, Projection!files
  <1>3. CASE Projection!Search(r)
    BY <1>1, <1>2, <1>3, AnswerHonest DEF Projection!Search, Projection!RecordIds
  <1>4. CASE Projection!Snapshot(r)
    <2> DEFINE all == {x.id : x \in reader[r].file.rows}
    <2>1. all \in SUBSET Projection!RecordIds
      BY <1>1, GateHolds DEF Projection!RecordIds, Projection!Files
    <2>2. Projection!Matching(reader[r].file, all, FALSE) = all
      BY DEF Projection!Matching
    <2>3. reader' = [reader EXCEPT ![r].pc = "answered", ![r].receipt =
            [ids |-> all, query |-> all, excluding |-> FALSE, digest |-> reader[r].file.digest]]
      BY <1>4 DEF Projection!Snapshot
    <2> HIDE DEF all
    <2> QED
      BY <1>1, <1>2, <2>1, <2>2, <2>3, AnswerHonest
  <1> QED
    BY <1>3, <1>4

LEMMA LeaveKeeps ==
  ASSUME ProjectionInv, NEW r \in Reader, Projection!RefuseSearch(r) \/ Projection!Close(r)
  PROVE  ProjectionInv'
  <1>1. /\ reader' = [reader EXCEPT ![r] = Projection!NotReading]
        /\ UNCHANGED <<ndjson, index, projectionReceipt, capable, publisher, settled>>
    BY DEF Projection!RefuseSearch, Projection!Close, Projection!files
  <1>2. Projection!NotReading \in Projection!SearchType /\ Opened(Projection!NotReading) /\ Answered(Projection!NotReading)
    BY DEF Projection!NotReading, Projection!SearchType, Opened, Answered
  <1> QED
    BY <1>1, <1>2, ReaderMoves

\* An alteration in place changes no digest, and no answer already given.
LEMMA ForgeKeeps ==
  ASSUME ProjectionInv, NoFile \notin Projection!Files, Projection!Forge
  PROVE  ProjectionInv'
  <1>1. PICK how \in {"rows", "terms"} :
          /\ index' = [index EXCEPT !.forged = how]
          /\ \E touched \in SUBSET {r \in Reader : reader[r].pc = "open" /\ reader[r].file = index} :
               reader' = [r \in Reader |->
                  IF r \in touched THEN [reader[r] EXCEPT !.file = index'] ELSE reader[r]]
    BY DEF Projection!Forge
  <1>2. PICK touched \in SUBSET {r \in Reader : reader[r].pc = "open" /\ reader[r].file = index} :
          reader' = [r \in Reader |->
             IF r \in touched THEN [reader[r] EXCEPT !.file = index'] ELSE reader[r]]
    BY <1>1
  <1>3. index # NoFile /\ settled' = NoFile /\ UNCHANGED <<ndjson, projectionReceipt, capable, publisher>>
    BY DEF Projection!Forge
  <1>4. index \in Projection!Files /\ index' \in Projection!Files /\ index'.digest = index.digest
    BY <1>1, <1>3 DEF ProjectionInv, Projection!TypeOK, Projection!Files
  <1>5. ASSUME NEW r \in Reader
        PROVE  reader'[r] \in Projection!SearchType /\ (Opened(reader[r]) /\ Answered(reader[r]))'
    <2>1. reader[r] \in Projection!SearchType /\ Opened(reader[r]) /\ Answered(reader[r])
      BY DEF ProjectionInv, Projection!TypeOK
    <2>2. CASE r \in touched
      <3>1. reader'[r] = [reader[r] EXCEPT !.file = index'] /\ reader[r].pc = "open" /\ reader[r].file = index
        BY <1>2, <2>2
      <3>2. reader'[r] \in Projection!SearchType /\ reader'[r].pc = "open" /\ reader'[r].file = index'
            /\ reader'[r].expected = reader[r].expected
        BY <1>4, <2>1, <3>1 DEF Projection!SearchType, Projection!NotReading
      <3> QED
        BY <1>3, <1>4, <2>1, <3>1, <3>2 DEF Opened, Answered
    <2>3. CASE r \notin touched
      <3>1. reader'[r] = reader[r]
        BY <1>2, <2>3
      <3> QED
        BY <1>3, <2>1, <3>1 DEF Opened, Answered
    <2> QED
      BY <2>2, <2>3
  <1>6. Projection!TypeOK'
    <2>1. reader' \in [Reader -> Projection!SearchType]
      BY <1>2, <1>5
    <2> QED
      BY <1>3, <1>4, <2>1 DEF ProjectionInv, Projection!TypeOK
  <1>7. (\A q \in Publisher : Undisturbed(publisher[q]))'
    BY <1>3, <1>4 DEF ProjectionInv, Undisturbed
  <1> QED
    BY <1>3, <1>5, <1>6, <1>7 DEF ProjectionInv, FilesAgree

(***************************************************************************)
(* A search receipt names one published record set and finds in it what    *)
(* the query asks for, never a part of another publication or of an index  *)
(* altered in place, although publications overlap, die half-way and       *)
(* replace the file under a search; one opened after a publication nothing *)
(* disturbed answers from it (search_receipt under _read_index).           *)
(***************************************************************************)
THEOREM SearchesPinned ==
  ASSUME NoFile \notin Projection!Files
  PROVE  Projection!Spec => [](Projection!TypeOK /\ Projection!SearchPinned)
  <1>1. Projection!Init => ProjectionInv
    BY DEF Projection!Init, ProjectionInv, Projection!TypeOK, Undisturbed, FilesAgree, Opened, Answered,
           Projection!NotPublishing, Projection!NotReading, Projection!PublicationType, Projection!SearchType, Projection!RecordSets
  <1>2. ProjectionInv /\ [Projection!Next]_Projection!vars => ProjectionInv'
    <2> SUFFICES ASSUME ProjectionInv, [Projection!Next]_Projection!vars PROVE ProjectionInv'
      OBVIOUS
    <2>1. CASE UNCHANGED Projection!vars
      BY <2>1 DEF Projection!vars, ProjectionInv, Projection!TypeOK, Undisturbed, FilesAgree, Opened, Answered
    <2>2. ASSUME NEW p \in Publisher,
                 \/ Projection!Stage(p) \/ Projection!ReplaceRecords(p) \/ Projection!ReplaceIndex(p)
                 \/ Projection!ReplaceReceipt(p) \/ Projection!PublisherDies(p)
          PROVE  ProjectionInv'
      BY <2>2, StageKeeps, ReplaceRecordsKeeps, ReplaceIndexKeeps, ReplaceReceiptKeeps, PublisherDiesKeeps
    <2>3. ASSUME NEW r \in Reader,
                 \/ Projection!Open(r) \/ Projection!Search(r) \/ Projection!Snapshot(r)
                 \/ Projection!RefuseSearch(r) \/ Projection!Close(r)
          PROVE  ProjectionInv'
      BY <2>3, OpenKeeps, SearchKeeps, LeaveKeeps
    <2> QED
      BY <2>1, <2>2, <2>3, ForgeKeeps DEF Projection!Next
  <1>3. ProjectionInv => Projection!SearchPinned
    BY DEF ProjectionInv, FilesAgree, Answered, Projection!SearchPinned
  <1>4. ProjectionInv => Projection!TypeOK
    BY DEF ProjectionInv
  <1> QED
    BY <1>1, <1>2, <1>3, <1>4, PTL DEF Projection!Spec

-----------------------------------------------------------------------------
(***************************************************************************)
(* Context: what is selected                                               *)
(***************************************************************************)

LEMMA SameFinite == \A S : Context!IsFiniteSet(S) <=> IsFiniteSet(S)
  BY DEF Context!IsFiniteSet, IsFiniteSet

LEMMA SelectedOnes ==
  ASSUME Context!ContextConstants, NEW in \in Input, NEW r \in Context!With(in, "selected")
  PROVE  /\ r \in Context!Eligible(in) /\ r \in in.records /\ r.id \in in.chosen \ Context!Revoked(in)
         /\ r.rank <= in.allowed /\ r.freshness # "stale"
  BY DEF Context!With, Context!Verdict, Context!Eligible, Context!ContextConstants

\* Each record has one verdict.
LEMMA VerdictsPart ==
  ASSUME NEW in, NEW r \in in.records
  PROVE  Context!Verdict(in, r)
           \in {"selected", "lifecycle", "not-chosen", "revocation", "sensitivity", "freshness"}
  BY DEF Context!Verdict

LEMMA CountApart ==
  ASSUME NEW S, NEW T, IsFiniteSet(S), IsFiniteSet(T), S \cap T = {}
  PROVE  IsFiniteSet(S \cup T) /\ Cardinality(S \cup T) = Cardinality(S) + Cardinality(T)
  BY FS_Union, FS_EmptySet, FS_CardinalityType

LEMMA SameCount == \A S : Context!Cardinality(S) = Cardinality(S)
  BY DEF Cardinality, Context!Cardinality

LEMMA NothingLost ==
  ASSUME NEW in, IsFiniteSet(in.records)
  PROVE  Cardinality(Context!With(in, "selected")) + Context!Counts(in)["lifecycle"]
           + Context!Counts(in)["not-chosen"] + Context!Counts(in)["revocation"]
           + Context!Counts(in)["sensitivity"] + Context!Counts(in)["freshness"]
         = Cardinality(in.records)
  <1> DEFINE A == Context!With(in, "selected")
             B == Context!With(in, "lifecycle")
             C == Context!With(in, "not-chosen")
             D == Context!With(in, "revocation")
             E == Context!With(in, "sensitivity")
             F == Context!With(in, "freshness")
  <1>1. in.records = A \cup B \cup C \cup D \cup E \cup F
    BY VerdictsPart DEF Context!With
  <1>2. \A v, w : v # w => Context!With(in, v) \cap Context!With(in, w) = {}
    BY DEF Context!With
  <1>3. /\ A \cap B = {} /\ (A \cup B) \cap C = {} /\ (A \cup B \cup C) \cap D = {}
        /\ (A \cup B \cup C \cup D) \cap E = {} /\ (A \cup B \cup C \cup D \cup E) \cap F = {}
    <2>1. /\ A \cap B = {} /\ A \cap C = {} /\ A \cap D = {} /\ A \cap E = {} /\ A \cap F = {}
          /\ B \cap C = {} /\ B \cap D = {} /\ B \cap E = {} /\ B \cap F = {} /\ C \cap D = {}
          /\ C \cap E = {} /\ C \cap F = {} /\ D \cap E = {} /\ D \cap F = {} /\ E \cap F = {}
      BY <1>2
    <2> HIDE DEF A, B, C, D, E, F
    <2> QED
      BY <2>1
  <1>4. /\ IsFiniteSet(A) /\ IsFiniteSet(B) /\ IsFiniteSet(C) /\ IsFiniteSet(D)
        /\ IsFiniteSet(E) /\ IsFiniteSet(F)
    BY FS_Subset DEF Context!With
  <1>5. /\ Context!Counts(in)["lifecycle"] = Cardinality(B) /\ Context!Counts(in)["not-chosen"] = Cardinality(C)
        /\ Context!Counts(in)["revocation"] = Cardinality(D) /\ Context!Counts(in)["sensitivity"] = Cardinality(E)
        /\ Context!Counts(in)["freshness"] = Cardinality(F)
    BY SameCount DEF Context!Counts
  <1> HIDE DEF A, B, C, D, E, F
  <1>6. IsFiniteSet(A \cup B) /\ Cardinality(A \cup B) = Cardinality(A) + Cardinality(B)
    BY <1>3, <1>4, CountApart
  <1>7. /\ IsFiniteSet(A \cup B \cup C)
        /\ Cardinality(A \cup B \cup C) = Cardinality(A \cup B) + Cardinality(C)
    BY <1>3, <1>4, <1>6, CountApart
  <1>8. /\ IsFiniteSet(A \cup B \cup C \cup D)
        /\ Cardinality(A \cup B \cup C \cup D) = Cardinality(A \cup B \cup C) + Cardinality(D)
    BY <1>3, <1>4, <1>7, CountApart
  <1>9. /\ IsFiniteSet(A \cup B \cup C \cup D \cup E)
        /\ Cardinality(A \cup B \cup C \cup D \cup E) = Cardinality(A \cup B \cup C \cup D) + Cardinality(E)
    BY <1>3, <1>4, <1>8, CountApart
  <1>10. Cardinality(in.records) = Cardinality(A \cup B \cup C \cup D \cup E) + Cardinality(F)
    BY <1>1, <1>3, <1>4, <1>9, CountApart
  <1>11. Cardinality(in.records) = Cardinality(A) + Cardinality(B) + Cardinality(C) + Cardinality(D)
                                     + Cardinality(E) + Cardinality(F)
    BY <1>6, <1>7, <1>8, <1>9, <1>10
  <1> QED
    BY <1>5, <1>11 DEF A

\* What export_context checked of an input it did not refuse.
LEMMA NotRefused ==
  ASSUME NEW in, Context!Objections(in) = {}
  PROVE  /\ ~ Context!Duplicates(Context!Eligible(in))
         /\ Context!ReceiptsValid(in)
         /\ Context!Versions(in) # {}
         /\ \A r \in Context!With(in, "selected") : r.freshness # "future"
         /\ \A e \in in.evidence : e.limits # "bad"
         /\ \A e, f \in in.evidence : e.key = f.key => e = f
         /\ in.fits
  <1>1. \A i \in 1 .. 11 : ~ Context!Refusals(in)[i].holds
    BY DEF Context!Objections, Context!Refusals
  <1>2. /\ 2 \in 1 .. 11 /\ 4 \in 1 .. 11 /\ 5 \in 1 .. 11 /\ 6 \in 1 .. 11 /\ 7 \in 1 .. 11
        /\ 8 \in 1 .. 11 /\ 11 \in 1 .. 11
    OBVIOUS
  <1>3. ~ Context!Duplicates(Context!Eligible(in))
    BY <1>1, <1>2 DEF Context!Refusals
  <1>4. Context!ReceiptsValid(in)
    BY <1>1, <1>2 DEF Context!Refusals
  <1>5. Context!Versions(in) # {}
    BY <1>1, <1>2 DEF Context!Refusals
  <1>6. \A r \in Context!With(in, "selected") : r.freshness # "future"
    BY <1>1, <1>2 DEF Context!Refusals
  <1>7. \A e \in in.evidence : e.limits # "bad"
    BY <1>1, <1>2 DEF Context!Refusals
  <1>8. \A e, f \in in.evidence : e.key = f.key => e = f
    BY <1>1, <1>2 DEF Context!Refusals
  <1>9. in.fits
    BY <1>1, <1>2 DEF Context!Refusals
  <1> QED
    BY <1>3, <1>4, <1>5, <1>6, <1>7, <1>8, <1>9

LEMMA EvidenceBound ==
  ASSUME Context!ContextConstants, NEW in \in Input, NEW e \in Context!Bound(in)
  PROVE  /\ e.limits = "sorted" /\ e.key \in in.authorized
         /\ \E r \in Context!With(in, "selected") : e.binding = r.binding
         /\ \E f \in in.evidence : e = [key |-> f.key, binding |-> f.binding, limits |-> "sorted"]
  <1>1. PICK f \in in.evidence : f.key \in in.authorized /\ e = Context!Normalized(f)
    BY DEF Context!Bound, Context!Authorized
  <1>2. f = [key |-> f.key, binding |-> f.binding, limits |-> f.limits]
    BY DEF Context!ContextConstants
  <1>3. e = [key |-> f.key, binding |-> f.binding, limits |-> "sorted"]
    BY <1>1, <1>2 DEF Context!Normalized
  <1>4. \E r \in Context!With(in, "selected") : e.binding = r.binding
    BY DEF Context!Bound
  <1> QED
    BY <1>1, <1>3, <1>4

\* No receipt revokes a revision that was selected.
LEMMA SelectedUnrevoked ==
  ASSUME Context!ContextConstants, NEW in \in Input, NEW r \in Context!With(in, "selected"), NEW x \in in.revocations
  PROVE  Context!Revision(x) # <<r.id, r.rev>>
  <1> SUFFICES ASSUME Context!Revision(x) = <<r.id, r.rev>> PROVE FALSE
    OBVIOUS
  <1>1. Context!Revision(x) \in Context!RevisionsOf(Context!Eligible(in))
    BY SelectedOnes DEF Context!RevisionsOf
  <1>2. x \in Context!Applicable(in)
    BY <1>1 DEF Context!Applicable, Context!Historical
  <1>3. x[1] = r.id
    BY DEF Context!Revision
  <1>4. r.id \in Context!Revoked(in)
    BY <1>2, <1>3 DEF Context!Revoked
  <1> QED
    BY <1>4, SelectedOnes

LEMMA PackRecalled ==
  ASSUME Context!ContextConstants, NEW in \in Input, Context!Objections(in) = {}
  PROVE  Context!Recallable(Context!PackOf(in))
  <1> DEFINE p == Context!PackOf(in)
  <1>1. /\ p.version \in Context!Versions(in) /\ p.records = Context!With(in, "selected")
        /\ p.evidence = Context!Bound(in) /\ p.counts = Context!Counts(in)
        /\ p.policy = (Context!Revoked(in) # {})
        /\ p.receipts = {x[3] : x \in Context!Applicable(in)} /\ p.fits = in.fits
    BY NotRefused DEF Context!PackOf
  <1>2. /\ Context!Versions(in) \subseteq in.versions
        /\ "v2" \in Context!Versions(in) => Context!Revoked(in) = {}
        /\ "v3" \in Context!Versions(in) => Context!Revoked(in) # {}
        /\ Context!Ineligible(in) # {} => Context!Versions(in) \subseteq {"v4"}
    BY DEF Context!Versions
  <1> HIDE DEF p
  <1>3. p.version # "v4" => p.counts["lifecycle"] = 0
    <2> SUFFICES ASSUME p.version # "v4" PROVE p.counts["lifecycle"] = 0
      OBVIOUS
    <2>1. Context!With(in, "lifecycle") = {}
      BY <1>1, <1>2 DEF Context!With, Context!Verdict, Context!Ineligible
    <2> QED
      BY <1>1, <2>1, SameCount, FS_EmptySet DEF Context!Counts
  <1>4. p.counts["revocation"] > 0 => p.policy
    <2>1. CASE Context!With(in, "revocation") = {}
      BY <1>1, <2>1, SameCount, FS_EmptySet DEF Context!Counts
    <2>2. CASE Context!With(in, "revocation") # {}
      <3>1. PICK r \in in.records : Context!Verdict(in, r) = "revocation"
        BY <2>2 DEF Context!With
      <3>2. r.id \in Context!Revoked(in)
        BY <3>1 DEF Context!Verdict
      <3> QED
        BY <1>1, <3>2
    <2> QED
      BY <2>1, <2>2
  <1>5. p.policy = (p.receipts # {})
    <2>1. Context!Revoked(in) = {} <=> Context!Applicable(in) = {}
      BY DEF Context!Revoked
    <2>2. p.receipts = {} <=> Context!Applicable(in) = {}
      BY <1>1
    <2> QED
      BY <1>1, <2>1, <2>2
  <1>6. Context!SelectionValid(p)
    BY <1>1, <1>2, <1>3, <1>4, <1>5 DEF Context!SelectionValid, Context!ContextConstants
  <1>7. Context!RecordsValid(p)
    <2>1. ~ Context!Duplicates(p.records)
      BY <1>1, NotRefused, SelectedOnes DEF Context!Duplicates
    <2>2. \A r \in p.records : r.freshness = "current"
      BY <1>1, NotRefused, SelectedOnes DEF Context!ContextConstants
    <2> QED
      BY <2>1, <2>2 DEF Context!RecordsValid
  <1>8. Context!EvidenceValid(p)
    <2>1. \A e \in p.evidence : e.limits = "sorted" /\ e.binding \in {r.binding : r \in p.records}
      BY <1>1, EvidenceBound
    <2>2. ASSUME NEW e \in p.evidence, NEW f \in p.evidence, e.key = f.key PROVE e = f
      BY <1>1, <2>2, EvidenceBound, NotRefused
    <2> QED
      BY <2>1, <2>2 DEF Context!EvidenceValid
  <1> QED
    BY <1>1, <1>6, <1>7, <1>8, NotRefused DEF Context!Recallable, p

ContextInv ==
  /\ input \in Input
  /\ \/ pack = Nothing
     \/ \E code : pack = Context!Refused(code)
     \/ pack = Context!PackOf(input) /\ Context!Objections(input) = {}
  /\ recall \in {Nothing, TRUE}

LEMMA PackKnown ==
  ASSUME ContextInv, Context!IsPack(pack)
  PROVE  pack = Context!PackOf(input) /\ Context!Objections(input) = {}
  BY DEF ContextInv, Context!IsPack, Context!Refused

LEMMA NextContext ==
  ASSUME Context!ContextConstants, ContextInv, [Context!Next]_(Context!vars)
  PROVE  ContextInv'
  <1>1. CASE UNCHANGED Context!vars
    BY <1>1 DEF Context!vars, ContextInv
  <1>2. CASE Context!Export
    <2>1. UNCHANGED <<input, recall>>
      BY <1>2 DEF Context!Export
    <2>2. CASE Context!Objections(input) = {}
      <3>1. pack' = Context!PackOf(input)
        BY <1>2, <2>2 DEF Context!Export
      <3> QED
        BY <2>1, <2>2, <3>1 DEF ContextInv
    <2>3. CASE Context!Objections(input) # {}
      <3>1. \E code : pack' = Context!Refused(code)
        BY <1>2, <2>3 DEF Context!Export
      <3> QED
        BY <2>1, <3>1 DEF ContextInv
    <2> QED
      BY <2>2, <2>3
  <1>3. CASE Context!Recall
    <2>1. Context!IsPack(pack) /\ recall' = Context!Recallable(pack) /\ UNCHANGED <<input, pack>>
      BY <1>3 DEF Context!Recall
    <2>2. Context!Recallable(pack)
      BY <2>1, PackKnown, PackRecalled DEF ContextInv
    <2>3. recall' = TRUE
      BY <2>1, <2>2 DEF Context!Recallable
    <2> QED
      BY <2>1, <2>3 DEF ContextInv
  <1> QED
    BY <1>1, <1>2, <1>3 DEF Context!Next

\* Whatever pack export_context returns: the independent reader recalls it; it
\* is of a negotiated version; no record in it was revoked by a receipt for
\* that revision, superseded, unchosen, stale or too sensitive; the evidence it
\* discloses is authorized and bound by a record it shows; and selected and
\* excluded records add up to what was supplied, for inputs of any size.
THEOREM PacksStayHonest ==
  ASSUME Context!ContextConstants
  PROVE  Context!Spec => [](Context!TypeOK /\ Context!PackHonest)
  <1>1. Context!Init => ContextInv
    BY DEF Context!Init, ContextInv
  <1>2. ContextInv => Context!PackHonest
    <2> SUFFICES ASSUME ContextInv PROVE Context!PackHonest
      OBVIOUS
    <2>1. recall # FALSE
      BY DEF ContextInv, Context!ContextConstants
    <2>2. ASSUME Context!IsPack(pack)
          PROVE  /\ pack.version \in input.versions
                 /\ pack.records = Context!With(input, "selected")
                 /\ pack.evidence = Context!Bound(input) /\ pack.counts = Context!Counts(input)
                 /\ \A r \in Context!With(input, "selected") : r.freshness # "future"
      BY <2>2, PackKnown, NotRefused DEF Context!PackOf, Context!Versions
    <2>3. input \in Input /\ IsFiniteSet(input.records)
      BY SameFinite DEF ContextInv, Context!ContextConstants
    <2>4. ASSUME NEW r \in Context!With(input, "selected"), r.freshness # "future"
          PROVE  /\ \A x \in input.revocations : Context!Revision(x) # <<r.id, r.rev>>
                 /\ r.lifecycle \in {"accepted", "sealed"} /\ r.id \in input.chosen
                 /\ r.rank <= input.allowed /\ r.freshness = "current"
      BY <2>3, <2>4, SelectedOnes, SelectedUnrevoked DEF Context!Eligible, Context!ContextConstants
    <2>5. \A e \in Context!Bound(input) :
            e.key \in input.authorized /\ \E r \in Context!With(input, "selected") : r.binding = e.binding
      BY <2>3, EvidenceBound
    <2> QED
      BY <2>1, <2>2, <2>3, <2>4, <2>5, NothingLost, SameCount DEF Context!PackHonest
  <1>3. ContextInv => Context!TypeOK
    <2> SUFFICES ASSUME ContextInv PROVE Context!TypeOK
      OBVIOUS
    <2>1. ASSUME Context!IsPack(pack)
          PROVE  /\ pack = [version |-> pack.version, records |-> pack.records,
                            evidence |-> pack.evidence, counts |-> pack.counts,
                            policy |-> pack.policy, receipts |-> pack.receipts, fits |-> pack.fits]
                 /\ pack.version \in {"v2", "v3", "v4"} /\ pack.records \subseteq input.records
                 /\ pack.policy \in BOOLEAN /\ pack.fits \in BOOLEAN
      <3>1. pack = Context!PackOf(input) /\ Context!Objections(input) = {}
        BY <2>1, PackKnown
      <3>2. pack.version \in {"v2", "v3", "v4"}
        BY <2>1, PackKnown, NotRefused DEF Context!PackOf, Context!Versions
      <3>3. Context!With(input, "selected") \subseteq input.records
        BY DEF Context!With
      <3>4. input.fits \in BOOLEAN
        BY DEF ContextInv, Context!ContextConstants
      <3> QED
        BY <3>1, <3>2, <3>3, <3>4 DEF Context!PackOf
    <2>2. pack # Nothing /\ ~ Context!IsPack(pack) => DOMAIN pack = {"refused"}
      BY DEF ContextInv, Context!IsPack, Context!PackOf, Context!Refused
    <2> QED
      BY <2>1, <2>2 DEF ContextInv, Context!TypeOK
  <1> QED
    BY <1>1, <1>2, <1>3, NextContext, PTL DEF Context!Spec

-----------------------------------------------------------------------------
(***************************************************************************)
(* Kickoff: the task of the highest id                                     *)
(***************************************************************************)

LEMMA KickoffFinite == \A S : Kickoff!IsFiniteSet(S) <=> IsFiniteSet(S)
  BY DEF Kickoff!IsFiniteSet, IsFiniteSet

LEMMA Claims ==
  ASSUME Kickoff!KickoffConstants, NEW r \in Kickoff!Revision
  PROVE  /\ Kickoff!Claim(r) \in Kickoff!Revision /\ Kickoff!Claim(r).project = r.project
         /\ Kickoff!Claim(r).status = "claimed" /\ r.id \in Nat /\ r.status \in {"open", "claimed"}
  <1>1. PICK q \in Record : r = q \/ r = Kickoff!Claim(q)
    BY DEF Kickoff!Revision
  <1>2. /\ q = [task |-> q.task, id |-> q.id, status |-> "open", project |-> q.project, label |-> q.label]
        /\ q.id \in Nat
    BY DEF Kickoff!KickoffConstants
  <1>3. Kickoff!Claim(q) = [task |-> q.task, id |-> q.id, status |-> "claimed", project |-> q.project,
                            label |-> q.label]
    BY <1>2 DEF Kickoff!Claim
  <1>4. Kickoff!Claim(Kickoff!Claim(q)) = Kickoff!Claim(q)
    BY <1>3 DEF Kickoff!Claim
  <1>5. Kickoff!Claim(q) \in Kickoff!Revision
    BY DEF Kickoff!Revision
  <1>6. CASE r = q
    BY <1>2, <1>3, <1>5, <1>6
  <1>7. CASE r = Kickoff!Claim(q)
    BY <1>2, <1>3, <1>4, <1>5, <1>7
  <1> QED
    BY <1>1, <1>6, <1>7

LEMMA HighestExists ==
  ASSUME NEW S, IsFiniteSet(S), S # {}, \A r \in S : r.id \in Nat
  PROVE  \E r \in S : \A s \in S : s.id <= r.id
  <1> DEFINE Highest(T) == \E r \in T : \A s \in T : s.id <= r.id
             Bad == {n \in Nat : \E T \in SUBSET S : T # {} /\ Cardinality(T) = n /\ ~ Highest(T)}
  <1>1. Bad = {}
    <2> SUFFICES ASSUME Bad # {} PROVE FALSE
      OBVIOUS
    <2>1. PICK n \in Bad : \A m \in Bad : n <= m
      <3>1. Bad \in SUBSET Nat
        OBVIOUS
      <3> HIDE DEF Bad
      <3> QED
        BY <3>1, LeastExists
    <2>2. PICK T \in SUBSET S : T # {} /\ Cardinality(T) = n /\ ~ Highest(T)
      BY <2>1
    <2>3. PICK r \in T : TRUE
      BY <2>2
    <2>4. n \in Nat /\ T \ {r} \in SUBSET S /\ Cardinality(T \ {r}) = n - 1 /\ n - 1 \in Nat
      <3>1. n \in Nat /\ IsFiniteSet(T) /\ T \ {r} \in SUBSET S
        BY <2>1, <2>2, FS_Subset
      <3>2. IsFiniteSet(T \ {r}) /\ Cardinality(T \ {r}) = n - 1
        BY <2>2, <2>3, <3>1, FS_RemoveElement
      <3>3. Cardinality(T \ {r}) \in Nat
        BY <3>2, FS_CardinalityType
      <3> QED
        BY <3>1, <3>2, <3>3
    <2>5. n - 1 \notin Bad
      BY <2>1, <2>4
    <2>6. CASE T \ {r} = {}
      <3>1. \A s \in T : s.id <= r.id
        BY <2>3, <2>6
      <3> QED
        BY <2>2, <2>3, <3>1
    <2>7. CASE T \ {r} # {}
      <3>1. Highest(T \ {r})
        BY <2>4, <2>5, <2>7
      <3>2. PICK q \in T \ {r} : \A s \in T \ {r} : s.id <= q.id
        BY <3>1
      <3>3. q.id \in Nat /\ r.id \in Nat /\ \A s \in T : s.id \in Nat
        BY <2>3, <3>2
      <3>4. CASE r.id <= q.id
        BY <2>2, <3>2, <3>4
      <3>5. CASE ~ (r.id <= q.id)
        <4>1. \A s \in T : s.id <= r.id
          BY <3>2, <3>3, <3>5
        <4> QED
          BY <2>2, <2>3, <4>1
      <3> QED
        BY <3>4, <3>5
    <2> QED
      BY <2>6, <2>7
  <1>2. Cardinality(S) \in Nat
    BY FS_CardinalityType
  <1>3. Highest(S)
    BY <1>1, <1>2
  <1> QED
    BY <1>3

LEMMA SameKickoffCount == \A S : Kickoff!Cardinality(S) = Cardinality(S)
  BY DEF Cardinality, Kickoff!Cardinality

\* If not several are the latest, the one that is has the highest id of all.
LEMMA OneLatest ==
  ASSUME Kickoff!KickoffConstants, NEW open \in SUBSET Kickoff!Revision,
         ~ (Kickoff!Cardinality(Kickoff!Latest(open)) > 1)
  PROVE  /\ Kickoff!Cardinality(open) = Cardinality(open)
         /\ Cardinality(open) = 0 <=> Kickoff!Latest(open) = {}
         /\ \A r \in Kickoff!Latest(open) :
              /\ Kickoff!Latest(open) = {r} /\ r \in open
              /\ \A s \in open : s # r => s.id < r.id
  <1> DEFINE latest == Kickoff!Latest(open)
  <1>1. /\ IsFiniteSet(open) /\ IsFiniteSet(latest) /\ latest \subseteq open
        /\ \A r \in open : r.id \in Nat
    <2>1. IsFiniteSet(open)
      BY FS_Subset, KickoffFinite DEF Kickoff!KickoffConstants
    <2>2. latest \in SUBSET open
      BY DEF Kickoff!Latest
    <2> QED
      BY <2>1, <2>2, FS_Subset, Claims
  <1>2. latest = {} <=> open = {}
    BY <1>1, HighestExists DEF Kickoff!Latest
  <1>3. ASSUME NEW r \in latest, NEW s \in latest PROVE r = s
    <2> SUFFICES ASSUME r # s PROVE FALSE
      OBVIOUS
    <2>1. Cardinality(latest) \in Nat /\ Cardinality(latest) # 0 /\ Cardinality(latest) <= 1
      BY <1>1, <1>3, SameKickoffCount, FS_CardinalityType, FS_EmptySet
    <2>2. Cardinality(latest) = 1
      BY <2>1
    <2> HIDE DEF latest
    <2>3. \E x : latest = {x}
      BY <1>1, <2>2, FS_Singleton
    <2> QED
      BY <1>3, <2>3
  <1>4. \A r \in latest : latest = {r} /\ r \in open
    BY <1>1, <1>3
  <1>5. ASSUME NEW r \in latest, NEW s \in open, s # r PROVE s.id < r.id
    <2>1. s.id <= r.id /\ s.id \in Nat /\ r.id \in Nat
      BY <1>1, <1>5 DEF Kickoff!Latest
    <2>2. s.id # r.id
      <3> SUFFICES ASSUME s.id = r.id PROVE FALSE
        OBVIOUS
      <3>1. s \in latest
        BY <1>5 DEF Kickoff!Latest
      <3> QED
        BY <1>3, <1>5, <3>1
    <2> QED
      BY <2>1, <2>2
  <1> QED
    BY <1>1, <1>2, <1>4, <1>5, SameKickoffCount, FS_EmptySet

-----------------------------------------------------------------------------
(***************************************************************************)
(* Kickoff: the pages of an answer                                         *)
(***************************************************************************)
\* What g holds after each of m turns of a loop over the values of S.
LoopOf(g, S, first, next, m) ==
  /\ g \in [0 .. m -> S]
  /\ \A n \in 0 .. m : g[n] = IF n = 0 THEN first ELSE next[<<n, g[n - 1]>>]

\* Every loop ends: there is such a g.
LEMMA LoopExists ==
  ASSUME NEW S, NEW first \in S, NEW m \in Nat, NEW next \in [(1 .. m) \X S -> S]
  PROVE  \E g : LoopOf(g, S, first, next, m)
  <1> DEFINE Loops(g, k) ==
               /\ g \in [0 .. k -> S]
               /\ \A n \in 0 .. k : g[n] = IF n = 0 THEN first ELSE next[<<n, g[n - 1]>>]
             Missed == {k \in 0 .. m : ~ \E g : Loops(g, k)}
  <1>1. Missed = {}
    <2> SUFFICES ASSUME Missed # {} PROVE FALSE
      OBVIOUS
    <2>1. PICK k \in Missed : \A i \in Missed : k <= i
      <3>1. Missed \in SUBSET Nat
        OBVIOUS
      <3> HIDE DEF Missed
      <3> QED
        BY <3>1, LeastExists
    <2>2. k \in 0 .. m /\ \A g : ~ Loops(g, k)
      BY <2>1
    <2>3. CASE k = 0
      <3> DEFINE g == [n \in 0 .. 0 |-> first]
      <3>1. g \in [0 .. 0 -> S] /\ \A n \in 0 .. 0 : n = 0 /\ g[n] = first
        OBVIOUS
      <3> HIDE DEF g
      <3>2. Loops(g, 0)
        BY <3>1
      <3> HIDE DEF Loops
      <3> QED
        BY <2>2, <2>3, <3>2
    <2>4. CASE k # 0
      <3>1. k - 1 \in 0 .. m /\ k - 1 \notin Missed /\ k \in 1 .. m
        BY <2>1, <2>2, <2>4
      <3>2. PICK g : Loops(g, k - 1)
        BY <3>1
      <3> DEFINE h == [n \in 0 .. k |-> IF n = k THEN next[<<k, g[k - 1]>>] ELSE g[n]]
      <3>3. \A n \in 0 .. k : n = k \/ n \in 0 .. k - 1
        BY <2>2
      <3>4. g[k - 1] \in S /\ \A n \in 0 .. k - 1 : g[n] \in S
        BY <3>1, <3>2
      <3>5. next[<<k, g[k - 1]>>] \in S
        BY <3>1, <3>4
      <3>6. h \in [0 .. k -> S]
        BY <3>3, <3>4, <3>5
      <3>7. \A n \in 0 .. k : h[n] = IF n = 0 THEN first ELSE next[<<n, h[n - 1]>>]
        <4> SUFFICES ASSUME NEW n \in 0 .. k
                     PROVE h[n] = IF n = 0 THEN first ELSE next[<<n, h[n - 1]>>]
          OBVIOUS
        <4>1. n # 0 => n - 1 \in 0 .. k /\ n - 1 # k /\ h[n - 1] = g[n - 1]
          BY <2>2
        <4>2. CASE n = k
          BY <2>2, <2>4, <4>1, <4>2
        <4>3. CASE n # k
          <5>1. n \in 0 .. k - 1 /\ h[n] = g[n]
            BY <3>3, <4>3
          <5> QED
            BY <3>2, <4>1, <5>1
        <4> QED
          BY <4>2, <4>3
      <3> HIDE DEF h
      <3>8. Loops(h, k)
        BY <3>6, <3>7
      <3> HIDE DEF Loops
      <3> QED
        BY <2>2, <3>8
    <2> QED
      BY <2>3, <2>4
  <1>2. m \in 0 .. m
    OBVIOUS
  <1> QED
    BY <1>1, <1>2 DEF LoopOf

\* What is in S at first and stays in S at each turn is in S for good.
LEMMA StaysIn ==
  ASSUME NEW S, NEW m \in Nat, NEW g, g[0] \in S, \A n \in 1 .. m : g[n - 1] \in S => g[n] \in S
  PROVE  \A n \in 0 .. m : g[n] \in S
  <1> DEFINE Wrong == {n \in 0 .. m : g[n] \notin S}
  <1> SUFFICES ASSUME Wrong # {} PROVE FALSE
    OBVIOUS
  <1>1. PICK n \in Wrong : \A k \in Wrong : n <= k
    <2>1. Wrong \in SUBSET Nat
      OBVIOUS
    <2> HIDE DEF Wrong
    <2> QED
      BY <2>1, LeastExists
  <1>2. n \in 1 .. m /\ n - 1 \in 0 .. m /\ ~ (n <= n - 1)
    BY <1>1
  <1>3. g[n - 1] \in S
    BY <1>1, <1>2
  <1> QED
    BY <1>1, <1>2, <1>3

\* One more record: no page is lost.
LEMMA PageAdded ==
  ASSUME NEW E, NEW g \in Seq(Seq(E)) \ {<<>>}, NEW r \in E
  PROVE  Kickoff!Paged(g, r) \in Seq(Seq(E)) \ {<<>>}
  <1>1. Len(g) \in Nat \ {0} /\ Len(g) \in 1 .. Len(g) /\ g[Len(g)] \in Seq(E)
    <2>1. Len(g) \in Nat \ {0}
      BY EmptySeq
    <2>2. Len(g) \in 1 .. Len(g)
      BY <2>1
    <2> QED
      BY <2>1, <2>2, ElementOfSeq
  <1>2. Append(g[Len(g)], r) \in Seq(E)
    BY <1>1, AppendProperties
  <1>3. [g EXCEPT ![Len(g)] = Append(@, r)] = [g EXCEPT ![Len(g)] = Append(g[Len(g)], r)]
    OBVIOUS
  <1>4. /\ [g EXCEPT ![Len(g)] = Append(@, r)] \in Seq(Seq(E))
        /\ Len([g EXCEPT ![Len(g)] = Append(@, r)]) = Len(g)
    BY <1>1, <1>2, <1>3, ExceptSeq
  <1>5. Len(<<>>) = 0
    OBVIOUS
  <1>6. [g EXCEPT ![Len(g)] = Append(@, r)] # <<>>
    BY <1>1, <1>4, <1>5
  <1>7. <<r>> \in Seq(E)
    OBVIOUS
  <1>8. Append(g, <<r>>) \in Seq(Seq(E)) /\ Append(g, <<r>>) # <<>>
    BY <1>7, AppendProperties
  <1> QED
    BY <1>4, <1>6, <1>8 DEF Kickoff!Paged

LEMMA PagesCounted ==
  ASSUME NEW E, NEW c \in Seq(E)
  PROVE  Len(Kickoff!PageGroups(c)) \in Nat \ {0}
  <1> DEFINE G == Seq(Seq(E)) \ {<<>>}
             Runs(h) == h = [n \in 0 .. Len(c) |->
                              IF n = 0 THEN << <<>> >> ELSE Kickoff!Paged(h[n - 1], c[n])]
             g == CHOOSE h : Runs(h)
             next == [z \in (1 .. Len(c)) \X G |-> Kickoff!Paged(z[2], c[z[1]])]
  <1>1. Len(c) \in Nat /\ << <<>> >> \in G /\ \A n \in 1 .. Len(c) : c[n] \in E
    <2>1. <<>> \in Seq(E)
      OBVIOUS
    <2>2. << <<>> >> \in Seq(Seq(E)) /\ Len(<< <<>> >>) = 1 /\ Len(<<>>) = 0
      BY <2>1
    <2> QED
      BY <2>2, LenProperties, ElementOfSeq
  <1>2. next \in [(1 .. Len(c)) \X G -> G]
    BY <1>1, PageAdded
  <1>3. \E h : Runs(h)
    <2> HIDE DEF next, Runs, G
    <2>1. PICK h : LoopOf(h, G, << <<>> >>, next, Len(c))
      BY <1>1, <1>2, LoopExists
    <2> USE DEF next
    <2>2. ASSUME NEW n \in 0 .. Len(c), n # 0
          PROVE  next[<<n, h[n - 1]>>] = Kickoff!Paged(h[n - 1], c[n])
      <3>1. n \in 1 .. Len(c) /\ n - 1 \in 0 .. Len(c)
        BY <1>1, <2>2
      <3>2. <<n, h[n - 1]>> \in (1 .. Len(c)) \X G
        BY <2>1, <3>1 DEF LoopOf
      <3> QED
        BY <3>2
    <2> HIDE DEF next
    <2>3. h = [n \in 0 .. Len(c) |-> IF n = 0 THEN << <<>> >> ELSE Kickoff!Paged(h[n - 1], c[n])]
      BY <2>1, <2>2 DEF LoopOf
    <2> QED
      BY <2>3 DEF Runs
  <1>4. Runs(g) /\ Kickoff!PageGroups(c) = g[Len(c)]
    BY <1>3 DEF Kickoff!PageGroups
  <1> HIDE DEF g
  <1>5. \A n \in 0 .. Len(c) : g[n] = IF n = 0 THEN << <<>> >> ELSE Kickoff!Paged(g[n - 1], c[n])
    BY <1>4
  <1>6. \A n \in 1 .. Len(c) : n \in 0 .. Len(c) /\ n # 0 /\ n - 1 \in 0 .. Len(c)
    BY <1>1
  <1>7. g[0] \in G /\ \A n \in 1 .. Len(c) : g[n - 1] \in G => g[n] \in G
    <2>1. g[0] = << <<>> >> /\ \A n \in 1 .. Len(c) : g[n] = Kickoff!Paged(g[n - 1], c[n])
      BY <1>1, <1>5, <1>6
    <2>2. ASSUME NEW n \in 1 .. Len(c), g[n - 1] \in G PROVE g[n] \in G
      <3>1. Kickoff!Paged(g[n - 1], c[n]) \in G
        BY <1>1, <2>2, PageAdded
      <3> QED
        BY <2>1, <3>1
    <2> HIDE DEF G
    <2> QED
      BY <1>1, <2>1, <2>2
  <1>8. g[Len(c)] \in G
    <2>1. Len(c) \in 0 .. Len(c)
      BY <1>1
    <2> HIDE DEF G
    <2> QED
      BY <1>1, <1>7, <2>1, StaysIn
  <1> QED
    BY <1>4, <1>8, EmptySeq

\* The records of an answer are a sequence.
LEMMA SortedSeq ==
  ASSUME NEW S, IsFiniteSet(S)
  PROVE  \E E : Kickoff!Sorted(S) \in Seq(E)
  <1> DEFINE first(i) == CHOOSE r \in S : Kickoff!Cardinality({s \in S : Kickoff!Before(s, r)}) = i - 1
             m == Kickoff!Cardinality(S)
             E == {first(i) : i \in 1 .. m}
  <1>1. m \in Nat
    BY FS_CardinalityType, SameKickoffCount
  <1>2. Kickoff!Sorted(S) = [i \in 1 .. m |-> first(i)]
    BY DEF Kickoff!Sorted
  <1>3. [i \in 1 .. m |-> first(i)] \in [1 .. m -> E]
    OBVIOUS
  <1> HIDE DEF m, first
  <1>4. [i \in 1 .. m |-> first(i)] \in Seq(E)
    BY <1>1, <1>3
  <1> QED
    BY <1>2, <1>4

-----------------------------------------------------------------------------
(***************************************************************************)
(* Kickoff: the inductive invariant                                        *)
(***************************************************************************)
ClaimAnswerType ==
  [time : Nat, label : Label, generation : Nat, members : SUBSET Kickoff!Revision, pages : Nat]

\* A receipt is of an answer of the hub, and pairs are what that answer showed.
ShownIn(shown, receipt, pairs) ==
  /\ receipt.time \in 1 .. Len(shown)
  /\ receipt.members = shown[receipt.time].members /\ pairs = receipt.members
  /\ pairs \subseteq Kickoff!Revision

PullerOK(q, shown) ==
  /\ q.step \in {"idle", "answered", "verified", "applying"}
  /\ q.step = "answered" => q.time \in 1 .. Len(shown)
  /\ q.step \in {"verified", "applying"} => ShownIn(shown, q.receipt, q.pairs)
  /\ q.step = "applying" => q = [step |-> q.step, receipt |-> q.receipt, pairs |-> q.pairs, todo |-> q.todo]

\* An open pack against what the hub showed in the answer it is made of.
PackOK(s, members, known) ==
  LET mine == {r \in members : s.link # Nothing /\ r.project = s.link.project}
      open == {r \in mine : r.status = "open" /\ Kickoff!Claim(r) \notin mine}
  IN /\ s.receipt.members = members
     /\ s.link = Nothing => s.records = s.receipt.members
     /\ s.link # Nothing =>
          /\ s.link \in known
          /\ s.receipt.label = s.link.label
          /\ s.count = Kickoff!Cardinality(open)
          /\ s.count = 0 <=> s.selected = {}
          /\ \A r \in s.selected :
               /\ s.selected = {r} /\ r \in open /\ r.label = s.link.label
               /\ Kickoff!Claim(r) \notin s.seen
               /\ \A q \in open : q # r => q.id < r.id

SessionOK(s, shown, known, projection) ==
  /\ s.step \in {"idle", "linked", "open"}
  /\ s.step = "linked" => s.link \in known
  /\ s.step = "open" =>
       /\ projection # Nothing /\ projection.receipt = s.receipt
       /\ PackOK(s, shown[s.receipt.time].members, known)

KickoffInv ==
  /\ hub.records \subseteq Kickoff!Revision /\ hub.label \in Label /\ hub.generation \in Nat
  /\ hub = [records |-> hub.records, label |-> hub.label, generation |-> hub.generation]
  /\ issued \in Seq(ClaimAnswerType) /\ Len(issued) = time
  /\ \A t \in 1 .. Len(issued) : issued[t].time = t
  /\ links \subseteq Link /\ \A l, m \in links : l.project = m.project => l = m
  /\ marker # Nothing => ShownIn(issued, marker.receipt, marker.pairs)
  /\ PullerOK(puller, issued)
  /\ SessionOK(session, issued, links, marker)
  /\ ~ (puller.step = "applying" /\ session.step = "open")

\* What an open pack holds.
PackTyped(s) ==
  s.step = "open" =>
    /\ s.link \in Link \cup {Nothing} /\ s.count \in Nat
    /\ s.seen \subseteq Kickoff!Revision /\ s.selected \subseteq Kickoff!Revision
    /\ s.records \subseteq Kickoff!Revision

\* What a pull has verified is typed, what it has yet to write is all that the
\* vault lacks of it, and a marker is published over records the vault has.
KickoffTyped ==
  /\ time \in 0 .. MaxPulls
  /\ local \subseteq Kickoff!Revision
  /\ appends \in 0 .. MaxAppends
  /\ puller.step \in {"verified", "applying"} => puller.receipt \in Kickoff!ReceiptType
  /\ puller.step = "applying" =>
       puller.todo \subseteq Kickoff!Revision /\ puller.pairs \subseteq local \cup puller.todo
  /\ marker # Nothing => marker.receipt \in Kickoff!ReceiptType /\ marker.pairs \subseteq local
  /\ PackTyped(session)

LEMMA PackIsTrue ==
  ASSUME KickoffInv, KickoffTyped
  PROVE  Kickoff!PackTrue
  <1>1. marker # Nothing =>
          marker.pairs = issued[marker.receipt.time].members /\ marker.pairs \subseteq local
    BY DEF KickoffInv, KickoffTyped, ShownIn
  <1>2. ASSUME session.step = "open"
        PROVE  /\ marker.receipt = session.receipt
               /\ PackOK(session, issued[session.receipt.time].members, links)
    BY <1>2 DEF KickoffInv, SessionOK
  <1>3. \A link \in links : {l \in links : l.project = link.project} = {link}
    BY DEF KickoffInv
  <1> QED
    BY <1>1, <1>2, <1>3 DEF Kickoff!PackTrue, PackOK

\* Only the hub and its answers changed, and no answer was lost.
LEMMA MoreIssued ==
  ASSUME NEW shown \in Seq(ClaimAnswerType), NEW x \in ClaimAnswerType, NEW receipt, NEW pairs,
         ShownIn(shown, receipt, pairs)
  PROVE  /\ ShownIn(Append(shown, x), receipt, pairs)
         /\ Append(shown, x)[receipt.time] = shown[receipt.time]
  <1>1. Len(shown) \in Nat /\ Len(Append(shown, x)) = Len(shown) + 1
        /\ \A i \in 1 .. Len(shown) : Append(shown, x)[i] = shown[i]
    BY AppendProperties, LenProperties
  <1> QED
    BY <1>1 DEF ShownIn

LEMMA MarkKeeps ==
  ASSUME Kickoff!KickoffConstants, KickoffInv, NEW r \in Kickoff!Revision, Kickoff!Admit(r)
  PROVE  KickoffInv'
  <1>1. /\ hub' = [records |-> hub.records \cup {r}, label |-> hub.label, generation |-> hub.generation]
        /\ UNCHANGED <<issued, time, links, local, marker, puller, session, appends>>
    BY DEF Kickoff!Admit, KickoffInv
  <1> QED
    BY <1>1 DEF KickoffInv

LEMMA RebindKeeps ==
  ASSUME Kickoff!KickoffConstants, KickoffInv, NEW l \in Label, Kickoff!Rebind(l)
  PROVE  KickoffInv'
  <1>1. /\ hub' = [records |-> hub.records, label |-> l, generation |-> hub.generation + 1]
        /\ UNCHANGED <<issued, time, links, local, marker, puller, session, appends>>
    BY DEF Kickoff!Rebind, KickoffInv
  <1> QED
    BY <1>1 DEF KickoffInv

LEMMA OnboardKeeps ==
  ASSUME Kickoff!KickoffConstants, KickoffInv, NEW link \in Link, Kickoff!Onboard(link)
  PROVE  KickoffInv'
  <1>1. /\ \A other \in links : other.project # link.project
        /\ links' = links \cup {link}
        /\ UNCHANGED <<hub, issued, time, local, marker, puller, session, appends>>
    BY DEF Kickoff!Onboard
  <1>2. links' \subseteq Link /\ \A l, m \in links' : l.project = m.project => l = m
    BY <1>1 DEF KickoffInv
  <1>3. SessionOK(session, issued, links', marker)
    BY <1>1 DEF KickoffInv, SessionOK, PackOK
  <1> QED
    BY <1>1, <1>2, <1>3 DEF KickoffInv

LEMMA BuildKeeps ==
  ASSUME Kickoff!KickoffConstants, KickoffInv, Kickoff!BuildPullResponse
  PROVE  KickoffInv'
  <1> DEFINE x == [time |-> time', label |-> hub.label, generation |-> hub.generation,
                   members |-> {r \in hub.records : r.project \in Reads[hub.label]}, pages |-> 0]
  <1>1. /\ time' = time + 1 /\ issued' = Append(issued, x)
        /\ puller' = [step |-> "answered", time |-> time']
        /\ UNCHANGED <<hub, local, marker, links, session, appends>>
    BY DEF Kickoff!BuildPullResponse, Kickoff!PullerOnly
  <1>2. time \in Nat /\ x \in ClaimAnswerType
    BY <1>1, LenProperties DEF KickoffInv, ClaimAnswerType
  <1> HIDE DEF x
  <1>3. issued' \in Seq(ClaimAnswerType) /\ Len(issued') = time'
    BY <1>1, <1>2, AppendProperties DEF KickoffInv
  <1>4. \A t \in 1 .. Len(issued') : issued'[t].time = t
    <2>1. \A t \in 1 .. Len(issued') : t \in 1 .. Len(issued) \/ t = Len(issued) + 1
      BY <1>1, <1>2, <1>3 DEF KickoffInv
    <2>2. /\ \A t \in 1 .. Len(issued) : issued'[t] = issued[t]
          /\ issued'[Len(issued) + 1] = x /\ x.time = Len(issued) + 1
      BY <1>1, <1>2, AppendProperties DEF KickoffInv, x
    <2> QED
      BY <2>1, <2>2 DEF KickoffInv
  <1>5. marker # Nothing => /\ ShownIn(issued', marker.receipt, marker.pairs)
                            /\ issued'[marker.receipt.time] = issued[marker.receipt.time]
    BY <1>1, <1>2, MoreIssued DEF KickoffInv
  <1>6. PullerOK(puller', issued')
    BY <1>1, <1>2, <1>3 DEF PullerOK
  <1>7. SessionOK(session, issued', links, marker)
    BY <1>5 DEF KickoffInv, SessionOK
  <1>8. puller'.step # "applying"
    BY <1>1
  <1> QED
    BY <1>1, <1>3, <1>4, <1>5, <1>6, <1>7, <1>8 DEF KickoffInv

\* A step of the puller that leaves the rest alone.
LEMMA PullerKeeps ==
  ASSUME KickoffInv, UNCHANGED <<hub, issued, time, marker, links, session>>, PullerOK(puller', issued),
         ~ (puller'.step = "applying" /\ session.step = "open")
  PROVE  KickoffInv'
  BY DEF KickoffInv

LEMMA ResponseFields ==
  ASSUME NEW t
  PROVE  \E a, b, c : /\ Kickoff!ResponseOf(t) = [receipt |-> a, pages |-> b, records |-> c]
                      /\ a = [issued[t] EXCEPT !.pages = Len(c)]
  BY DEF Kickoff!ResponseOf

LEMMA DamagedReceipt ==
  ASSUME Kickoff!KickoffConstants, NEW damage \in Damages, NEW a, NEW b, NEW c, NEW other
  PROVE  Kickoff!Damaged([receipt |-> a, pages |-> b, records |-> c], other, damage).receipt = a
  BY DEF Kickoff!Damaged, Kickoff!KickoffConstants

LEMMA VerifyKeeps ==
  ASSUME Kickoff!KickoffConstants, KickoffInv, NEW t \in 1 .. time, NEW damage \in Damages,
         Kickoff!VerifyResponse(t, damage)
  PROVE  KickoffInv'
  <1> DEFINE response == Kickoff!Damaged(Kickoff!ResponseOf(puller.time), Kickoff!ResponseOf(t), damage)
  <1>1. /\ puller.step = "answered"
        /\ puller' = IF Kickoff!Verified(response)
                     THEN [step |-> "verified", receipt |-> response.receipt,
                           pairs |-> Kickoff!ToSet(Kickoff!PairsOf(response.pages))]
                     ELSE Kickoff!Idle
        /\ UNCHANGED <<hub, issued, time, local, marker, links, session, appends>>
    BY DEF Kickoff!VerifyResponse, Kickoff!PullerOnly
  <1>2. puller.time \in 1 .. Len(issued) /\ issued[puller.time] \in ClaimAnswerType
    BY <1>1, ElementOfSeq DEF KickoffInv, PullerOK
  <1>3. PICK n : response.receipt = [issued[puller.time] EXCEPT !.pages = n]
    <2>1. PICK a, b, c : /\ Kickoff!ResponseOf(puller.time) = [receipt |-> a, pages |-> b, records |-> c]
                         /\ a = [issued[puller.time] EXCEPT !.pages = Len(c)]
      BY ResponseFields
    <2>2. response.receipt = a
      BY <2>1, DamagedReceipt
    <2> QED
      BY <2>1, <2>2
  <1>4. Kickoff!Verified(response) =>
          Kickoff!ToSet(Kickoff!PairsOf(response.pages)) = response.receipt.members
    BY DEF Kickoff!Verified, Kickoff!PagesWhole
  <1> HIDE DEF response
  <1>5. /\ response.receipt.time = puller.time
        /\ response.receipt.members = issued[puller.time].members
        /\ issued[puller.time].members \subseteq Kickoff!Revision
    BY <1>2, <1>3 DEF ClaimAnswerType, KickoffInv
  <1>6. CASE Kickoff!Verified(response)
    <2>1. puller' = [step |-> "verified", receipt |-> response.receipt, pairs |-> response.receipt.members]
      BY <1>1, <1>4, <1>6
    <2>2. ShownIn(issued, response.receipt, response.receipt.members)
      BY <1>2, <1>5 DEF ShownIn
    <2>3. PullerOK(puller', issued) /\ puller'.step # "applying"
      BY <2>1, <2>2 DEF PullerOK
    <2> QED
      BY <1>1, <2>3, PullerKeeps
  <1>7. CASE ~ Kickoff!Verified(response)
    <2>1. PullerOK(puller', issued) /\ puller'.step # "applying"
      BY <1>1, <1>7 DEF PullerOK, Kickoff!Idle
    <2> QED
      BY <1>1, <2>1, PullerKeeps
  <1> QED
    BY <1>6, <1>7

LEMMA BeginApplyKeeps ==
  ASSUME Kickoff!KickoffConstants, KickoffInv, NEW noted \in BOOLEAN, Kickoff!BeginApply(noted)
  PROVE  KickoffInv'
  <1>1. /\ puller.step = "verified" /\ session.step # "open"
        /\ \/ puller' = [step |-> "applying", receipt |-> puller.receipt, pairs |-> puller.pairs,
                         todo |-> puller.pairs]
           \/ puller' = Kickoff!Idle
        /\ UNCHANGED <<hub, issued, time, local, marker, links, session, appends>>
    BY DEF Kickoff!BeginApply, Kickoff!PullerOnly, Kickoff!ProjectionLockFree
  <1>2. ShownIn(issued, puller.receipt, puller.pairs)
    BY <1>1 DEF KickoffInv, PullerOK
  <1>3. PullerOK(puller', issued)
    BY <1>1, <1>2 DEF PullerOK, Kickoff!Idle
  <1> QED
    BY <1>1, <1>3, PullerKeeps

LEMMA WriteLocalKeeps ==
  ASSUME Kickoff!KickoffConstants, KickoffInv, Kickoff!WriteRecord
  PROVE  KickoffInv'
  <1>1. /\ puller.step = "applying" /\ session.step # "open"
        /\ \E r \in puller.todo : puller' = [puller EXCEPT !.todo = @ \ {r}]
        /\ UNCHANGED <<hub, issued, time, marker, links, session, appends>>
    BY DEF Kickoff!WriteRecord, Kickoff!PullerOnly, KickoffInv
  <1>2. /\ puller = [step |-> puller.step, receipt |-> puller.receipt, pairs |-> puller.pairs, todo |-> puller.todo]
        /\ ShownIn(issued, puller.receipt, puller.pairs)
    BY <1>1 DEF KickoffInv, PullerOK
  <1>3. \E rest : puller' = [step |-> puller.step, receipt |-> puller.receipt, pairs |-> puller.pairs,
                             todo |-> rest]
    BY <1>1, <1>2
  <1>4. PullerOK(puller', issued)
    BY <1>1, <1>2, <1>3 DEF PullerOK
  <1> QED
    BY <1>1, <1>4, PullerKeeps

LEMMA PublishMarkerKeeps ==
  ASSUME Kickoff!KickoffConstants, KickoffInv, Kickoff!PublishMarker
  PROVE  KickoffInv'
  <1>1. /\ puller.step = "applying" /\ session.step # "open"
        /\ marker' = [receipt |-> puller.receipt, pairs |-> puller.pairs] /\ puller' = Kickoff!Idle
        /\ UNCHANGED <<hub, issued, time, local, links, session, appends>>
    BY DEF Kickoff!PublishMarker, Kickoff!PullerOnly, KickoffInv
  <1>2. ShownIn(issued, marker'.receipt, marker'.pairs)
    BY <1>1 DEF KickoffInv, PullerOK
  <1>3. PullerOK(puller', issued) /\ puller'.step # "applying"
    BY <1>1 DEF PullerOK, Kickoff!Idle
  <1>4. SessionOK(session, issued, links, marker')
    BY <1>1 DEF KickoffInv, SessionOK
  <1> QED
    BY <1>1, <1>2, <1>3, <1>4 DEF KickoffInv

LEMMA DyingKeeps ==
  ASSUME KickoffInv, Kickoff!PullerDies
  PROVE  KickoffInv'
  <1>1. puller' = Kickoff!Idle /\ UNCHANGED <<hub, issued, time, local, marker, links, session, appends>>
    BY DEF Kickoff!PullerDies, Kickoff!PullerOnly
  <1>2. PullerOK(puller', issued) /\ puller'.step # "applying"
    BY <1>1 DEF PullerOK, Kickoff!Idle
  <1> QED
    BY <1>1, <1>2, PullerKeeps

-----------------------------------------------------------------------------
\* A step of the session that leaves the rest alone.
LEMMA SessionKeeps ==
  ASSUME KickoffInv, Kickoff!SessionOnly, SessionOK(session', issued, links, marker),
         ~ (puller.step = "applying" /\ session'.step = "open")
  PROVE  KickoffInv'
  BY DEF KickoffInv, Kickoff!SessionOnly

LEMMA LoadKeeps ==
  ASSUME KickoffInv, NEW selector, NEW repo, Kickoff!LoadOnboardedProject(selector, repo)
  PROVE  KickoffInv'
  <1>1. PICK link \in Kickoff!Matching(selector) : session' = [step |-> "linked", link |-> link]
    BY DEF Kickoff!LoadOnboardedProject
  <1>2. link \in links
    BY DEF Kickoff!Matching
  <1>3. SessionOK(session', issued, links, marker) /\ session'.step # "open"
    BY <1>1, <1>2 DEF SessionOK
  <1> QED
    BY <1>3, SessionKeeps DEF Kickoff!LoadOnboardedProject

LEMMA EndsKeep ==
  ASSUME KickoffInv, Kickoff!ClosePack \/ Kickoff!SessionDies
  PROVE  KickoffInv'
  <1>1. session' = Kickoff!Idle /\ Kickoff!SessionOnly
    BY DEF Kickoff!ClosePack, Kickoff!SessionDies
  <1>2. SessionOK(session', issued, links, marker) /\ session'.step # "open"
    BY <1>1 DEF SessionOK, Kickoff!Idle
  <1> QED
    BY <1>1, <1>2, SessionKeeps

LEMMA OpenContextKeeps ==
  ASSUME Kickoff!KickoffConstants, KickoffInv, Kickoff!OpenContextPack
  PROVE  KickoffInv'
  <1>1. /\ puller.step # "applying" /\ marker # Nothing /\ Kickoff!SessionOnly
        /\ session' = [step |-> "open", link |-> Nothing, receipt |-> marker.receipt, seen |-> local,
                       count |-> 0, selected |-> {}, records |-> marker.pairs]
    BY DEF Kickoff!OpenContextPack, Kickoff!SnapshotReadable
  <1>2. ShownIn(issued, marker.receipt, marker.pairs)
    BY <1>1 DEF KickoffInv
  <1>3. SessionOK(session', issued, links, marker)
    BY <1>1, <1>2 DEF SessionOK, PackOK, ShownIn
  <1> QED
    BY <1>1, <1>3, SessionKeeps

LEMMA OpenKickoffKeeps ==
  ASSUME Kickoff!KickoffConstants, KickoffInv, Kickoff!OpenKickoffPack
  PROVE  KickoffInv'
  <1> DEFINE link == session.link
             mine == {r \in marker.pairs : r.project = link.project}
             open == Kickoff!OpenTasks(marker.pairs, link.project)
  <1>1. /\ session.step = "linked" /\ puller.step # "applying" /\ Kickoff!SessionOnly
        /\ link \in links
    BY DEF Kickoff!OpenKickoffPack, KickoffInv, SessionOK
  <1>2. CASE ~ Kickoff!SnapshotReadable \/ Kickoff!KickoffRefused(link, marker)
    <2>1. session' = Kickoff!Idle
      BY <1>2 DEF Kickoff!OpenKickoffPack
    <2>2. SessionOK(session', issued, links, marker) /\ session'.step # "open"
      BY <2>1 DEF SessionOK, Kickoff!Idle
    <2> QED
      BY <1>1, <2>2, SessionKeeps
  <1>3. CASE Kickoff!SnapshotReadable /\ ~ Kickoff!KickoffRefused(link, marker)
    <2>1. session' = [step |-> "open", link |-> link, receipt |-> marker.receipt, seen |-> local,
                      count |-> Kickoff!Cardinality(open), selected |-> Kickoff!Latest(open), records |-> {}]
      BY <1>3 DEF Kickoff!OpenKickoffPack
    <2>2. /\ marker # Nothing
          /\ marker.receipt.label = link.label
          /\ Kickoff!Unadmitted(marker.pairs, link.project) = {}
          /\ \A r \in mine : r.label = link.label
          /\ ~ (Kickoff!Cardinality(Kickoff!Latest(open)) > 1)
      BY <1>3 DEF Kickoff!SnapshotReadable, Kickoff!KickoffRefused
    <2>3. ShownIn(issued, marker.receipt, marker.pairs)
      BY <2>2 DEF KickoffInv
    <2>4. open = {r \in mine : r.status = "open" /\ Kickoff!Claim(r) \notin mine}
      BY DEF Kickoff!OpenTasks, Kickoff!Leaves
    <2> HIDE DEF open
    <2>5. open \in SUBSET Kickoff!Revision /\ mine \subseteq Kickoff!Revision
      BY <2>3, <2>4 DEF ShownIn
    <2>6. ASSUME NEW r \in open PROVE Kickoff!Claim(r) \notin local
      <3>1. Kickoff!Claim(r).project = link.project /\ Kickoff!Claim(r) \notin mine
        BY <2>4, <2>5, Claims
      <3>2. Kickoff!Claim(r) \notin marker.pairs
        BY <3>1
      <3> QED
        BY <2>2, <3>1, <3>2 DEF Kickoff!Unadmitted
    <2>7. /\ Kickoff!Cardinality(open) = 0 <=> Kickoff!Latest(open) = {}
          /\ \A r \in Kickoff!Latest(open) :
               /\ Kickoff!Latest(open) = {r} /\ r \in open
               /\ \A s \in open : s # r => s.id < r.id
      BY <2>2, <2>5, OneLatest
    <2>8. link # Nothing
      BY <1>1 DEF KickoffInv, Kickoff!KickoffConstants
    <2>9. \A r \in Kickoff!Latest(open) : r.label = link.label /\ Kickoff!Claim(r) \notin local
      BY <2>2, <2>4, <2>6, <2>7
    <2> HIDE DEF link
    <2>10. PackOK(session', issued[marker.receipt.time].members, links)
      <3>1. {r \in issued[marker.receipt.time].members : session'.link # Nothing /\ r.project = session'.link.project} = mine
        BY <2>1, <2>3, <2>8 DEF ShownIn
      <3> HIDE DEF mine
      <3> QED
        BY <1>1, <2>1, <2>2, <2>3, <2>4, <2>7, <2>8, <2>9, <3>1 DEF PackOK, ShownIn
    <2>11. SessionOK(session', issued, links, marker)
      BY <2>1, <2>2, <2>10 DEF SessionOK
    <2> QED
      BY <1>1, <2>11, SessionKeeps
  <1> QED
    BY <1>2, <1>3

LEMMA NextKickoff ==
  ASSUME Kickoff!KickoffConstants, KickoffInv, [Kickoff!Next]_(Kickoff!vars)
  PROVE  KickoffInv'
  <1>1. CASE UNCHANGED Kickoff!vars
    BY <1>1 DEF Kickoff!vars, KickoffInv
  <1>2. ASSUME NEW r \in Kickoff!Revision, Kickoff!AppendLocal(r) PROVE KickoffInv'
    BY <1>2 DEF Kickoff!AppendLocal, KickoffInv
  <1> QED
    BY <1>1, <1>2, MarkKeeps, RebindKeeps, OnboardKeeps, BuildKeeps, VerifyKeeps, BeginApplyKeeps,
       WriteLocalKeeps, PublishMarkerKeeps, DyingKeeps, LoadKeeps, OpenKickoffKeeps, OpenContextKeeps,
       EndsKeep
       DEF Kickoff!Next

-----------------------------------------------------------------------------
(***************************************************************************)
(* Kickoff: types                                                          *)
(***************************************************************************)
LEMMA KickoffBounds ==
  ASSUME Kickoff!KickoffConstants
  PROVE  MaxPulls \in Nat /\ MaxAppends \in Nat
  BY DEF Kickoff!KickoffConstants

\* A step that leaves the puller, the marker and the clock alone.
LEMMA LocalTyped ==
  ASSUME KickoffTyped, UNCHANGED <<time, marker, puller, session>>, local \subseteq local',
         local' \subseteq Kickoff!Revision, appends' \in 0 .. MaxAppends
  PROVE  KickoffTyped'
  BY DEF KickoffTyped, PackTyped

\* An answer's receipt keeps its type when its pages are counted.
LEMMA VerifyTyped ==
  ASSUME Kickoff!KickoffConstants, KickoffInv, KickoffTyped, NEW t \in 1 .. time,
         NEW damage \in Damages, Kickoff!VerifyResponse(t, damage)
  PROVE  KickoffTyped'
  <1> DEFINE response == Kickoff!Damaged(Kickoff!ResponseOf(puller.time), Kickoff!ResponseOf(t), damage)
             shown == issued[puller.time]
             groups == Kickoff!PageGroups(Kickoff!Sorted(shown.members))
  <1>1. /\ puller.step = "answered"
        /\ puller'.step # "applying"
        /\ puller'.step = "verified" => puller'.receipt = response.receipt
        /\ UNCHANGED <<time, local, marker, appends, session>>
    <2>1. puller' = IF Kickoff!Verified(response)
                    THEN [step |-> "verified", receipt |-> response.receipt,
                          pairs |-> Kickoff!ToSet(Kickoff!PairsOf(response.pages))]
                    ELSE Kickoff!Idle
      BY DEF Kickoff!VerifyResponse
    <2> HIDE DEF response
    <2> QED
      BY <2>1 DEF Kickoff!VerifyResponse, Kickoff!PullerOnly, Kickoff!Idle
  <1>2. /\ puller.time \in 1 .. time /\ shown \in ClaimAnswerType /\ shown.time = puller.time
        /\ time \in 0 .. MaxPulls /\ MaxPulls \in Nat
    <2>1. puller.time \in 1 .. Len(issued)
      BY <1>1 DEF KickoffInv, PullerOK
    <2> QED
      BY <2>1, ElementOfSeq DEF KickoffInv, KickoffTyped, Kickoff!KickoffConstants
  <1>3. response.receipt = [shown EXCEPT !.pages = Len(groups)]
    <2>1. \E b : Kickoff!ResponseOf(puller.time) =
                   [receipt |-> [shown EXCEPT !.pages = Len(groups)], pages |-> b, records |-> groups]
      BY DEF Kickoff!ResponseOf
    <2> HIDE DEF groups, shown
    <2> QED
      BY <2>1, DamagedReceipt
  <1>4. Len(groups) \in Nat
    <2>1. IsFiniteSet(shown.members)
      <3>1. shown.members \subseteq Kickoff!Revision /\ IsFiniteSet(Kickoff!Revision)
        BY <1>2, KickoffFinite DEF ClaimAnswerType, Kickoff!KickoffConstants
      <3> HIDE DEF shown
      <3> QED
        BY <3>1, FS_Subset
    <2> HIDE DEF shown
    <2>2. PICK E : Kickoff!Sorted(shown.members) \in Seq(E)
      BY <2>1, SortedSeq
    <2> QED
      BY <2>2, PagesCounted
  <1> HIDE DEF response, groups, shown
  <1>5. response.receipt \in Kickoff!ReceiptType
    BY <1>2, <1>3, <1>4 DEF ClaimAnswerType, Kickoff!ReceiptType
  <1> QED
    BY <1>1, <1>5 DEF KickoffTyped, PackTyped

LEMMA ApplyTyped ==
  ASSUME Kickoff!KickoffConstants, KickoffInv, KickoffTyped,
         \/ \E noted \in BOOLEAN : Kickoff!BeginApply(noted)
         \/ Kickoff!WriteRecord \/ Kickoff!PublishMarker \/ Kickoff!PullerDies
  PROVE  KickoffTyped'
  <1>1. ASSUME NEW noted \in BOOLEAN, Kickoff!BeginApply(noted) PROVE KickoffTyped'
    <2>1. /\ puller.step = "verified" /\ UNCHANGED <<time, local, marker, appends, session>>
          /\ \/ puller' = [step |-> "applying", receipt |-> puller.receipt, pairs |-> puller.pairs,
                           todo |-> puller.pairs]
             \/ puller' = Kickoff!Idle
      BY <1>1 DEF Kickoff!BeginApply, Kickoff!PullerOnly
    <2>2. puller.pairs \subseteq Kickoff!Revision
      BY <2>1 DEF KickoffInv, PullerOK, ShownIn
    <2> QED
      BY <2>1, <2>2 DEF KickoffTyped, PackTyped, Kickoff!Idle
  <1>2. ASSUME Kickoff!WriteRecord PROVE KickoffTyped'
    <2>1. /\ puller.step = "applying" /\ UNCHANGED <<time, marker, appends, session>>
          /\ \E r \in puller.todo :
               local' = local \cup {r} /\ puller' = [puller EXCEPT !.todo = @ \ {r}]
      BY <1>2 DEF Kickoff!WriteRecord, Kickoff!PullerOnly
    <2>2. PICK r \in puller.todo : local' = local \cup {r} /\ puller' = [puller EXCEPT !.todo = @ \ {r}]
      BY <2>1
    <2>3. puller = [step |-> puller.step, receipt |-> puller.receipt, pairs |-> puller.pairs,
                    todo |-> puller.todo]
      BY <2>1 DEF KickoffInv, PullerOK
    <2>4. puller' = [step |-> puller.step, receipt |-> puller.receipt, pairs |-> puller.pairs,
                     todo |-> puller.todo \ {r}]
      BY <2>2, <2>3
    <2> QED
      BY <2>1, <2>2, <2>4 DEF KickoffTyped, PackTyped
  <1>3. ASSUME Kickoff!PublishMarker PROVE KickoffTyped'
    <2>1. /\ puller.step = "applying" /\ puller.todo = {} /\ UNCHANGED <<time, local, appends, session>>
          /\ marker' = [receipt |-> puller.receipt, pairs |-> puller.pairs] /\ puller' = Kickoff!Idle
      BY <1>3 DEF Kickoff!PublishMarker, Kickoff!PullerOnly
    <2> QED
      BY <2>1 DEF KickoffTyped, PackTyped, Kickoff!Idle
  <1>4. ASSUME Kickoff!PullerDies PROVE KickoffTyped'
    BY <1>4 DEF Kickoff!PullerDies, Kickoff!PullerOnly, KickoffTyped, Kickoff!Idle
  <1> QED
    BY <1>1, <1>2, <1>3, <1>4

\* A context pack opened on a readable snapshot, and a kickoff pack.
LEMMA OpenContextTyped ==
  ASSUME KickoffInv, KickoffTyped, Kickoff!OpenContextPack
  PROVE  PackTyped(session')
  <1>1. /\ session' = [step |-> "open", link |-> Nothing, receipt |-> marker.receipt, seen |-> local,
                       count |-> 0, selected |-> {}, records |-> marker.pairs]
        /\ marker.pairs \subseteq local
    BY DEF Kickoff!OpenContextPack, Kickoff!SnapshotReadable
  <1>2. local \subseteq Kickoff!Revision
    BY DEF KickoffTyped
  <1> QED
    BY <1>1, <1>2 DEF PackTyped

LEMMA OpenKickoffTyped ==
  ASSUME Kickoff!KickoffConstants, KickoffInv, KickoffTyped, Kickoff!OpenKickoffPack
  PROVE  PackTyped(session')
  <1> DEFINE link == session.link
             open == Kickoff!OpenTasks(marker.pairs, link.project)
  <1>1. link \in Link
    BY DEF Kickoff!OpenKickoffPack, KickoffInv, SessionOK
  <1>2. CASE session' = Kickoff!Idle
    BY <1>2 DEF PackTyped, Kickoff!Idle
  <1>3. CASE session' # Kickoff!Idle
    <2>1. /\ session' = [step |-> "open", link |-> link, receipt |-> marker.receipt, seen |-> local,
                         count |-> Kickoff!Cardinality(open), selected |-> Kickoff!Latest(open),
                         records |-> {}]
          /\ marker.pairs \subseteq local
      BY <1>3 DEF Kickoff!OpenKickoffPack, Kickoff!SnapshotReadable
    <2>2. local \subseteq Kickoff!Revision
      BY DEF KickoffTyped
    <2>3. open \subseteq marker.pairs
      BY DEF Kickoff!OpenTasks, Kickoff!Leaves
    <2>4. Kickoff!Latest(open) \subseteq open
      BY DEF Kickoff!Latest
    <2> HIDE DEF open, link
    <2>5. IsFiniteSet(open)
      <3>1. IsFiniteSet(Kickoff!Revision) /\ open \subseteq Kickoff!Revision
        BY <2>1, <2>2, <2>3, KickoffFinite DEF Kickoff!KickoffConstants
      <3> QED
        BY <3>1, FS_Subset
    <2>6. Kickoff!Cardinality(open) \in Nat
      BY <2>5, FS_CardinalityType, SameKickoffCount
    <2> QED
      BY <1>1, <2>1, <2>2, <2>3, <2>4, <2>6 DEF PackTyped
  <1> QED
    BY <1>2, <1>3

LEMMA NextKickoffTyped ==
  ASSUME Kickoff!KickoffConstants, KickoffInv, KickoffTyped, [Kickoff!Next]_(Kickoff!vars)
  PROVE  KickoffTyped'
  <1>1. CASE UNCHANGED Kickoff!vars
    BY <1>1 DEF Kickoff!vars, KickoffTyped
  <1>2. ASSUME NEW r \in Kickoff!Revision, Kickoff!Admit(r) PROVE KickoffTyped'
    BY <1>2 DEF Kickoff!Admit, KickoffTyped
  <1>3. ASSUME NEW l \in Label, Kickoff!Rebind(l) PROVE KickoffTyped'
    BY <1>3 DEF Kickoff!Rebind, KickoffTyped
  <1>4. ASSUME NEW link \in Link, Kickoff!Onboard(link) PROVE KickoffTyped'
    BY <1>4 DEF Kickoff!Onboard, KickoffTyped
  <1>5. ASSUME NEW r \in Kickoff!Revision, Kickoff!AppendLocal(r) PROVE KickoffTyped'
    <2>1. /\ UNCHANGED <<time, marker, puller, session>> /\ local' = local \cup {r}
          /\ appends < MaxAppends /\ appends' = appends + 1
      BY <1>5 DEF Kickoff!AppendLocal
    <2>2. local' \subseteq Kickoff!Revision /\ appends' \in 0 .. MaxAppends
      BY <2>1, KickoffBounds DEF KickoffTyped
    <2>3. local \subseteq local'
      BY <2>1
    <2> QED
      BY <2>1, <2>2, <2>3, LocalTyped
  <1>6. ASSUME Kickoff!BuildPullResponse PROVE KickoffTyped'
    <2>1. /\ time < MaxPulls /\ time' = time + 1 /\ puller'.step = "answered"
          /\ UNCHANGED <<local, marker, appends, session>>
      BY <1>6 DEF Kickoff!BuildPullResponse, Kickoff!PullerOnly
    <2>2. time' \in 0 .. MaxPulls
      BY <2>1, KickoffBounds DEF KickoffTyped
    <2> QED
      BY <2>1, <2>2 DEF KickoffTyped, PackTyped
  <1>7. ASSUME Kickoff!SessionOnly, PackTyped(session') PROVE KickoffTyped'
    BY <1>7 DEF Kickoff!SessionOnly, KickoffTyped, PackTyped
  <1>8. ASSUME session' = Kickoff!Idle \/ session'.step = "linked" PROVE PackTyped(session')
    BY <1>8 DEF PackTyped, Kickoff!Idle
  <1>9. /\ Kickoff!OpenContextPack => PackTyped(session')
        /\ Kickoff!OpenKickoffPack => PackTyped(session')
    BY OpenContextTyped, OpenKickoffTyped
  <1>10. ASSUME NEW selector, NEW repo, Kickoff!LoadOnboardedProject(selector, repo)
         PROVE  KickoffTyped'
    BY <1>7, <1>8, <1>10 DEF Kickoff!LoadOnboardedProject
  <1>11. ASSUME Kickoff!ClosePack \/ Kickoff!SessionDies PROVE KickoffTyped'
    BY <1>7, <1>8, <1>11 DEF Kickoff!ClosePack, Kickoff!SessionDies
  <1>12. ASSUME Kickoff!OpenContextPack \/ Kickoff!OpenKickoffPack PROVE KickoffTyped'
    BY <1>7, <1>9, <1>12 DEF Kickoff!OpenContextPack, Kickoff!OpenKickoffPack
  <1> QED
    BY <1>1, <1>2, <1>3, <1>4, <1>5, <1>6, <1>10, <1>11, <1>12, VerifyTyped, ApplyTyped
       DEF Kickoff!Next

LEMMA KickoffTypesHold ==
  ASSUME Kickoff!KickoffConstants, KickoffInv, KickoffTyped
  PROVE  Kickoff!TypeOK
  <1>1. issued \in [1 .. time -> Kickoff!ReceiptType]
    <2>1. issued \in [1 .. time -> ClaimAnswerType] /\ Len(issued) = time
      BY LenProperties DEF KickoffInv
    <2>2. ASSUME NEW t \in 1 .. time PROVE issued[t] \in Kickoff!ReceiptType
      <3>1. issued[t] \in ClaimAnswerType /\ issued[t].time = t
        BY <2>1, <2>2 DEF KickoffInv
      <3>2. time \in 0 .. MaxPulls
        BY DEF KickoffTyped
      <3>3. t \in 1 .. MaxPulls
        BY <3>2, KickoffBounds
      <3> QED
        BY <3>1, <3>3 DEF ClaimAnswerType, Kickoff!ReceiptType
    <2> QED
      BY <2>1, <2>2
  <1>2. marker # Nothing => marker.pairs \subseteq Kickoff!Revision
    BY DEF KickoffInv, ShownIn
  <1>3. Kickoff!PullerTyped
    BY DEF KickoffInv, KickoffTyped, PullerOK, ShownIn, Kickoff!PullerTyped
  <1>4. Kickoff!SessionTyped
    BY DEF KickoffInv, KickoffTyped, SessionOK, PackOK, PackTyped, Kickoff!SessionTyped
  <1> QED
    BY <1>1, <1>2, <1>3, <1>4 DEF KickoffInv, KickoffTyped, Kickoff!TypeOK

\* The projection a vault holds is what the hub showed in the answer its marker
\* names, however the answer's pages travelled and wherever a pull died, and the
\* vault has every record of it; and a
\* kickoff or context pack (open_kickoff_pack, open_coordination_context_pack) is
\* true to that answer as long as it is open: the link is the project's only one, and
\* the task handed over is the one open task of the highest taskId, claimed neither
\* there nor by any record of the vault. For any records, links, answers and damages.
\* The variables keep their types on the way.
THEOREM PacksStayTrue ==
  ASSUME Kickoff!KickoffConstants
  PROVE  Kickoff!Spec => [](Kickoff!TypeOK /\ Kickoff!PackTrue)
  <1>1. Kickoff!Init => KickoffInv /\ KickoffTyped
    <2> SUFFICES ASSUME Kickoff!Init PROVE KickoffInv /\ KickoffTyped
      OBVIOUS
    <2>1. /\ hub.records = {} /\ hub.label \in Label /\ hub.generation = 0
          /\ hub = [records |-> hub.records, label |-> hub.label, generation |-> hub.generation]
      BY DEF Kickoff!Init
    <2>2. issued \in Seq(ClaimAnswerType) /\ Len(issued) = 0 /\ time = 0
      BY EmptySeq DEF Kickoff!Init
    <2>3. /\ links = {} /\ marker = Nothing /\ puller.step = "idle" /\ session.step = "idle"
          /\ local = {} /\ appends = 0
      BY DEF Kickoff!Init, Kickoff!Idle
    <2>4. KickoffTyped
      BY <2>2, <2>3, KickoffBounds DEF KickoffTyped, PackTyped
    <2> QED
      BY <2>1, <2>2, <2>3, <2>4 DEF KickoffInv, PullerOK, SessionOK
  <1> QED
    BY <1>1, NextKickoff, NextKickoffTyped, PackIsTrue, KickoffTypesHold, PTL DEF Kickoff!Spec

-----------------------------------------------------------------------------
(***************************************************************************)
(* Knowledge: a behaviour of a part is one of its component                *)
(***************************************************************************)
\* FirstAcknowledgementStands for the revocations of the composition.
THEOREM FirstAcknowledgementsStand ==
  KnowledgeSpec => []FirstAcknowledgementStands
  <1> DEFINE Here == part = "revocation"
  <1>1. KnowledgeInit /\ Here => Revocation!Init
    BY DEF KnowledgeInit
  <1>2. [KnowledgeNext]_allVars /\ Here => [Revocation!Next]_(Revocation!vars) /\ Here'
    BY DEF KnowledgeNext, allVars, revocationVars, Revocation!vars
  <1>3. [KnowledgeNext]_allVars /\ ~Here => ~Here'
    BY DEF KnowledgeNext, allVars
  <1>4. Revocation!Spec => []Revocation!FirstAcknowledgementStands
    BY FirstAcknowledgementKept
  <1>5. FirstAcknowledgementStands <=> (Here => Revocation!FirstAcknowledgementStands)
    BY DEF FirstAcknowledgementStands
  <1> HIDE DEF Here
  <1> QED
    BY <1>1, <1>2, <1>3, <1>4, <1>5, PTL DEF KnowledgeSpec, Revocation!Spec

\* SearchPinned for the projections of the composition.
THEOREM SearchesStayPinned ==
  ASSUME KnowledgeConstants
  PROVE  KnowledgeSpec => []SearchPinned
  <1> DEFINE Here == part = "projection"
  <1>1. KnowledgeInit /\ Here => Projection!Init
    BY DEF KnowledgeInit
  <1>2. [KnowledgeNext]_allVars /\ Here => [Projection!Next]_(Projection!vars) /\ Here'
    BY DEF KnowledgeNext, allVars, projectionVars, Projection!vars
  <1>3. [KnowledgeNext]_allVars /\ ~Here => ~Here'
    BY DEF KnowledgeNext, allVars
  <1>4. Projection!Spec => [](Projection!TypeOK /\ Projection!SearchPinned)
    BY SearchesPinned DEF KnowledgeConstants
  <1>5. SearchPinned <=> (Here => Projection!SearchPinned)
    BY DEF SearchPinned
  <1> HIDE DEF Here
  <1> QED
    BY <1>1, <1>2, <1>3, <1>4, <1>5, PTL DEF KnowledgeSpec, Projection!Spec

\* SuccessionUnforked for the record evolution of the composition.
THEOREM SuccessionsStayUnforked ==
  KnowledgeSpec => []SuccessionUnforked
  <1> DEFINE Here == part = "evolution"
  <1>1. KnowledgeInit /\ Here => Evolution!Init
    BY DEF KnowledgeInit
  <1>2. [KnowledgeNext]_allVars /\ Here => [Evolution!Next]_(Evolution!vars) /\ Here'
    BY DEF KnowledgeNext, allVars, evolutionVars, Evolution!vars
  <1>3. [KnowledgeNext]_allVars /\ ~Here => ~Here'
    BY DEF KnowledgeNext, allVars
  <1>4. Evolution!Spec => []Evolution!SuccessionUnforked
    BY SuccessionStaysUnforked
  <1>5. SuccessionUnforked <=> (Here => Evolution!SuccessionUnforked)
    BY DEF SuccessionUnforked
  <1> HIDE DEF Here
  <1> QED
    BY <1>1, <1>2, <1>3, <1>4, <1>5, PTL DEF KnowledgeSpec, Evolution!Spec

\* PacksHonest for the context packs and the kickoff packs of the composition.
THEOREM PacksStayHonestAndTrue ==
  ASSUME KnowledgeConstants
  PROVE  KnowledgeSpec => []PacksHonest
  <1> DEFINE Exporting == part = "context"
             Starting == part = "kickoff"
  <1>1. /\ KnowledgeInit /\ Exporting => Context!Init
        /\ KnowledgeInit /\ Starting => Kickoff!Init
    BY DEF KnowledgeInit
  <1>2. [KnowledgeNext]_allVars /\ Exporting => [Context!Next]_(Context!vars) /\ Exporting'
    BY DEF KnowledgeNext, allVars, contextVars, Context!vars
  <1>3. [KnowledgeNext]_allVars /\ Starting => [Kickoff!Next]_(Kickoff!vars) /\ Starting'
    BY DEF KnowledgeNext, allVars, kickoffVars, Kickoff!vars
  <1>4. [KnowledgeNext]_allVars => (~Exporting => ~Exporting') /\ (~Starting => ~Starting')
    BY DEF KnowledgeNext, allVars
  <1>5. Context!Spec => [](Context!TypeOK /\ Context!PackHonest)
    BY PacksStayHonest DEF KnowledgeConstants
  <1>6. Kickoff!Spec => [](Kickoff!TypeOK /\ Kickoff!PackTrue)
    BY PacksStayTrue DEF KnowledgeConstants
  <1>7. PacksHonest <=> (Exporting => Context!PackHonest) /\ (Starting => Kickoff!PackTrue)
    BY DEF PacksHonest
  <1> HIDE DEF Exporting, Starting
  <1> QED
    BY <1>1, <1>2, <1>3, <1>4, <1>5, <1>6, <1>7, PTL DEF KnowledgeSpec, Context!Spec, Kickoff!Spec

\* KnowledgeTypeOK: whichever part a behaviour works on, its variables keep their
\* types: a receiver past its claim holds the records it had then, a search the
\* index it opened and, answered, its receipt, a puller the answer it applies.
THEOREM KnowledgeTypesHold ==
  ASSUME KnowledgeConstants
  PROVE  KnowledgeSpec => []KnowledgeTypeOK
  <1> DEFINE Exchanging == part = "exchange"
             Revoking == part = "revocation"
             Projecting == part = "projection"
             Exporting == part = "context"
             Evolving == part = "evolution"
             Starting == part = "kickoff"
  <1>1. /\ KnowledgeInit /\ Exchanging => Init
        /\ KnowledgeInit /\ Revoking => Revocation!Init
        /\ KnowledgeInit /\ Projecting => Projection!Init
        /\ KnowledgeInit /\ Exporting => Context!Init
        /\ KnowledgeInit /\ Evolving => Evolution!Init
        /\ KnowledgeInit /\ Starting => Kickoff!Init
    BY DEF KnowledgeInit
  <1>2. [KnowledgeNext]_allVars /\ Exchanging => [Next]_vars
    BY DEF KnowledgeNext, allVars, vars
  <1>3. [KnowledgeNext]_allVars /\ Revoking => [Revocation!Next]_(Revocation!vars)
    BY DEF KnowledgeNext, allVars, revocationVars, Revocation!vars
  <1>4. [KnowledgeNext]_allVars /\ Projecting => [Projection!Next]_(Projection!vars)
    BY DEF KnowledgeNext, allVars, projectionVars, Projection!vars
  <1>5. [KnowledgeNext]_allVars /\ Exporting => [Context!Next]_(Context!vars)
    BY DEF KnowledgeNext, allVars, contextVars, Context!vars
  <1>6. [KnowledgeNext]_allVars /\ Evolving => [Evolution!Next]_(Evolution!vars)
    BY DEF KnowledgeNext, allVars, evolutionVars, Evolution!vars
  <1>7. [KnowledgeNext]_allVars /\ Starting => [Kickoff!Next]_(Kickoff!vars)
    BY DEF KnowledgeNext, allVars, kickoffVars, Kickoff!vars
  <1>8. [KnowledgeNext]_allVars =>
          /\ Exchanging <=> Exchanging'
          /\ Revoking <=> Revoking'
          /\ Projecting <=> Projecting'
          /\ Exporting <=> Exporting'
          /\ Evolving <=> Evolving'
          /\ Starting <=> Starting'
    BY DEF KnowledgeNext, allVars
  <1>9. Projection!Spec => [](Projection!TypeOK /\ Projection!SearchPinned)
    BY SearchesPinned DEF KnowledgeConstants
  <1>10. Context!Spec => [](Context!TypeOK /\ Context!PackHonest)
    BY PacksStayHonest DEF KnowledgeConstants
  <1>11. Evolution!Spec => []Evolution!TypeOK
    BY RevisionsKeepTypes DEF KnowledgeConstants
  <1>12. Kickoff!Spec => [](Kickoff!TypeOK /\ Kickoff!PackTrue)
    BY PacksStayTrue DEF KnowledgeConstants
  <1>13. KnowledgeTypeOK <=>
           /\ Exchanging => TypeOK
           /\ Revoking => Revocation!TypeOK
           /\ Projecting => Projection!TypeOK
           /\ Exporting => Context!TypeOK
           /\ Evolving => Evolution!TypeOK
           /\ Starting => Kickoff!TypeOK
    BY DEF KnowledgeTypeOK
  <1> HIDE DEF Exchanging, Revoking, Projecting, Exporting, Evolving, Starting
  <1> QED
    BY <1>1, <1>2, <1>3, <1>4, <1>5, <1>6, <1>7, <1>8, <1>9, <1>10, <1>11, <1>12, <1>13,
       TypeCorrect, RevocationsKeepTypes, PTL
       DEF KnowledgeSpec, Spec, Revocation!Spec, Projection!Spec, Context!Spec, Evolution!Spec, Kickoff!Spec

=============================================================================
