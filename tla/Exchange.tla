------------------------------ MODULE Exchange ------------------------------
(***************************************************************************)
(* Admission of one v2 exchange envelope (exchange.py, admit_v2) by        *)
(* receivers that share a replay ledger, and the verdict an independent    *)
(* reader (independent_reader.py, admit_bundle_v2) gives on the same       *)
(* bytes.                                                                  *)
(*                                                                         *)
(* The ledger claims an envelope before most checks run: a receiver that   *)
(* dies between the claim and its answer leaves an envelope that is a      *)
(* duplicate for everybody.  A copy damaged on the way is refused before   *)
(* the claim.  A body is identified by its digest, so one body is one      *)
(* envelope reference, and a revision is the digest of a record's bytes.   *)
(***************************************************************************)
EXTENDS Naturals, FiniteSets, Sequences, FiniteSetsExt

CONSTANTS
  Receiver,   \* processes calling admit_v2 with one ledger
  Envelope,   \* envelopes a sender may have built or tampered with
  Stock,      \* local revisions with sensitivity: sets of <<revision, rank>>
  MaxTime,    \* bound on the clock
  MaxCalls    \* bound on answers given

ASSUME ExchangeAssumption == MaxTime \in Nat

\* What the schema of an envelope guarantees: declared pairs, and a list of
\* records, each found valid or not.
ASSUME EnvelopeAssumption ==
  \A e \in Envelope :
    /\ \A d \in e.records : d = <<d[1], d[2]>>
    /\ e.bundle \in Seq({e.bundle[i] : i \in DOMAIN e.bundle})
    /\ \A i \in DOMAIN e.bundle : e.bundle[i].valid \in BOOLEAN /\ e.bundle[i].rank \in Nat
    /\ e.handling \in Nat

VARIABLES
  envelope,   \* the envelope under way
  stock,      \* revisions the vault holds, with their sensitivity
  claimed,    \* the ledger has the envelope's reference
  now,        \* the clock
  receiver,   \* receiver[w]: "idle", or what a claiming call saw and was told
  receipts    \* history: the receipts answered, in order

vars == <<envelope, stock, claimed, now, receiver, receipts>>

Rank == 0 .. 2   \* public, private, restricted

\* What can be wrong with the bytes of one copy, before its identity is known.
CopyFaults == <<"uncanonical", "schema", "identity">>

\* What can be wrong with an envelope whose identity is right, in the order in
\* which each reader looks.
ReferenceOrder == <<"bundle-id", "audience", "protected", "extension", "expiry">>

IndependentOrder == <<"audience", "protected", "extension", "expiry", "bundle-id">>

\* How the caller may misuse admit_v2: fine, or the first parameter it refuses.
CallerFault == {"none", "unsupported", "negotiation", "availability"}

Outcomes == {"admitted", "rejected", "quarantined", "duplicate", "unsupported", "partially-resolved"}

Accepting == {"admitted", "partially-resolved"}

Receipt(outcome, code, accepted, unresolved) ==
  [outcome |-> outcome, code |-> code, accepted |-> accepted, unresolved |-> unresolved]

Refusal(outcome, code) == Receipt(outcome, code, {}, {})

\* The first fault in the order a reader checks, as a sequence of at most one.
First(order, faults) ==
  LET found == {i \in DOMAIN order : order[i] \in faults}
  IN IF found = {} THEN <<>> ELSE <<order[Min(found)]>>

FaultRefusal(f) == Refusal(IF f = "extension" THEN "quarantined" ELSE "rejected", f)

-----------------------------------------------------------------------------
(* The bundle.  An envelope declares <<record, revision>> pairs and carries  *)
(* records, each [record, revision, rank, valid].                            *)

DeclaredIds(e) == {d[1] : d \in e.records}

Matches(e, i) ==
  /\ e.bundle[i].valid
  /\ <<e.bundle[i].record, e.bundle[i].revision>> \in e.records

WithinRestricted(e, rank) == rank <= 2

WithinHandling(e, rank) == rank <= e.handling

\* Bundled records that count: declared with exactly these bytes and no more
\* sensitive than the envelope says it handles.
Bundled(e) ==
  {i \in DOMAIN e.bundle : Matches(e, i) /\ WithinHandling(e, e.bundle[i].rank)}

BundledIds(e) == {e.bundle[i].record : i \in Bundled(e)}

\* Declarations or bytes that contradict each other: two revisions declared for
\* a record, a record that is invalid, undeclared or other than declared, or a
\* second copy of one that counted.
Contradictory(e) ==
  {d[1] : d \in {x \in e.records : \E y \in e.records : y[1] = x[1] /\ y[2] # x[2]}}
    \cup {e.bundle[i].record : i \in {x \in DOMAIN e.bundle :
             ~Matches(e, x) \/ \E y \in Bundled(e) : y < x /\ e.bundle[y].record = e.bundle[x].record}}

InvalidIds(e) == {e.bundle[i].record : i \in {x \in DOMAIN e.bundle : ~e.bundle[x].valid}}

HandlingConflict(e) ==
  \E i \in DOMAIN e.bundle : Matches(e, i) /\ ~WithinHandling(e, e.bundle[i].rank)

Conflicting(e) == Contradictory(e) # {} \/ HandlingConflict(e)

ConflictCode(e) ==
  CASE InvalidIds(e) # {} -> "bundled-record-invalid"
    [] InvalidIds(e) = {} /\ Contradictory(e) # {} -> "contradictory-bundle"
    [] OTHER -> "handling-sensitivity-mismatch"

ConflictRefusal(e) ==
  Receipt("quarantined", ConflictCode(e), {}, DeclaredIds(e) \cup Contradictory(e))

\* Declared records the receiver already holds at an acceptable sensitivity.
LocalIds(e, held) ==
  {d[1] : d \in {x \in e.records : \E h \in held : h[1] = x /\ WithinHandling(e, h[2])}}

Resolution(e, accepted) ==
  LET unresolved == DeclaredIds(e) \ accepted
  IN CASE accepted # {} /\ unresolved # {} ->
            Receipt("partially-resolved", "record-unresolved", accepted, unresolved)
       [] accepted = {} /\ unresolved # {} ->
            Receipt("quarantined", "bundle-unresolved", {}, unresolved)
       [] unresolved = {} /\ (accepted # {} \/ e.artifacts) ->
            Receipt("admitted", "none", accepted, {})
       [] OTHER -> Refusal("quarantined", "empty-bundle")

\* The faults of an envelope at a time: expiry is a comparison with the clock.
FaultsAt(e, t) == e.faults \cup (IF e.expires <= t THEN {"expiry"} ELSE {})

\* What admit_v2 decides once it holds the claim.
Verdict(e, held, t, caller) ==
  LET fault == First(ReferenceOrder, FaultsAt(e, t))
  IN CASE caller = "unsupported" -> Refusal("unsupported", "schema-unsupported")
       [] caller = "negotiation" -> Refusal("quarantined", "record-schema-negotiation-invalid")
       [] caller \notin {"unsupported", "negotiation"} /\ fault # <<>> -> FaultRefusal(fault[1])
       [] caller \notin {"unsupported", "negotiation"} /\ fault = <<>> /\ Conflicting(e) -> ConflictRefusal(e)
       [] caller = "availability" /\ fault = <<>> /\ ~Conflicting(e) ->
            Receipt("quarantined", "availability-metadata-invalid", {}, DeclaredIds(e))
       [] OTHER -> Resolution(e, BundledIds(e) \cup LocalIds(e, held))

\* The independent reader looks at the bundled records one after another.
LookAt(e, seen, item) ==
  CASE ~item.valid \/ item.record \in seen.bundled \/ <<item.record, item.revision>> \notin e.records ->
         [seen EXCEPT !.contradictory = @ \cup {item.record},
                      !.invalid = IF item.valid THEN @ ELSE @ \cup {item.record}]
    [] OTHER ->
         IF item.rank > e.handling THEN [seen EXCEPT !.conflict = TRUE]
         ELSE [seen EXCEPT !.bundled = @ \cup {item.record}]

Unseen(e) ==
  [bundled |-> {}, invalid |-> {}, conflict |-> FALSE,
   contradictory |-> {d[1] : d \in {x \in e.records : \E y \in e.records : y[1] = x[1] /\ y # x}}]

LookedAt(e) ==
  LET look[n \in 0 .. Len(e.bundle)] ==
        IF n = 0 THEN Unseen(e) ELSE LookAt(e, look[n - 1], e.bundle[n])
  IN  look[Len(e.bundle)]

\* What it decides: no ledger, no local records, and only a complete bundle.
IndependentVerdict(e, t) ==
  LET fault == First(IndependentOrder, FaultsAt(e, t))
      seen == LookedAt(e)
  IN CASE fault # <<>> -> FaultRefusal(fault[1])
       [] fault = <<>> /\ (seen.contradictory # {} \/ seen.conflict) ->
            Receipt("quarantined",
                    IF seen.invalid # {} THEN "bundled-record-invalid"
                    ELSE IF seen.contradictory # {} THEN "contradictory-bundle"
                    ELSE "handling-sensitivity-mismatch",
                    {}, DeclaredIds(e) \cup seen.contradictory)
       [] fault = <<>> /\ seen.contradictory = {} /\ ~seen.conflict /\ DeclaredIds(e) # seen.bundled ->
            Receipt("quarantined", "incomplete-bundle", {}, DeclaredIds(e))
       [] OTHER -> Resolution(e, seen.bundled)

-----------------------------------------------------------------------------
Idle == [pc |-> "idle", held |-> {}, caller |-> "none"]

Answer(r) == receipts' = Append(receipts, r)

MayCall(w) == receiver[w].pc = "idle" /\ Len(receipts) < MaxCalls

\* A damaged copy: refused before the ledger is asked.
RefuseCopy(w) ==
  /\ MayCall(w)
  /\ \E faults \in (SUBSET {"uncanonical", "schema", "identity"}) \ {{}} :
       Answer(Refusal("rejected", First(CopyFaults, faults)[1]))
  /\ UNCHANGED <<envelope, stock, claimed, now, receiver>>

\* No ledger, a ledger that raises, or one that answers no Boolean; a ledger
\* that raised may have inserted the reference all the same.
LedgerFails(w) ==
  /\ MayCall(w)
  /\ claimed' \in {claimed, TRUE}
  /\ Answer(Refusal("quarantined", "replay-ledger-unavailable"))
  /\ UNCHANGED <<envelope, stock, now, receiver>>

UnclaimedByAnother == ~claimed \/ \E v \in Receiver : receiver[v].pc = "claimed"

Unclaimed == ~claimed

\* The ledger's insert-if-absent found the reference.
Duplicate(w) ==
  /\ MayCall(w)
  /\ ~Unclaimed
  /\ Answer(Refusal("duplicate", "replay"))
  /\ UNCHANGED <<envelope, stock, claimed, now, receiver>>

\* It inserted the reference.  The local revisions were the caller's argument.
Claim(w) ==
  /\ MayCall(w)
  /\ Unclaimed
  /\ claimed' = TRUE
  /\ \E caller \in CallerFault :
       receiver' = [receiver EXCEPT ![w] = [pc |-> "claimed", held |-> stock, caller |-> caller]]
  /\ UNCHANGED <<envelope, stock, now, receipts>>

Decide(w) ==
  /\ receiver[w].pc = "claimed"
  /\ Len(receipts) < MaxCalls
  /\ Answer(Verdict(envelope, receiver[w].held, now, receiver[w].caller))
  /\ receiver' = [receiver EXCEPT ![w] = Idle]
  /\ UNCHANGED <<envelope, stock, claimed, now>>

\* The receiver dies after its claim; the ledger is durable.
Crash(w) ==
  /\ receiver[w].pc = "claimed"
  /\ receiver' = [receiver EXCEPT ![w] = Idle]
  /\ UNCHANGED <<envelope, stock, claimed, now, receipts>>

Tick ==
  /\ now < MaxTime
  /\ now' = now + 1
  /\ UNCHANGED <<envelope, stock, claimed, receiver, receipts>>

\* The vault gains or loses local revisions.
Restock ==
  /\ stock' \in Stock \ {stock}
  /\ UNCHANGED <<envelope, claimed, now, receiver, receipts>>

Init ==
  /\ envelope \in Envelope
  /\ stock \in Stock
  /\ claimed = FALSE
  /\ now = 0
  /\ receiver = [w \in Receiver |-> Idle]
  /\ receipts = <<>>

Next ==
  \/ \E w \in Receiver : RefuseCopy(w) \/ LedgerFails(w) \/ Duplicate(w) \/ Claim(w) \/ Decide(w) \/ Crash(w)
  \/ Tick
  \/ Restock

Spec == Init /\ [][Next]_vars

-----------------------------------------------------------------------------
\* Refusals of a call that does not claim.
BeforeClaim == {"uncanonical", "schema", "identity", "replay-ledger-unavailable"}

Codes ==
  BeforeClaim \cup
  {"none", "replay", "schema-unsupported", "record-schema-negotiation-invalid",
   "bundle-id", "audience", "protected", "extension", "expiry",
   "bundled-record-invalid", "contradictory-bundle", "handling-sensitivity-mismatch",
   "availability-metadata-invalid", "record-unresolved", "bundle-unresolved", "empty-bundle"}

\* The records an envelope speaks of.
Ids(e) == DeclaredIds(e) \cup {e.bundle[i].record : i \in DOMAIN e.bundle}

ReceiptType(e) ==
  [outcome : Outcomes, code : Codes, accepted : SUBSET Ids(e), unresolved : SUBSET Ids(e)]

\* What a receiver holds: nothing, or the records it had when it claimed.
CallType == {Idle} \cup [pc : {"claimed"}, held : Stock, caller : CallerFault]

\* Every variable keeps its type; a receipt names records of its envelope.
TypeOK ==
  /\ envelope \in Envelope
  /\ stock \in Stock
  /\ claimed \in BOOLEAN
  /\ now \in 0 .. MaxTime
  /\ receiver \in [Receiver -> CallType]
  /\ receipts \in Seq(ReceiptType(envelope))

\* An answer that needed the claim.
Decided(i) == receipts[i].code \notin BeforeClaim \cup {"replay"}

\* However many receivers race, die and call again, one call at most decides an
\* envelope, and from then on the intact envelope is a duplicate
\* (the claim before the checks, exchange.py admit_v2): it is never admitted
\* again when its audience, its clock or the local records have changed.
DecidedOnce ==
  \A i \in DOMAIN receipts : Decided(i) =>
    \A j \in DOMAIN receipts : j > i => ~Decided(j)

\* Record id is bundled or held at the declared bytes, no more sensitive than
\* the envelope handles.
Genuine(e, id) ==
  \E d \in e.records :
    /\ d[1] = id
    /\ \/ \E i \in DOMAIN e.bundle :
            /\ e.bundle[i].valid /\ e.bundle[i].record = id /\ e.bundle[i].revision = d[2]
            /\ e.bundle[i].rank <= e.handling
       \/ \E held \in Stock : \E h \in held : h[1] = d /\ h[2] <= e.handling

\* The records a receipt accepts and leaves unresolved are the declared ones,
\* and what it accepts came in the bundle or was held locally, at exactly the
\* declared bytes and never above the sensitivity the envelope handles
\* (admit_v2's resolution).
ReceiptsHonest ==
  \A i \in DOMAIN receipts : receipts[i].outcome \in Accepting =>
    /\ receipts[i].accepted \cap receipts[i].unresolved = {}
    /\ receipts[i].accepted \cup receipts[i].unresolved = DeclaredIds(envelope)
    /\ \A id \in receipts[i].accepted : Genuine(envelope, id)

\* The independent reader admits an envelope if and only if the reference
\* would with no local record, accepting the same records, and finds the same
\* conflicts (independent_reader.py admit_bundle_v2 against exchange.py).
ReadersAgree ==
  LET mine == Verdict(envelope, {}, now, "none")
      theirs == IndependentVerdict(envelope, now)
  IN /\ theirs.outcome = "admitted" <=> mine.outcome = "admitted"
     /\ theirs.outcome = "admitted" => theirs.accepted = mine.accepted
     /\ FaultsAt(envelope, now) = {} /\ Conflicting(envelope) => theirs = mine

\* What a receipt accepts is what the envelope declared and the receiver got,
\* and both readers agree on what may be admitted.
AcceptanceHonest == ReceiptsHonest /\ ReadersAgree
=============================================================================
