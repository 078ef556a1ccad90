------------------------------ MODULE Context ------------------------------
(***************************************************************************)
(* Context packs: export_context (context.py) selects the current,         *)
(* chosen, unrevoked records of a vault into a pack whose contract version *)
(* the receiver negotiated, and the independent reader (recall_context,    *)
(* independent_context_reader.py) recalls it.                              *)
(*                                                                         *)
(* An input is what one call gets: entries [id, rev, lifecycle, rank,      *)
(* freshness, binding] (several revisions of an id may be supplied),       *)
(* chosen ids, revocation receipts <<id, rev, receipt>>, the sensitivity   *)
(* allowed, the pack versions negotiated, evidence [key, binding, limits]   *)
(* with the keys authorized, and whether the result fits max_bytes.  The    *)
(* limitations of an item of evidence are "sorted", "unsorted" or "bad".    *)
(***************************************************************************)
EXTENDS Naturals, FiniteSets, Sequences

CONSTANTS
  Input,    \* the inputs of a call
  Nothing   \* no pack yet

VARIABLES
  input,    \* the call's input
  pack,     \* the pack, a refusal code, or Nothing
  recall    \* whether the independent reader recalled the pack, or Nothing

vars == <<input, pack, recall>>

Refused(code) == [refused |-> code]

IsPack(x) == x # Nothing /\ "refused" \notin DOMAIN x

-----------------------------------------------------------------------------
(* Selection.                                                                *)

Eligible(in) == {r \in in.records : r.lifecycle \in {"accepted", "sealed"}}

Ineligible(in) == in.records \ Eligible(in)

Duplicates(records) == \E r, s \in records : r # s /\ r.id = s.id

Revision(x) == <<x[1], x[2]>>

RevisionsOf(records) == {<<r.id, r.rev>> : r \in records}

\* Receipts for a revision the selection excludes anyway are only checked.
Historical(in) ==
  {x \in in.revocations :
     Revision(x) \in RevisionsOf(Ineligible(in)) \ RevisionsOf(Eligible(in))}

Applicable(in) == in.revocations \ Historical(in)

\* validated_suppressions refuses receipts of another revision and two receipts
\* for one revision.
ReceiptsValid(in) ==
  /\ \A x \in Applicable(in) : Revision(x) \in RevisionsOf(Eligible(in))
  /\ \A x, y \in in.revocations : Revision(x) = Revision(y) => x = y

Revoked(in) == {x[1] : x \in Applicable(in)}

\* The first reason that excludes a record, or "selected".
Verdict(in, r) ==
  CASE r \notin Eligible(in) -> "lifecycle"
    [] r \in Eligible(in) /\ r.id \notin in.chosen -> "not-chosen"
    [] r \in Eligible(in) /\ r.id \in in.chosen /\ r.id \in Revoked(in) -> "revocation"
    [] r \in Eligible(in) /\ r.id \in in.chosen \ Revoked(in) /\ r.rank > in.allowed -> "sensitivity"
    [] r \in Eligible(in) /\ r.id \in in.chosen \ Revoked(in) /\ r.rank <= in.allowed
         /\ r.freshness = "stale" -> "freshness"
    [] OTHER -> "selected"

With(in, verdict) == {r \in in.records : Verdict(in, r) = verdict}

\* Which contract can say what happened; no version is a refusal.
Versions(in) ==
  IF Ineligible(in) # {} THEN {"v4"} \cap in.versions
  ELSE IF Revoked(in) # {} /\ "v3" \in in.versions THEN {"v3"}
  ELSE IF Revoked(in) = {} /\ "v2" \in in.versions THEN {"v2"}
  ELSE {"v4"} \cap in.versions

\* Evidence in the one form a pack may hold.
Normalized(e) == [e EXCEPT !.limits = "sorted"]

\* Evidence the caller authorized, and the part a selected record binds.
Authorized(in) == {Normalized(e) : e \in {f \in in.evidence : f.key \in in.authorized}}

Bound(in) == {e \in Authorized(in) : e.binding \in {r.binding : r \in With(in, "selected")}}

\* Evidence that only a revoked record binds is dropped; any other is refused.
EvidenceDropped(in) ==
  \A e \in Authorized(in) \ Bound(in) : e.binding \in {r.binding : r \in With(in, "revocation")}

Counts(in) ==
  [v \in {"lifecycle", "not-chosen", "revocation", "sensitivity", "freshness"} |->
     Cardinality(With(in, v))]

PackOf(in) ==
  [version |-> CHOOSE v \in Versions(in) : TRUE,
   records |-> With(in, "selected"),
   evidence |-> Bound(in),
   counts |-> Counts(in),
   policy |-> Revoked(in) # {},
   receipts |-> {x[3] : x \in Applicable(in)},
   fits |-> in.fits]

\* The refusals of export_context in the order of its checks.  A freshness
\* assertion made after the selection refuses the whole call.
Refusals(in) == <<
  [code |-> "authorized-record-unavailable", holds |-> ~(in.chosen \subseteq {r.id : r \in in.records})],
  [code |-> "duplicate-record", holds |-> Duplicates(Eligible(in))],
  [code |-> "context-schema-unnegotiated", holds |-> Ineligible(in) # {} /\ "v4" \notin in.versions],
  [code |-> "revocation-receipt", holds |-> ~ReceiptsValid(in)],
  [code |-> "context-schema-unnegotiated", holds |-> Versions(in) = {}],
  [code |-> "freshness-invalid", holds |-> \E r \in With(in, "selected") : r.freshness = "future"],
  [code |-> "external-evidence-invalid", holds |-> \E e \in in.evidence : e.limits = "bad"],
  [code |-> "duplicate-external-evidence", holds |-> \E e, f \in in.evidence : e # f /\ e.key = f.key],
  [code |-> "authorized-evidence-unavailable", holds |-> ~(in.authorized \subseteq {e.key : e \in in.evidence})],
  [code |-> "external-evidence-unbound", holds |-> ~EvidenceDropped(in)],
  [code |-> "size-limit-exceeded", holds |-> ~in.fits]>>

Objections(in) ==
  LET refusals == Refusals(in)
  IN  {i \in DOMAIN refusals : refusals[i].holds}

\* The first objection is the refusal.
Export ==
  /\ pack = Nothing
  /\ LET objections == Objections(input)
     IN  pack' = IF objections = {} THEN PackOf(input)
                 ELSE Refused(Refusals(input)[CHOOSE i \in objections :
                                                \A j \in objections : i <= j].code)
  /\ UNCHANGED <<input, recall>>

-----------------------------------------------------------------------------
\* recall_context: what the independent reader requires of a pack's selection
\* receipt, of its records and of its evidence.
SelectionValid(p) ==
  /\ p.version \in {"v2", "v3", "v4"}
  /\ p.version = "v2" => ~p.policy
  /\ p.version = "v3" => p.policy
  /\ p.version # "v4" => p.counts["lifecycle"] = 0
  /\ p.counts["revocation"] > 0 => p.policy
  /\ p.policy = (p.receipts # {})

RecordsValid(p) ==
  /\ ~Duplicates(p.records)
  /\ \A r \in p.records : r.freshness = "current"

EvidenceValid(p) ==
  /\ \A e \in p.evidence : e.limits = "sorted" /\ e.binding \in {r.binding : r \in p.records}
  /\ \A e, f \in p.evidence : e.key = f.key => e = f

Recallable(p) == SelectionValid(p) /\ RecordsValid(p) /\ EvidenceValid(p) /\ p.fits

Recall ==
  /\ IsPack(pack)
  /\ recall = Nothing
  /\ recall' = Recallable(pack)
  /\ UNCHANGED <<input, pack>>

Init ==
  /\ input \in Input
  /\ pack = Nothing
  /\ recall = Nothing

Next == Export \/ Recall

Spec == Init /\ [][Next]_vars

\* The caller's records, receipts and evidence are records with those fields.
ContextConstants ==
  /\ Nothing \notin BOOLEAN
  /\ \A in \in Input :
       /\ IsFiniteSet(in.records) /\ in.allowed \in Nat /\ in.fits \in BOOLEAN
       /\ in.versions \subseteq {"v2", "v3", "v4"}
       /\ \A r \in in.records : r.rank \in Nat /\ r.freshness \in {"current", "stale", "future"}
       /\ \A e \in in.evidence :
            e = [key |-> e.key, binding |-> e.binding, limits |-> e.limits]

-----------------------------------------------------------------------------
TypeOK ==
  /\ input \in Input
  /\ pack # Nothing /\ ~IsPack(pack) => DOMAIN pack = {"refused"}
  /\ IsPack(pack) =>
       /\ pack = [version |-> pack.version, records |-> pack.records, evidence |-> pack.evidence,
                  counts |-> pack.counts, policy |-> pack.policy, receipts |-> pack.receipts,
                  fits |-> pack.fits]
       /\ pack.version \in {"v2", "v3", "v4"} /\ pack.records \subseteq input.records
       /\ pack.policy \in BOOLEAN /\ pack.fits \in BOOLEAN
  /\ recall \in BOOLEAN \cup {Nothing}

\* Whatever pack export_context returns: the independent reader recalls it; it
\* is of a negotiated version; no record in it was revoked by a receipt for
\* that revision, superseded, unchosen, stale or too sensitive; the evidence it
\* discloses is authorized and bound by a record it shows; and selected and
\* excluded records add up to what was supplied (context.py against
\* independent_context_reader.py).
PackHonest ==
  /\ recall # FALSE
  /\ IsPack(pack) =>
       /\ pack.version \in input.versions
       /\ \A r \in pack.records :
            /\ \A x \in input.revocations : Revision(x) # <<r.id, r.rev>>
            /\ r.lifecycle \in {"accepted", "sealed"} /\ r.id \in input.chosen
            /\ r.rank <= input.allowed /\ r.freshness = "current"
       /\ \A e \in pack.evidence :
            e.key \in input.authorized /\ \E r \in pack.records : r.binding = e.binding
       /\ Cardinality(pack.records) + pack.counts["lifecycle"] + pack.counts["not-chosen"]
            + pack.counts["revocation"] + pack.counts["sensitivity"] + pack.counts["freshness"]
          = Cardinality(input.records)
=============================================================================
