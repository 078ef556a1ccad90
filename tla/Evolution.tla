----------------------------- MODULE Evolution -----------------------------
(***************************************************************************)
(* Record evolution (record_evolution.py): candidates are drafts bound to  *)
(* the exact revisions they were built from; a decision admits them or     *)
(* not, and an accepted supersession turns the exact current predecessor   *)
(* into a superseded revision.                                             *)
(*                                                                         *)
(* A revision is [id, content, life, relations]; its digest is the         *)
(* revision itself, relations included, so no revision can lie in its own  *)
(* past.  admit_candidate returns records and a receipt; the store that    *)
(* keeps them, says which revisions are current and which candidates were  *)
(* seen, and persists a result in the step that asked for it, is external  *)
(* (docs/contracts/v0-record-evolution.md leaves it to the integrator).    *)
(***************************************************************************)
EXTENDS Naturals, FiniteSets, Sequences, FiniteSetsExt

CONSTANTS
  Id,             \* record identities
  Content,        \* meanings
  Initial,        \* the records a store begins with
  MaxCandidates,  \* bound on candidates built
  MaxRelations    \* bound on the relations of a candidate

VARIABLES
  records,     \* every revision the store has kept
  candidates,  \* candidates built
  seen,        \* candidates the store knows to be processed
  receipts     \* history: the receipts of acceptances, in order

vars == <<records, candidates, seen, receipts>>

\* Whole records of known identities, none of them a draft.
EvolutionConstants ==
  \A kept \in Initial : \A r \in kept :
    /\ r = [id |-> r.id, content |-> r.content, life |-> r.life, relations |-> r.relations]
    /\ r.id \in Id /\ r.life \in {"accepted", "sealed", "superseded"}

Decision == {"accepted", "rejected", "quarantined", "conflict"}

Superseded(r) == [r EXCEPT !.life = "superseded"]

\* The store's answer: accepted and not yet superseded.
Current == {r \in records : r.life \in {"accepted", "sealed"} /\ Superseded(r) \notin records}

CurrentRevisions(id) == {r \in Current : r.id = id}

-----------------------------------------------------------------------------
\* build_candidate: a draft over unique sources, whose supersedes and disputes
\* relations get the revisions of the sources they name; `twice` are those that
\* two supersedes relations name.
Candidate(version, id, content, sources, supersedes, twice, disputes) ==
  [version |-> version, sources |-> sources, twice |-> twice,
   draft |-> [id |-> id, content |-> content, life |-> "draft",
              relations |-> {<<"supersedes", r>> : r \in supersedes} \cup {<<"disputes", r>> : r \in disputes}]]

Build ==
  /\ Cardinality(candidates) < MaxCandidates
  /\ \E version \in {"v1", "v2"}, id \in Id, content \in Content, sources \in SUBSET records :
       /\ sources # {}
       /\ \A r, s \in sources : r.id = s.id => r = s
       /\ \E supersedes, disputes \in SUBSET records : \E twice \in SUBSET supersedes :
            /\ Cardinality(supersedes) + Cardinality(twice) + Cardinality(disputes) <= MaxRelations
            /\ candidates' = candidates \cup
                 {Candidate(version, id, content, sources, supersedes, twice, disputes)}
  /\ UNCHANGED <<records, seen, receipts>>

\* What acceptance makes of the draft.
Accepted(c) == [c.draft EXCEPT !.life = "accepted"]

Predecessors(c) == {x[2] : x \in {y \in c.draft.relations : y[1] = "supersedes"}}

Unbound(c) == \E x \in c.draft.relations : x[2] \notin c.sources

\* Supersession needs the exact predecessor, in a current lifecycle, and the
\* caller's assertion that it is the current revision.
Unproven(r) == r.life \notin {"accepted", "sealed"}

NotCurrentIfAsserted(r, asserted) == asserted /\ CurrentRevisions(r.id) # {r}

NotCurrent(r, asserted) == ~asserted \/ CurrentRevisions(r.id) # {r}

Stale(c) == \E r \in c.sources : CurrentRevisions(r.id) # {r}

\* The checks of admit_candidate in their order; `asserted` says whether the
\* caller supplied current revisions, `negotiated` whether it supports the result.
\* The last two are made predecessor by predecessor: which of the two refuses a
\* candidate with two bad predecessors is not distinguished.
Checks(c, decision, asserted, negotiated) == <<
  [outcome |-> "duplicate", holds |-> c \in seen],
  [outcome |-> "stale", holds |-> asserted /\ Stale(c)],
  [outcome |-> decision, holds |-> decision # "accepted"],
  [outcome |-> "unsupported", holds |-> ~negotiated],
  [outcome |-> "conflict", holds |-> Unbound(c)],
  [outcome |-> "duplicate", holds |-> c.version = "v2" /\ Accepted(c) \in c.sources],
  [outcome |-> "conflict",
   holds |-> c.version = "v2" /\ (c.twice # {} \/ \E r \in Predecessors(c) : Unproven(r))],
  [outcome |-> "stale", holds |-> c.version = "v2" /\ \E r \in Predecessors(c) : NotCurrent(r, asserted)]>>

Transitions(c) == IF c.version = "v2" THEN Predecessors(c) ELSE {}

Admit(c) ==
  /\ seen' = seen \cup {c}
  /\ \E decision \in Decision, asserted, negotiated \in BOOLEAN :
       LET checks == Checks(c, decision, asserted, negotiated)
           failing == {i \in DOMAIN checks : checks[i].holds}
           outcome == IF failing = {} THEN "accepted" ELSE checks[Min(failing)].outcome
           taken == Transitions(c)
       IN IF outcome = "accepted"
          THEN /\ records' = records \cup {Accepted(c)} \cup {Superseded(r) : r \in taken}
               /\ receipts' = Append(receipts,
                    [candidate |-> c, transitions |-> taken,
                     wasCurrent |-> \A r \in taken : CurrentRevisions(r.id) = {r},
                     stale |-> asserted /\ Stale(c)])
          ELSE UNCHANGED <<records, receipts>>
  /\ UNCHANGED candidates

Init ==
  /\ records \in Initial
  /\ candidates = {}
  /\ seen = {}
  /\ receipts = <<>>

Next == Build \/ \E c \in candidates : Admit(c)

Spec == Init /\ [][Next]_vars

-----------------------------------------------------------------------------
\* A whole revision of a known identity.
RevisionTyped(r) ==
  /\ r = [id |-> r.id, content |-> r.content, life |-> r.life, relations |-> r.relations]
  /\ r.id \in Id

\* A draft over revisions the store keeps.
CandidateTyped(c) ==
  /\ c.version \in {"v1", "v2"}
  /\ c.sources \in SUBSET records /\ c.twice \in SUBSET records
  /\ RevisionTyped(c.draft) /\ c.draft.life = "draft"

\* A receipt is of a candidate the store has seen, and of revisions it keeps.
Acceptance(processed, kept) ==
  [candidate : processed, transitions : SUBSET kept, wasCurrent : BOOLEAN, stale : BOOLEAN]

TypeOK ==
  /\ \A r \in records : RevisionTyped(r) /\ r.life \in {"accepted", "sealed", "superseded"}
  /\ \A c \in candidates : CandidateTyped(c)
  /\ seen \subseteq candidates
  /\ receipts \in Seq(Acceptance(seen, records))

\* However candidates built from the same or from older revisions are decided,
\* in any order, again, with or without current revisions: a candidate is
\* accepted once; a transition supersedes a revision that was the one current
\* revision of its record, no revision is superseded by two acceptances, and
\* a candidate whose sources moved on is not accepted by a caller who says
\* what is current (record_evolution.py, admit_candidate).
SuccessionUnforked ==
  /\ \A i \in DOMAIN receipts :
       /\ receipts[i].wasCurrent
       /\ ~receipts[i].stale
       /\ \A r \in receipts[i].transitions : Superseded(r) \in records
  /\ \A i, j \in DOMAIN receipts : i # j =>
       /\ receipts[i].candidate # receipts[j].candidate
       /\ receipts[i].transitions \cap receipts[j].transitions = {}
=============================================================================
