------------------------------ MODULE Retention ------------------------------
(***************************************************************************)
(* What observations of the copies of one content, and receipts of their    *)
(* deletion, add up to (src/artifact_memory/retention.py, location.py).      *)
(* Observations made at any time, by anybody, arrive in any order, some      *)
(* twice.  Nothing here deletes anything: a receipt describes what           *)
(* somebody else did.                                                        *)
(***************************************************************************)
EXTENDS Naturals, FiniteSets, SequencesExt

CONSTANTS
  Location,         \* pairs of an endpoint and a path
  MaxTime,          \* bound on the times of observations
  MaxObservations,  \* bound on the observations summarised
  MaxReceipts       \* bound on deletion receipts

VARIABLES
  observations,  \* the list that is summarised, as it arrived
  receipts       \* deletion receipts

vars == <<observations, receipts>>

RetentionConstants == MaxTime \in Nat

Presence == {"present", "absent", "unavailable"}

Verification == {"content-verified", "presence-verified", "unverified"}

\* "unverified" stands for a failed verification too; a v1 observation
\* carries no verification state.
Observation ==
  [location : Location, at : 0 .. MaxTime, presence : Presence,
   verification : Verification \cup {"not-recorded"}]

(***************************************************************************)
(* validate_location_observation, content_retrievability                    *)
(***************************************************************************)

\* Bytes not present are not content-verified, and an endpoint that is
\* unavailable says nothing of them.
Consistent(o) ==
  \/ o.verification = "not-recorded"
  \/ /\ o.verification = "content-verified" => o.presence = "present"
     /\ o.presence = "unavailable" => o.verification = "unverified"

Retrievable(o) == o.presence = "present" /\ o.verification # "unverified"

Unseen == [at |-> MaxTime + 1, retrievable |-> FALSE]

Supersedes(o, seen) == seen = Unseen \/ o.at > seen.at

Contradicts(o, seen) == o.at = seen.at /\ Retrievable(o) # seen.retrievable

\* One step of the loop: the latest state of a location, or a conflict that
\* ends it.
Noted(found, o) ==
  LET seen == found.latest[o.location]
  IN IF found.conflict THEN found
     ELSE IF Supersedes(o, seen)
          THEN [found EXCEPT !.latest[o.location] = [at |-> o.at, retrievable |-> Retrievable(o)]]
          ELSE [found EXCEPT !.conflict = Contradicts(o, seen)]

NothingFound == [latest |-> [l \in Location |-> Unseen], conflict |-> FALSE]

\* The loop, over the list as it arrived.
NotedAll(list) ==
  LET noted[n \in 0 .. Len(list)] ==
        IF n = 0 THEN NothingFound ELSE Noted(noted[n - 1], list[n])
  IN noted[Len(list)]

ContentRetrievability(list) ==
  LET found == NotedAll(list)
  IN IF list = <<>> \/ \E i \in DOMAIN list : ~Consistent(list[i]) THEN "refused"
     ELSE IF found.conflict THEN "conflict"
     ELSE IF \E l \in Location : found.latest[l].retrievable
          THEN "verified-retrievable-location-observed"
          ELSE "zero-currently-verified-retrievable-locations"

(***************************************************************************)
(* deletion_receipt, deletion_request, overall_deletion_status              *)
(***************************************************************************)

EndpointScoped ==
  {"attempted", "removed-observed", "verified-absent-at-endpoint", "retained-until-expiry",
   "endpoint-unavailable", "failed"}

Complete == {"removed-observed", "verified-absent-at-endpoint"}

Retained ==
  {"retained-until-expiry", "endpoint-unavailable", "scope-unknown", "failed", "partially-complete"}

Outcome == EndpointScoped \cup Retained \cup {"requested", "not-authorized"}

\* The active vault stands for the scopes without a rule of their own.
Scope == {"active-vault", "endpoint", "managed-backup", "unknown-replica"}

Receipt ==
  [scope : Scope, outcome : Outcome,
   managed : BOOLEAN, endpoint : BOOLEAN, generation : BOOLEAN, evidence : BOOLEAN]

\* What a receipt must name for its scope and its outcome.
Describable(r) ==
  /\ r.outcome \in EndpointScoped \/ r.scope = "endpoint" \/ r.generation => r.endpoint
  /\ r.scope = "managed-backup" => r.generation
  /\ r.scope = "unknown-replica" =>
       ~r.managed /\ r.outcome = "scope-unknown" /\ ~r.endpoint /\ ~r.generation
  /\ r.outcome \in Complete => r.evidence

Requested(scope, authorized, endpoint, generation) ==
  [scope |-> scope, outcome |-> IF authorized THEN "requested" ELSE "not-authorized",
   managed |-> scope # "unknown-replica", endpoint |-> endpoint, generation |-> generation,
   evidence |-> FALSE]

OverallDeletionStatus(rs, unknownReplicas) ==
  LET outcomes == {r.outcome : r \in rs}
  IN IF rs = {} THEN "scope-unknown"
     ELSE IF "not-authorized" \in outcomes THEN "not-authorized"
     ELSE IF outcomes \cap Retained # {} \/ (outcomes \subseteq Complete /\ unknownReplicas) THEN "partially-complete"
     ELSE IF outcomes = {"verified-absent-at-endpoint"} THEN "verified-absent-at-endpoint"
     ELSE IF outcomes \subseteq Complete THEN "removed-observed"
     ELSE IF "attempted" \in outcomes THEN "attempted"
     ELSE "requested"

-----------------------------------------------------------------------------
TypeOK ==
  /\ observations \in Seq(Observation)
  /\ receipts \subseteq Receipt

Init == observations = <<>> /\ receipts = {}

Arrive(o) ==
  /\ Len(observations) < MaxObservations
  /\ observations' = Append(observations, o)
  /\ UNCHANGED receipts

Describe(r) ==
  /\ Cardinality(receipts) < MaxReceipts
  /\ Describable(r)
  /\ receipts' = receipts \cup {r}
  /\ UNCHANGED observations

Request(scope, authorized, endpoint, generation) ==
  Describe(Requested(scope, authorized, endpoint, generation))

Next ==
  \/ \E o \in Observation : Arrive(o)
  \/ \E r \in Receipt : Describe(r)
  \/ \E scope \in Scope :
       \E authorized, endpoint, generation \in BOOLEAN :
         Request(scope, authorized, endpoint, generation)

Spec == Init /\ [][Next]_vars

-----------------------------------------------------------------------------
Latest(list, l) ==
  LET seen == {o \in ToSet(list) : o.location = l}
  IN {o \in seen : \A other \in seen : other.at <= o.at}

IsComplete(rs, unknownReplicas) == OverallDeletionStatus(rs, unknownReplicas) \in Complete

(***************************************************************************)
(* A summary that answers says what the latest observations say, in         *)
(* whatever order they arrived: of two that contradict each other at the    *)
(* latest time it says nothing.  A deletion is never summed up as complete  *)
(* while a replica may be unknown, and no receipt added to others makes     *)
(* complete what was not.                                                   *)
(***************************************************************************)
SummariesHonest ==
  /\ LET answer == ContentRetrievability(observations)
         latest == [l \in Location |-> {Retrievable(o) : o \in Latest(observations, l)}]
     IN answer \notin {"refused", "conflict"} =>
          /\ \A l \in Location : Cardinality(latest[l]) <= 1
          /\ (answer = "verified-retrievable-location-observed") <=> \E l \in Location : TRUE \in latest[l]
  /\ ~IsComplete(receipts, TRUE)
  /\ IsComplete(receipts, FALSE) =>
       \A r \in receipts : r.scope # "unknown-replica"
                           /\ (IsComplete(receipts \ {r}, FALSE) \/ receipts = {r})
=============================================================================
