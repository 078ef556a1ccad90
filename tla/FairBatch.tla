----------------------------- MODULE FairBatch -----------------------------
(***************************************************************************)
(* Which local records one push submits (coordination_sync._push_bound)    *)
(* and what the durable receipts of earlier pulls make of that choice      *)
(* (_acknowledged_hub_state).  A request is bounded in records and bytes;  *)
(* records never attempted and records to retry each have a cyclic cursor, *)
(* and when both classes remain they alternate in going first.             *)
(*                                                                         *)
(* One vault, one hub, one principal.  A record is its position in the     *)
(* sorted list of canonical paths.  The hub may admit or reject any        *)
(* submission: policies, claims and competing writers are left open.       *)
(***************************************************************************)
EXTENDS Naturals, FiniteSets, FiniteSetsExt

CONSTANTS
  N,             \* the records are 1 .. N
  Size,          \* Size[r] in bytes
  MaxRecords,    \* MAX_SUBMITTED_RECORDS
  MaxBytes,      \* MAX_REQUEST_BYTES
  MaxCrashes     \* bound on crashes

Path == 1 .. N

ASSUME BatchAssumption ==
  /\ N \in Nat
  /\ Size \in [Path -> Nat]
  /\ MaxRecords \in Nat \ {0}
  /\ MaxBytes \in Nat /\ \A r \in Path : Size[r] <= MaxBytes
  /\ MaxCrashes \in Nat

VARIABLES
  outbox,    \* canonical records in the vault
  hub,       \* those of them the hub stores
  sched,     \* what replaying the durable receipts yields
  pending,   \* the pending envelope: the records it reports, admitted or not
  waited,    \* history: pushes that passed over a record since its last turn
  skips,     \* history: pushes in a row that served no record of a class
  crashes    \* history: crashes so far

vars == <<outbox, hub, sched, pending, waited, skips, crashes>>

Envelope == [tried : SUBSET Path, admitted : SUBSET Path]

Empty == [tried |-> {}, admitted |-> {}]

-----------------------------------------------------------------------------
(***************************************************************************)
(* Replaying one receipt.  Zero is the cursor that is not set.             *)
(***************************************************************************)

NeverRetryFirst(retried, s) == FALSE

RetryFirstNext(retried, s) == retried = {}

AttemptedSoFar(s, e) == s.attempted \cup e.tried

ReplayReceipt(s, e, members) ==
  LET fresh == e.tried \ s.attempted
      retried == e.tried \cap s.attempted
  IN  [known |-> s.known \cup members \cup e.admitted,
       attempted |-> AttemptedSoFar(s, e),
       freshCursor |-> IF fresh = {} THEN s.freshCursor ELSE Max(fresh),
       retryCursor |-> IF retried = {} THEN s.retryCursor ELSE Max(retried),
       retryFirst |-> IF e.tried = {} THEN s.retryFirst
                      ELSE RetryFirstNext(retried, s)]

-----------------------------------------------------------------------------
(***************************************************************************)
(* The batch of the next push                                              *)
(***************************************************************************)

Candidates == outbox \ sched.known

Fresh == Candidates \ sched.attempted

Retries == Candidates \cap sched.attempted

\* The position of r in its class, rotated to start after the cursor.
InPathOrder(r, cursor) == r

Rotated(r, cursor) == IF r > cursor THEN r ELSE N + r

Position(r) ==
  LET second == 2 * N
      retriesLead == sched.retryFirst
  IN  IF r \in Retries
      THEN Rotated(r, sched.retryCursor) + (IF retriesLead THEN 0 ELSE second)
      ELSE Rotated(r, sched.freshCursor) + (IF retriesLead THEN second ELSE 0)

UpTo(r) == {q \in Candidates : Position(q) <= Position(r)}

TotalSize(S) == FoldSet(LAMBDA r, total : total + Size[r], 0, S)

\* The first record is taken whatever its size.
Fits(S) ==
  /\ Cardinality(S) <= MaxRecords
  /\ Cardinality(S) > 1 => TotalSize(S) <= MaxBytes

\* The loop ends at the first record that does not fit.
Batch == {r \in Candidates : \A q \in UpTo(r) : Fits(UpTo(q))}

-----------------------------------------------------------------------------
Append(r) ==
  /\ outbox' = outbox \cup {r}
  /\ UNCHANGED <<hub, sched, pending, waited, skips, crashes>>

\* The histories stop counting beyond what any property compares them with.
MaxHistory == 2 * N * (1 + MaxCrashes)

PassedOver(class, n) ==
  IF class # {} /\ Batch \cap class = {} THEN Min({n + 1, MaxHistory}) ELSE 0

Push ==
  \E admitted \in SUBSET Batch :
    /\ pending.tried = {}
    /\ hub' = hub \cup admitted
    /\ pending' = [tried |-> Batch, admitted |-> admitted]
    /\ waited' = [r \in Path |-> PassedOver(Candidates \cap {r}, waited[r])]
    /\ skips' = [fresh |-> PassedOver(Fresh, skips.fresh),
                 retry |-> PassedOver(Retries, skips.retry)]
    /\ UNCHANGED <<outbox, sched, crashes>>

\* Admitted by the hub, but the process dies before the envelope is written.
CrashedPush ==
  \E admitted \in SUBSET Batch :
    /\ crashes < MaxCrashes
    /\ pending.tried = {}
    /\ hub' = hub \cup admitted
    /\ crashes' = crashes + 1
    /\ UNCHANGED <<outbox, sched, pending, waited, skips>>

Receive == sched' = ReplayReceipt(sched, pending, hub)

Pull ==
  /\ Receive
  /\ pending' = Empty
  /\ UNCHANGED <<outbox, hub, waited, skips, crashes>>

\* The receipt is durable, but the envelope is not consumed.
CrashedPull ==
  /\ crashes < MaxCrashes
  /\ Receive
  /\ crashes' = crashes + 1
  /\ UNCHANGED <<outbox, hub, pending, waited, skips>>

Init ==
  /\ outbox = {}
  /\ hub = {}
  /\ sched = [known |-> {}, attempted |-> {}, freshCursor |-> 0,
              retryCursor |-> 0, retryFirst |-> FALSE]
  /\ pending = Empty
  /\ waited = [r \in Path |-> 0]
  /\ skips = [fresh |-> 0, retry |-> 0]
  /\ crashes = 0

Next ==
  \/ \E r \in Path \ outbox : Append(r)
  \/ Push
  \/ CrashedPush
  \/ Pull
  \/ CrashedPull

Spec == Init /\ [][Next]_vars

\* Syncs keep being requested; each is a push followed by its pull.
FairSpec == Spec /\ WF_vars(Push) /\ WF_vars(pending.tried # {} /\ Pull)
-----------------------------------------------------------------------------
\* Every variable keeps its type; a cursor names a record already attempted.
TypeOK ==
  /\ outbox \subseteq Path
  /\ hub \subseteq outbox
  /\ pending \in Envelope
  /\ sched.known \subseteq outbox /\ sched.attempted \subseteq outbox
  /\ {sched.freshCursor, sched.retryCursor} \subseteq {0} \cup sched.attempted
  /\ sched.retryFirst \in BOOLEAN

\* No class of records is passed over by two pushes in a row, except where a
\* crash made two receipts report one batch: sustained fresh ingestion cannot
\* starve retries, nor terminal retries fresh work, also when a request
\* carries a single record.
NoClassStarved ==
  skips.fresh <= 1 + crashes /\ skips.retry <= 1 + crashes

\* "When both classes remain, alternate which class leads the bounded batch":
\* a class that one push left out altogether leads the next.
ClassesAlternate == skips.fresh <= 1 /\ skips.retry <= 1

\* No record is passed over by more pushes than a round of both classes
\* takes: the cursors turn, so one end of a class cannot starve the other.
\* A crash that repeats a receipt moves the cursor of the retries to its
\* fresh records, so each may cost a retry, never a fresh record, a round.
Round == 2 * N - 1

BoundedBypass ==
  \A r \in Path :
    waited[r] <= Round * (IF r \in sched.attempted THEN 1 + crashes ELSE 1)

\* A record the hub does not have keeps getting its turn, however often it was
\* refused and however many records share the requests.
RetriesRecur ==
  \A r \in Path : r \in outbox ~> r \in sched.known \cup pending.tried
=============================================================================
