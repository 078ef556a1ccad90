------------------------------- MODULE Custody -------------------------------
(***************************************************************************)
(* Custody of backups at a remote endpoint (src/artifact_memory/custody.py): *)
(* the migration of an endpoint document to its second version, and the      *)
(* preflight that binds it to the configuration of a transport, while the    *)
(* owner fills in both documents field by field.  No step here writes        *)
(* anything to the endpoint.                                                 *)
(***************************************************************************)
EXTENDS Naturals, FiniteSets

CONSTANTS
  None,     \* no document, no receipt
  MaxEdits  \* bound on the owner's edits

VARIABLES
  source,    \* the fields filled in the v1 endpoint document
  endpoint,  \* [by, filled]: the v2 document and who made it, or None
  adapter,   \* [kind, filled]: the transport's configuration
  receipt,   \* the last preflight receipt, or None
  edits

vars == <<source, endpoint, adapter, receipt, edits>>

\* A field is filled when it is configured, or authorized.  What a v1 document
\* says of the provisioning and of remote writes is never filled.
SourceFields == {"ready", "account", "storage_location", "authorization"}

Provisioned == {"vm_address", "vm_account", "vm_storage", "vm_schedule"}

Primary == {"address", "account", "repository", "service"}

EndpointFields ==
  Primary \cup Provisioned
  \cup {"fallback", "schedule", "storage_location", "ready", "authorization", "write"}

AdapterFields(kind) ==
  CASE kind = "rest" -> {"address", "account", "repository", "service", "schedule", "write"}
    [] kind = "sftp-v1" -> {}
    [] kind = "sftp-v2" -> {"address", "account", "repository", "schedule", "write"}

\* The schema of v2: writes are authorized in both places or neither, and
\* then everything but the fallback is configured.
ValidEndpoint(fields) ==
  /\ "write" \in fields => EndpointFields \ {"fallback"} \subseteq fields
  /\ "authorization" \in fields => "write" \in fields

\* The schemas of the configurations.
ValidAdapter(kind, fields) == "write" \in fields => fields = AdapterFields(kind)

\* Only what v1 says of the fallback's account, the storage and the machine
\* is carried over; authorization is not.
Migrated(fields) ==
  (fields \cap {"storage_location", "ready"}) \cup {f \in {"fallback"} : "account" \in fields}

\* The fields of the endpoint and of the configuration that must agree.
Bindings(kind) ==
  {<<"write", "write">>, <<"authorization", "write">>, <<"vm_address", "address">>,
   <<"vm_account", "account">>, <<"vm_storage", "repository">>}
  \cup (IF kind = "rest" THEN {<<f, f>> : f \in Primary} ELSE {<<"fallback", "account">>})
  \cup (IF kind = "sftp-v1" THEN {} ELSE {<<"schedule", "schedule">>, <<"vm_schedule", "schedule">>})

Agree(fields, a) == \A b \in Bindings(a.kind) : b[1] \in fields <=> b[2] \in a.filled

-----------------------------------------------------------------------------
Kinds == {"rest", "sftp-v1", "sftp-v2"}

\* Documents with at most one field left to fill, or none filled.
NearlyAll(fields) == {{}} \cup {fields \ {f} : f \in fields} \cup {fields}

Documents ==
  NearlyAll(EndpointFields)
  \cup {fields \ {"write", "authorization"} : fields \in NearlyAll(EndpointFields)}

Fillings(kind) ==
  NearlyAll(AdapterFields(kind)) \cup {fields \ {"write"} : fields \in NearlyAll(AdapterFields(kind))}

Configurations == UNION {{[kind |-> k, filled |-> fields] : fields \in Fillings(k)} : k \in Kinds}

Endpoints == [by : {"migration", "owner"}, filled : SUBSET EndpointFields]

Receipts ==
  [outcome : {"ready-for-owner-authorized-write", "not-authorized"},
   endpoint : Endpoints, adapter : Configurations]

\* No document and no receipt is None.
CustodyConstants ==
  /\ MaxEdits \in Nat
  /\ None \notin Endpoints

TypeOK ==
  /\ source \subseteq SourceFields
  /\ endpoint \in Endpoints \cup {None}
  /\ adapter \in Configurations
  /\ receipt \in Receipts \cup {None}
  /\ edits \in 0 .. MaxEdits

Init ==
  /\ source \in SUBSET SourceFields
  /\ endpoint = None /\ receipt = None
  /\ adapter \in {[kind |-> k, filled |-> {}] : k \in Kinds}
  /\ edits = 0

Migrate ==
  /\ endpoint = None
  /\ ValidEndpoint(Migrated(source))
  /\ endpoint' = [by |-> "migration", filled |-> Migrated(source)]
  /\ UNCHANGED <<source, adapter, receipt, edits>>

EditEndpoint(fields) ==
  /\ edits < MaxEdits /\ edits' = edits + 1
  /\ endpoint' = [by |-> "owner", filled |-> fields]
  /\ UNCHANGED <<source, adapter, receipt>>

EditAdapter(configuration) ==
  /\ edits < MaxEdits /\ edits' = edits + 1
  /\ adapter' = configuration
  /\ UNCHANGED <<source, endpoint, receipt>>

Outcome(fields) ==
  IF "write" \in fields THEN "ready-for-owner-authorized-write" ELSE "not-authorized"

Preflight ==
  /\ endpoint # None
  /\ ValidEndpoint(endpoint.filled) /\ ValidAdapter(adapter.kind, adapter.filled)
  /\ Agree(endpoint.filled, adapter)
  /\ receipt' = [outcome |-> Outcome(endpoint.filled), endpoint |-> endpoint, adapter |-> adapter]
  /\ UNCHANGED <<source, endpoint, adapter, edits>>

Next ==
  \/ Migrate
  \/ \E fields \in Documents : EditEndpoint(fields)
  \/ \E configuration \in Configurations : EditAdapter(configuration)
  \/ Preflight

Spec == Init /\ [][Next]_vars

(***************************************************************************)
(* An endpoint is ready for a write only after the owner, and no migration,  *)
(* authorized it in the endpoint's document and in the transport's           *)
(* configuration, with everything that transport uses configured in both.    *)
(***************************************************************************)
ReadyByOwner ==
  receipt # None /\ receipt.outcome = "ready-for-owner-authorized-write" =>
    /\ receipt.endpoint.by = "owner"
    /\ receipt.adapter.filled = AdapterFields(receipt.adapter.kind)
    /\ "write" \in receipt.adapter.filled
    /\ EndpointFields \ {"fallback"} \subseteq receipt.endpoint.filled
    /\ receipt.adapter.kind = "sftp-v2" => "fallback" \in receipt.endpoint.filled
=============================================================================
