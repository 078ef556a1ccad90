------------------------------- MODULE Imports -------------------------------
(***************************************************************************)
(* Imports of derived records: a session ledger's dated entries, written    *)
(* one by one into a vault (src/artifact_memory/session_ledger.py), and one *)
(* selected task's curated fields, written as a new directory               *)
(* (src/artifact_memory/codex_history.py).  Importers race, die between two *)
(* files and come back to a ledger that was edited, and the owner may put   *)
(* or remove files at any time.                                             *)
(*                                                                          *)
(* An entry stands for its date and normalised summary, a record for the    *)
(* digest of the entry and its occurrence: the same entries give the same   *)
(* records in every import.                                                 *)
(***************************************************************************)
EXTENDS Naturals, FiniteSets, Sequences, TLC

CONSTANTS
  Entry,       \* dated entries
  Refused,     \* a line that is no entry: invalid, too long or sensitive
  MaxEntries,  \* bound on the entries of a ledger
  Logs,        \* what the ledger may say
  Importer,    \* processes importing the ledger
  Policies,    \* [task, policy] a bundle may be asked for
  Writer,      \* processes writing a bundle to one output directory
  Nobody,      \* no process
  MaxEdits, MaxTouches, MaxImports   \* bounds on edits of the ledger, files
                                     \* touched by the owner, and imports

VARIABLES
  log,       \* the ledger
  files,     \* files[r]: "absent", "record" (its bytes) or "other" bytes
  lock,      \* holder of session-ledger-import
  importer,  \* importer[p]
  edits, touched, imports,
  credit,    \* credit[r]: reports that counted r as created
  reported,  \* records that complete imports accounted for
  collided,  \* records at which an import was refused
  output,    \* the output directory: absent, empty, foreign or a bundle
  writer,    \* writer[p]
  claims     \* bundles whose writers were told they are written

vars == <<log, files, lock, importer, edits, touched, imports, credit, reported, collided,
          output, writer, claims>>

ledger == <<log, files, lock, importer, edits, imports, credit, reported, collided>>
bundles == <<output, writer, claims>>

Record == Entry \X (0..MaxEntries - 1)

Idle == [step |-> "idle"]

\* What stands for the output directory among the touched.
Output == <<"output", 0>>

Specs(task) ==
  {<<"decision", t>> : t \in task.decisions} \cup {<<"research", t>> : t \in task.research}
  \cup {<<"workstream", t>> : t \in IF task.workstreams = {} THEN {task.summary} ELSE task.workstreams}
  \cup {<<"question", t>> : t \in task.questions}

\* A ledger is lines, and Nobody imports.
ImportConstants ==
  /\ MaxEntries \in Nat /\ MaxEdits \in Nat /\ MaxImports \in Nat
  /\ Logs \subseteq Seq(Entry \cup {Refused})
  /\ Nobody \notin Importer

Init ==
  /\ log \in Logs
  /\ files = [r \in Record |-> "absent"]
  /\ lock = Nobody
  /\ importer = [p \in Importer |-> Idle]
  /\ edits = 0 /\ touched = {} /\ imports = 0
  /\ credit = [r \in Record |-> 0]
  /\ reported = {} /\ collided = {}
  /\ output = [is |-> "absent"]
  /\ writer = [p \in Writer |-> Idle]
  /\ claims = {}

(***************************************************************************)
(* The owner                                                                *)
(***************************************************************************)

EditLog(text) ==
  /\ edits < MaxEdits
  /\ text # log
  /\ log' = text
  /\ edits' = edits + 1
  /\ UNCHANGED <<files, lock, importer, touched, imports, credit, reported, collided, bundles>>

Touching(what) == Cardinality(touched) < MaxTouches /\ touched' = touched \cup {what}

TouchFile(r, bytes) ==
  /\ Touching(r)
  /\ bytes # files[r]
  /\ files' = [files EXCEPT ![r] = bytes]
  /\ UNCHANGED <<log, lock, importer, edits, imports, credit, reported, collided, bundles>>

TouchOutput(what) ==
  /\ Touching(Output)
  /\ output' = [is |-> what]
  /\ UNCHANGED <<ledger, writer, claims>>

(***************************************************************************)
(* import_session_ledger                                                    *)
(***************************************************************************)

Occurrence(text, i) == Cardinality({j \in 1..i - 1 : text[j] = text[i]})

Records(text) == [i \in DOMAIN text |-> <<text[i], Occurrence(text, i)>>]

Parses(text) ==
  /\ Len(text) \in 1..MaxEntries
  /\ \A i \in DOMAIN text : text[i] # Refused

Step(p, state) == importer' = [importer EXCEPT ![p] = state]

\* The whole ledger is read and mapped before the vault is looked at.  A dry
\* run reports the mapping and stops.
ReadLedger(p, dry) ==
  /\ importer[p] = Idle
  /\ imports < MaxImports /\ imports' = imports + 1
  /\ IF Parses(log) /\ ~dry
     THEN Step(p, [step |-> "read", records |-> Records(log)])
     ELSE UNCHANGED importer
  /\ UNCHANGED <<log, files, lock, edits, touched, credit, reported, collided, bundles>>

LockFree(p) == lock = Nobody

TakeLock(p) ==
  /\ importer[p].step = "read"
  /\ LockFree(p)
  /\ lock' = p
  /\ Step(p, [step |-> "preflight", records |-> importer[p].records, expected |-> <<>>])
  /\ UNCHANGED <<log, files, edits, touched, imports, credit, reported, collided, bundles>>

Release(p) == lock' = IF lock = p THEN Nobody ELSE lock

Disposition(r) == IF files[r] = "absent" THEN "created" ELSE "duplicate"

Collide(p, r) ==
  /\ Step(p, Idle) /\ Release(p)
  /\ collided' = collided \cup {r}

Target(p, done) == importer[p].records[Len(done) + 1]

\* Every target is looked at before any is written.
Preflight(p) ==
  /\ importer[p].step = "preflight"
  /\ LET expected == importer[p].expected
         r == Target(p, expected)
         all == Append(expected, Disposition(r))
     IN IF files[r] = "other"
        THEN Collide(p, r)
        ELSE /\ Step(p, IF Len(all) = Len(importer[p].records)
                        THEN [step |-> "write", records |-> importer[p].records,
                              expected |-> all, written |-> <<>>]
                        ELSE [importer[p] EXCEPT !.expected = all])
             /\ UNCHANGED <<lock, collided>>
  /\ UNCHANGED <<log, files, edits, touched, imports, credit, reported, bundles>>

Created(p) ==
  {importer[p].records[i] : i \in {j \in DOMAIN importer[p].expected : importer[p].expected[j] = "created"}}

Report(p) ==
  /\ credit' = [r \in Record |-> credit[r] + (IF r \in Created(p) THEN 1 ELSE 0)]
  /\ reported' = reported \cup {importer[p].records[i] : i \in DOMAIN importer[p].records}
  /\ Step(p, Idle) /\ Release(p)

\* What is written must be what the preflight expected.
WriteRecord(p) ==
  /\ importer[p].step = "write"
  /\ LET written == importer[p].written
         r == Target(p, written)
     IN /\ files' = IF files[r] = "absent" THEN [files EXCEPT ![r] = "record"] ELSE files
        /\ IF files[r] = "other" \/ Disposition(r) # importer[p].expected[Len(written) + 1]
           THEN Collide(p, r) /\ UNCHANGED <<credit, reported>>
           ELSE IF Len(written) + 1 = Len(importer[p].records)
                THEN Report(p) /\ UNCHANGED collided
                ELSE /\ Step(p, [importer[p] EXCEPT !.written = Append(@, r)])
                     /\ UNCHANGED <<lock, credit, reported, collided>>
  /\ UNCHANGED <<log, edits, touched, imports, bundles>>

ImporterDies(p) ==
  /\ importer[p] # Idle
  /\ Step(p, Idle) /\ Release(p)
  /\ UNCHANGED <<log, files, edits, touched, imports, credit, reported, collided, bundles>>

(***************************************************************************)
(* import_task_export and write_import_bundle                               *)
(***************************************************************************)

PolicyValid(policy) ==
  /\ policy.authorized < policy.expires
  /\ policy.scope = "local" => policy.sensitivity # "public" /\ policy.owner

Selected(task, policy) == policy.granted /\ task.id = policy.selected

Curated(task) == task.decisions # {} /\ task.research # {}

Verdict(task, policy) ==
  IF ~PolicyValid(policy) THEN "invalid-import-policy"
  ELSE IF ~Selected(task, policy) THEN "not-authorized"
  ELSE IF ~task.safe THEN "excluded-content-detected"
  ELSE IF ~Curated(task) THEN "curation-incomplete"
  ELSE "admitted"

\* A receipt lists the derived records and counts them by kind.
Receipt(task, policy) ==
  [task |-> task.id, admitted |-> Specs(task),
   counts |-> [kind \in {"decision", "research", "workstream", "question"} |->
                 Cardinality({r \in Specs(task) : r[1] = kind})]]

Admitted(request) == Verdict(request.task, request.policy) = "admitted"

Absent == output.is = "absent"

Work(p, state) == writer' = [writer EXCEPT ![p] = state]

\* An output that exists is refused before the pending directory is made.
BeginBundle(p, request) ==
  /\ writer[p] = Idle
  /\ Admitted(request) /\ Absent
  /\ Work(p, [step |-> "pending", request |-> request])
  /\ UNCHANGED <<ledger, touched, output, claims>>

FillBundle(p) ==
  /\ writer[p].step = "pending"
  /\ Work(p, [step |-> "filled", request |-> writer[p].request,
              records |-> Specs(writer[p].request.task),
              receipt |-> Receipt(writer[p].request.task, writer[p].request.policy)])
  /\ UNCHANGED <<ledger, touched, output, claims>>

RefuseExisting(p) ==
  /\ writer[p].step = "filled" /\ ~Absent
  /\ Work(p, Idle)
  /\ UNCHANGED <<ledger, touched, output, claims>>

LookAgain(p) ==
  /\ writer[p].step = "filled" /\ Absent
  /\ Work(p, [writer[p] EXCEPT !.step = "looked"])
  /\ UNCHANGED <<ledger, touched, output, claims>>

\* A directory replaces an empty one and nothing else.
RenameBundle(p) ==
  /\ writer[p].step = "looked"
  /\ LET bundle == [is |-> "bundle", records |-> writer[p].records, receipt |-> writer[p].receipt]
     IN IF output.is \in {"absent", "empty"}
        THEN output' = bundle /\ claims' = claims \cup {bundle}
        ELSE UNCHANGED <<output, claims>>
  /\ Work(p, Idle)
  /\ UNCHANGED <<ledger, touched>>

\* Its pending directory stays, under a name nobody else uses.
WriterDies(p) ==
  /\ writer[p] # Idle
  /\ Work(p, Idle)
  /\ UNCHANGED <<ledger, touched, output, claims>>

\* sanitize_private_import_receipt: counts leave, the rest stays.
Sanitized(receipt) ==
  [kind \in DOMAIN receipt.counts |-> Cardinality({r \in receipt.admitted : r[1] = kind})]

Next ==
  \/ \E text \in Logs : EditLog(text)
  \/ \E r \in Record, bytes \in {"absent", "record", "other"} : TouchFile(r, bytes)
  \/ \E what \in {"foreign", "empty"} : TouchOutput(what)
  \/ \E p \in Importer :
       \/ \E dry \in BOOLEAN : ReadLedger(p, dry)
       \/ TakeLock(p)
       \/ Preflight(p)
       \/ WriteRecord(p)
       \/ ImporterDies(p)
  \/ \E p \in Writer :
       \/ \E request \in Policies : BeginBundle(p, request)
       \/ FillBundle(p)
       \/ RefuseExisting(p)
       \/ LookAgain(p)
       \/ RenameBundle(p)
       \/ WriterDies(p)

Spec == Init /\ [][Next]_vars

(***************************************************************************)
(* Types                                                                    *)
(***************************************************************************)

Previous(r) == <<r[1], r[2] - 1>>

\* The records of a ledger: all different, and never one before its predecessor.
Listing ==
  {R \in Seq(Record) :
     /\ R # <<>>
     /\ \A i, j \in 1 .. Len(R) : R[i] = R[j] => i = j
     /\ \A i \in 1 .. Len(R) : R[i][2] > 0 => \E j \in 1 .. i - 1 : R[j] = Previous(R[i])}

Expected == Seq({"created", "duplicate"})

ReadingType == [step : {"read"}, records : Listing]

LookingType == [step : {"preflight"}, records : Listing, expected : Expected]

WritingType == [step : {"write"}, records : Listing, expected : Expected, written : Seq(Record)]

\* How far an import has come.
ImporterOK(q) ==
  \/ q = Idle
  \/ q \in ReadingType
  \/ q \in LookingType /\ Len(q.expected) < Len(q.records)
  \/ q \in WritingType /\ Len(q.expected) = Len(q.records) /\ Len(q.written) < Len(q.records)

Holding(q) == q.step \in {"preflight", "write"}

Bundle(q) == [is |-> "bundle", records |-> Specs(q.task), receipt |-> Receipt(q.task, q.policy)]

Granted == {q \in Policies : Admitted(q)}

Bundles == {Bundle(q) : q \in Granted}

\* How far a bundle has come.
WriterOK(w) ==
  \/ w = Idle
  \/ \E q \in Granted : w = [step |-> "pending", request |-> q]
  \/ \E q \in Granted, s \in {"filled", "looked"} :
       w = [step |-> s, request |-> q, records |-> Specs(q.task), receipt |-> Receipt(q.task, q.policy)]

\* What each variable holds, and what an import and the writer of a bundle hold
\* at each of their steps.
TypeOK ==
  /\ log \in Logs
  /\ files \in [Record -> {"absent", "record", "other"}]
  /\ lock \in Importer \cup {Nobody}
  /\ \A p \in Importer : ImporterOK(importer[p]) /\ (Holding(importer[p]) => lock = p)
  /\ edits \in 0..MaxEdits /\ imports \in 0..MaxImports
  /\ credit \in [Record -> 0..MaxImports]
  /\ reported \subseteq Record /\ collided \subseteq Record
  /\ \A p \in Writer : WriterOK(writer[p])
  /\ output \in [is : {"absent", "foreign", "empty"}] \cup Bundles
  /\ claims \subseteq Bundles

(***************************************************************************)
(* Imports converge, however often they are repeated, raced, interrupted or *)
(* run over an edited ledger: apart from files the owner touched, a record  *)
(* is reported as created once, is there when an import accounted for it,   *)
(* never makes another import refuse, and never stands without the earlier  *)
(* occurrences of its entry; and one bundle at most is claimed, which is    *)
(* the whole of one granted selection, and its counts are its records'.     *)
(***************************************************************************)
ImportsConverge ==
  /\ \A r \in Record \ touched :
       /\ credit[r] <= 1
       /\ r \in reported => files[r] = "record"
       /\ r \notin collided
       /\ files[r] = "record" /\ r[2] > 0 =>
            files[<<r[1], r[2] - 1>>] = "record" \/ <<r[1], r[2] - 1>> \in touched
  /\ Output \notin touched =>
       /\ Cardinality(claims) <= 1
       /\ \A b \in claims :
            /\ output = b
            /\ b.records = b.receipt.admitted /\ Sanitized(b.receipt) = b.receipt.counts
            /\ \E q \in Policies : Admitted(q) /\ b.records = Specs(q.task) /\ b.receipt.task = q.policy.selected
=============================================================================
