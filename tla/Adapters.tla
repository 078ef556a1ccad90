------------------------------- MODULE Adapters -------------------------------
(***************************************************************************)
(* Evidence from two providers.  The TraceMap adapter                       *)
(* (src/artifact_memory/tracemap_adapter.py) copies a packet of five files  *)
(* one by one, while the scanner may be writing the next scan over them,    *)
(* and admits what it copied.  The WITS adapter                             *)
(* (src/artifact_memory/wits_adapter.py) binds an answer that arrives long  *)
(* after its request, to records that have gone on changing.                *)
(*                                                                          *)
(* A scan stands for what its three checked files say: the manifest names   *)
(* it, the facts carry its name, the index repeats both.  The report and    *)
(* the log are copied and never compared.  A request stands for its digest. *)
(***************************************************************************)
EXTENDS Naturals, FiniteSets

CONSTANTS
  Packets,     \* scans: [scan, repo, commit, gaps, facts, sound]
  Requests,    \* what a binding of a packet may ask for
  Adapter,     \* processes binding packets
  Missing, Nothing,
  RecordId,    \* records that may be projected
  Kind,        \* projection kinds asked for, supported or not
  Supported,   \* the kinds the adapter supports
  Options,     \* what callers say when they bind
  MaxWrites, MaxEdits, MaxBound   \* bounds

VARIABLES
  file,       \* file[n]: the scan whose file n is there, or Missing
  linked,     \* files reached through a link
  sidecar,    \* a scan being written into the index, or Nothing
  adapter,    \* adapter[p]
  admitted,   \* the last packet admitted: [request, snapshot, selected, outcome]
  writes,
  record,     \* record[r]: [revision, superseded]
  asked,      \* requests sent to the provider
  answers,    \* its answers: [request, admission, version]
  bound       \* the last projection admitted: [version, answer, refs, kind, ...]

vars == <<file, linked, sidecar, adapter, admitted, writes, record, asked, answers, bound>>

packet == <<file, linked, sidecar, adapter, admitted, writes>>
wits == <<record, asked, answers, bound>>

Artifacts == {"scan-manifest.json", "facts.ndjson", "index.sqlite", "report.md", "logs/analyzer.log"}

Idle == [step |-> "idle"]

\* No scan is Nothing or Missing.
AdapterConstants ==
  /\ {Nothing, Missing} \cap Packets = {}
  /\ MaxEdits \in Nat

CopyType ==
  {Idle} \cup
  [step : {"copying"}, request : Requests, snapshot : [Artifacts -> Packets \cup {Nothing}]]

TypeOK ==
  /\ file \in [Artifacts -> Packets \cup {Missing}]
  /\ linked \subseteq Artifacts
  /\ sidecar \in Packets \cup {Nothing}
  /\ adapter \in [Adapter -> CopyType]
  /\ admitted # Nothing => admitted.outcome \in {"complete", "partial-evidence-admitted"}
  /\ record \in [RecordId -> [revision : 0..MaxEdits, superseded : BOOLEAN]]
  /\ bound # Nothing => bound.version \in {1, 2}

Init ==
  /\ \E s \in Packets : file = [n \in Artifacts |-> s]
  /\ linked = {} /\ sidecar = Nothing
  /\ adapter = [p \in Adapter |-> Idle]
  /\ admitted = Nothing /\ writes = 0
  /\ record = [r \in RecordId |-> [revision |-> 0, superseded |-> FALSE]]
  /\ asked = {} /\ answers = {} /\ bound = Nothing

(***************************************************************************)
(* The scanner                                                              *)
(***************************************************************************)

Writing == writes < MaxWrites /\ writes' = writes + 1

WriteFile(n, s) ==
  /\ Writing
  /\ n # "index.sqlite" /\ file[n] # s
  /\ file' = [file EXCEPT ![n] = s]
  /\ UNCHANGED <<linked, sidecar, adapter, admitted, wits>>

\* The index is written through its sidecar, and changes when that is closed.
OpenIndex(s) ==
  /\ Writing
  /\ sidecar = Nothing /\ file["index.sqlite"] # s
  /\ sidecar' = s
  /\ UNCHANGED <<file, linked, adapter, admitted, wits>>

CloseIndex ==
  /\ sidecar # Nothing
  /\ file' = [file EXCEPT !["index.sqlite"] = sidecar]
  /\ sidecar' = Nothing
  /\ UNCHANGED <<linked, adapter, admitted, writes, wits>>

LoseFile(n) ==
  /\ Writing
  /\ file' = [file EXCEPT ![n] = Missing]
  /\ UNCHANGED <<linked, sidecar, adapter, admitted, wits>>

LinkFile(n) ==
  /\ Writing
  /\ linked' = linked \cup {n}
  /\ UNCHANGED <<file, sidecar, adapter, admitted, wits>>

(***************************************************************************)
(* bind_trace_map_evidence                                                  *)
(***************************************************************************)

ArgumentRefused(q) ==
  IF ~q.source THEN "source-version-unavailable"
  ELSE IF ~q.configuration THEN "configuration-identity-unavailable"
  ELSE IF ~q.rules THEN "rule-catalog-unavailable"
  ELSE "none"

PacketRefused ==
  IF sidecar # Nothing THEN "trace-output-invalid"
  ELSE IF linked # {} THEN "unsafe-provenance-rejected"
  ELSE IF \E n \in Artifacts : file[n] = Missing THEN "required-artifact-missing"
  ELSE "none"

Work(p, state) == adapter' = [adapter EXCEPT ![p] = state]

\* The sidecars, the links and the presence of all five, before any is copied;
\* a link put there afterwards is followed.
BeginPacket(p, q) ==
  /\ adapter[p] = Idle
  /\ ArgumentRefused(q) = "none" /\ PacketRefused = "none"
  /\ Work(p, [step |-> "copying", request |-> q, snapshot |-> [n \in Artifacts |-> Nothing]])
  /\ UNCHANGED <<file, linked, sidecar, admitted, writes, wits>>

ToCopy(p) == {n \in Artifacts : adapter[p].snapshot[n] = Nothing}

CopyOrder == <<"scan-manifest.json", "facts.ndjson", "index.sqlite", "report.md", "logs/analyzer.log">>

CopyNext(p) ==
  /\ adapter[p].step = "copying" /\ ToCopy(p) # {}
  /\ LET n == CopyOrder[6 - Cardinality(ToCopy(p))]
     IN Work(p, IF file[n] = Missing THEN Idle ELSE [adapter[p] EXCEPT !.snapshot[n] = file[n]])
  /\ UNCHANGED <<file, linked, sidecar, admitted, writes, wits>>

ManifestOf(s) == <<s.scan, s.repo, s.commit, s.gaps>>

ProviderRefused(q, m, f) ==
  IF m.repo # q.repo THEN "repository-binding-mismatch"
  ELSE IF m.commit # q.commit THEN "commit-binding-mismatch"
  ELSE IF f.facts # {} /\ (<<f.scan, f.repo, f.commit>> # <<m.scan, m.repo, m.commit>>) THEN "trace-output-invalid"
  ELSE IF ~f.sound THEN "unsafe-provenance-rejected"
  ELSE "none"

IndexParity(m, f, i) == ManifestOf(i) = ManifestOf(m) /\ i.facts = f.facts

FirstFact(facts) == {x \in facts : \A y \in facts : x <= y}

Selected(q, f) == IF q.selected = {} THEN FirstFact(f.facts) ELSE q.selected

Outcome(q, m, f, i) ==
  IF ProviderRefused(q, m, f) # "none" THEN ProviderRefused(q, m, f)
  ELSE IF ~IndexParity(m, f, i) THEN "digest-mismatch"
  ELSE IF Selected(q, f) = {} \/ ~(Selected(q, f) \subseteq f.facts) THEN "provider-record-not-found"
  ELSE IF m.gaps THEN "partial-evidence-admitted"
  ELSE "complete"

\* The outcomes that come with a binding; the receipt repeats them.
AdmittedOutcomes == {"complete", "partial-evidence-admitted"}

BindPacket(p) ==
  /\ adapter[p].step = "copying" /\ ToCopy(p) = {}
  /\ LET q == adapter[p].request
         snapshot == adapter[p].snapshot
         m == snapshot["scan-manifest.json"]
         f == snapshot["facts.ndjson"]
         outcome == Outcome(q, m, f, snapshot["index.sqlite"])
     IN admitted' = IF outcome \in AdmittedOutcomes
                    THEN [request |-> q, snapshot |-> snapshot,
                          selected |-> Selected(q, f), outcome |-> outcome]
                    ELSE admitted
  /\ Work(p, Idle)
  /\ UNCHANGED <<file, linked, sidecar, writes, wits>>

(***************************************************************************)
(* build_projection_request, the provider, bind_projection                  *)
(***************************************************************************)

SourceRefs(ids) == [r \in ids |-> record[r].revision]

Request(refs, expected, kind, evidence) ==
  [refs |-> refs, expected |-> expected, kind |-> kind, evidence |-> evidence]

EditRecord(r, superseded) ==
  /\ record[r].revision < MaxEdits /\ ~record[r].superseded
  /\ record' = [record EXCEPT ![r] = [revision |-> @.revision + 1, superseded |-> superseded]]
  /\ UNCHANGED <<packet, asked, answers, bound>>

Ask(ids, kind, evidence) ==
  /\ asked' = asked \cup {Request(SourceRefs(ids), SourceRefs(ids), kind, evidence)}
  /\ Cardinality(asked) < MaxBound /\ asked' # asked
  /\ UNCHANGED <<packet, record, answers, bound>>

\* The provider, out of band, late or never; an answer to version 1 names no
\* request.
ProviderAnswers(request, admission) ==
  /\ Cardinality(answers) < MaxBound
  /\ answers' = answers \cup {[request |-> request, admission |-> admission]}
  /\ UNCHANGED <<packet, record, asked, bound>>

Stale(refs, expected) == \E r \in DOMAIN refs : expected[r] # refs[r]

AnswersRequest(answer, request) == answer.request = request

RefusedV2(ids, request, answer, o) ==
  IF ~o.authorized THEN "not-authorized"
  ELSE IF o.authority THEN "authority-boundary"
  ELSE IF Stale(request.refs, request.expected) THEN "stale-source-revision"
  ELSE IF \E r \in ids : record[r].superseded THEN "superseded-record"
  ELSE IF o.conflict THEN "conflicting-records"
  ELSE IF ~o.sensitivity THEN "sensitivity-mapping-unavailable"
  ELSE IF ~o.disclosure THEN "disclosure-denied"
  ELSE IF o.unavailable \cap request.evidence # {} THEN "evidence-reference-unavailable"
  ELSE IF request.kind \notin Supported THEN "projection-unsupported"
  ELSE IF ~AnswersRequest(answer, request) THEN "provider-response-invalid"
  ELSE IF answer.admission # "admitted" THEN "wits-projection-rejected"
  ELSE IF o.required THEN "required-extension-unsupported"
  ELSE "none"

RefusedV1(refs, expected, kind, answer, o) ==
  IF ~o.authorized THEN "not-authorized"
  ELSE IF o.authority THEN "authority-boundary"
  ELSE IF \E r \in DOMAIN expected : Stale([x \in {r} |-> refs[x]], expected) THEN "stale-source-revision"
  ELSE IF kind \notin Supported THEN "projection-unsupported"
  ELSE IF answer.admission # "admitted" THEN "wits-projection-rejected"
  ELSE "none"

Bind(version, answer, refs, kind, expected) ==
  /\ bound' = [version |-> version, answer |-> answer, refs |-> refs, kind |-> kind,
               expected |-> expected, superseded |-> \E r \in DOMAIN refs : record[r].superseded]
  /\ UNCHANGED <<packet, record, asked, answers>>

\* The request is built again, from the records as they are now; the caller
\* names the revisions it asked about, or none.
BindProjectionV2(answer, kind, evidence, o) ==
  LET ids == DOMAIN answer.request.refs
      refs == SourceRefs(ids)
      expected == IF o.expects THEN answer.request.refs ELSE refs
  IN /\ RefusedV2(ids, Request(refs, expected, kind, evidence), answer, o) = "none"
     /\ Bind(2, answer, refs, kind, expected)

BindProjectionV1(answer, kind, o) ==
  LET refs == SourceRefs(DOMAIN answer.request.refs)
      expected == [r \in IF o.expects THEN DOMAIN refs ELSE {} |-> answer.request.refs[r]]
  IN /\ RefusedV1(refs, expected, kind, answer, o) = "none"
     /\ Bind(1, answer, refs, kind, expected)

Next ==
  \/ \E n \in Artifacts, s \in Packets : WriteFile(n, s)
  \/ \E s \in Packets : OpenIndex(s)
  \/ CloseIndex
  \/ \E n \in Artifacts : LoseFile(n) \/ LinkFile(n)
  \/ \E p \in Adapter :
       \/ \E q \in Requests : BeginPacket(p, q)
       \/ CopyNext(p)
       \/ BindPacket(p)
  \/ \E r \in RecordId, superseded \in BOOLEAN : EditRecord(r, superseded)
  \/ \E ids \in (SUBSET RecordId) \ {{}}, kind \in Kind, evidence \in {{}, {1}} : Ask(ids, kind, evidence)
  \/ \E request \in asked, admission \in {"admitted", "rejected"} : ProviderAnswers(request, admission)
  \/ \E answer \in answers, kind \in Kind, o \in Options :
       \/ \E evidence \in {{}, {1}} : BindProjectionV2(answer, kind, evidence, o)
       \/ BindProjectionV1(answer, kind, o)

Spec == Init /\ [][Next]_vars

(***************************************************************************)
(* What is admitted is one thing.  A packet's manifest, facts and index are *)
(* of one scan, of the repository and commit asked about, whatever was      *)
(* written while it was copied.  A version 2 projection is the provider's   *)
(* answer to a request for exactly the records it is bound to, at the       *)
(* revisions they have, none of them superseded; version 1 promises as much *)
(* about revisions only to a caller that names them.                        *)
(***************************************************************************)
AdmittedIsOne ==
  /\ LET a == admitted
     IN a # Nothing =>
          \E s \in Packets :
            /\ ManifestOf(a.snapshot["scan-manifest.json"]) = ManifestOf(s)
            /\ a.snapshot["facts.ndjson"].facts = s.facts
            /\ a.snapshot["index.sqlite"] = s
            /\ s.repo = a.request.repo /\ s.commit = a.request.commit
            /\ a.selected \subseteq s.facts /\ a.selected # {}
            /\ (a.outcome = "complete") <=> ~s.gaps
  /\ LET b == bound
     IN b # Nothing =>
       /\ b.answer.admission = "admitted"
       /\ b.version = 2 => b.answer.request.refs = b.refs /\ b.answer.request.kind = b.kind /\ ~b.superseded
       /\ DOMAIN b.expected = DOMAIN b.refs /\ b.version = 1 /\ b.expected = b.answer.request.refs =>
            b.refs = b.answer.request.refs
=============================================================================
