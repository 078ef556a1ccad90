----------------------------- MODULE Projection -----------------------------
(***************************************************************************)
(* Search projections of a vault's records (projection.py).  A publisher   *)
(* validates the records, drops the suppressed ones, builds three files in *)
(* a staging directory and replaces the published ones one after another;  *)
(* readers open the index alone and answer from one read transaction after *)
(* a gate that recomputes what the index claims about itself.              *)
(*                                                                         *)
(* The digest of a record set is the set itself.  The index may be altered *)
(* in place by others: "rows" stands for every change a comparison with    *)
(* the canonical rows shows (version, objects, counts, columns, digest,    *)
(* provenance, relationships, search rows), "terms" for a forged full-text *)
(* index, which only the integrity check of a capable runtime shows.       *)
(***************************************************************************)
EXTENDS Naturals, FiniteSets

CONSTANTS
  Publisher,   \* processes running project_records
  Reader,      \* processes searching
  Vaults,      \* record sets the vault may hold; a record is [id, superseded]
  Suppressed,  \* sets of record ids the receipts of a caller suppress
  NoFile

VARIABLES
  ndjson,     \* records.ndjson: a record set, or NoFile
  index,      \* records.sqlite: [rows, digest, forged], or NoFile
  receipt,    \* projection-receipt.json: a record set, or NoFile
  capable,    \* the runtime's integrity check reaches the full-text index
  publisher,  \* publisher[p]: where a publication stands and what it staged
  reader,     \* reader[r]: the file a search has open, or the receipt it gave
  settled     \* history: the record set of the last undisturbed publication

vars == <<ndjson, index, receipt, capable, publisher, reader, settled>>

files == <<ndjson, index, receipt>>

NotPublishing == [pc |-> "idle", rows |-> {}, alone |-> TRUE]

NotReading == [pc |-> "idle", file |-> NoFile, expected |-> NoFile, receipt |-> NoFile]

Files == [rows : SUBSET UNION Vaults, digest : SUBSET UNION Vaults, forged : {"no", "rows", "terms"}]

-----------------------------------------------------------------------------
(* project_records.                                                          *)

\* canonical_records: every record is valid and no id occurs twice.
Canonical(records) == \A a, b \in records : a.id = b.id => a = b

Visible(records, suppressed) == {r \in records : r.id \notin suppressed}

\* canonical_records, validated_suppressions and the staging directory: nothing
\* published is touched, and a failure or a death here leaves no trace.
Stage(p) ==
  /\ publisher[p].pc = "idle"
  /\ \E vault \in Vaults, s \in Suppressed :
       /\ Canonical(vault)
       /\ s \subseteq {r.id : r \in vault}
       /\ publisher' = [publisher EXCEPT ![p] =
            [pc |-> "ndjson", rows |-> Visible(vault, s), alone |-> TRUE]]
  /\ UNCHANGED <<files, capable, reader, settled>>

\* A publication is disturbed when another one replaces a file while it is
\* between its own replacements.
Replaced(p, next) ==
  publisher' = [q \in Publisher |->
     IF q = p
     THEN [publisher[q] EXCEPT !.pc = next,
             !.alone = IF publisher[p].pc = "ndjson"
                       THEN \A o \in Publisher \ {p} : publisher[o].pc \in {"idle", "ndjson"}
                       ELSE @]
     ELSE [publisher[q] EXCEPT !.alone = FALSE]]

ReplaceRecords(p) ==
  /\ publisher[p].pc = "ndjson"
  /\ ndjson' = publisher[p].rows
  /\ Replaced(p, "index")
  /\ settled' = NoFile
  /\ UNCHANGED <<index, receipt, capable, reader>>

IndexOf(rows) == [rows |-> rows, digest |-> rows, forged |-> "no"]

ReplaceIndex(p) ==
  /\ publisher[p].pc = "index"
  /\ index' = IndexOf(publisher[p].rows)
  /\ Replaced(p, "receipt")
  /\ settled' = NoFile
  /\ UNCHANGED <<ndjson, receipt, capable, reader>>

ReplaceReceipt(p) ==
  /\ publisher[p].pc = "receipt"
  /\ receipt' = publisher[p].rows
  /\ publisher' = [q \in Publisher |->
       IF q = p THEN NotPublishing ELSE [publisher[q] EXCEPT !.alone = FALSE]]
  /\ settled' = IF publisher[p].alone THEN publisher[p].rows ELSE NoFile
  /\ UNCHANGED <<ndjson, index, capable, reader>>

\* A publisher dies; what it replaced stays.
PublisherDies(p) ==
  /\ publisher[p].pc # "idle"
  /\ publisher' = [publisher EXCEPT ![p] = NotPublishing]
  /\ UNCHANGED <<files, capable, reader, settled>>

-----------------------------------------------------------------------------
(* _read_index, search_records, search_receipt.                              *)

ReadableByAny == index # NoFile

\* The capability probe precedes the open; the open file stays the same one
\* when its path is replaced.  (A sidecar beside the path makes the open fail
\* like a missing file.)
Readable == capable /\ index # NoFile

Open(r) ==
  /\ reader[r].pc = "idle"
  /\ Readable
  /\ reader' = [reader EXCEPT ![r] =
       [pc |-> "open", file |-> index, expected |-> settled, receipt |-> NoFile]]
  /\ UNCHANGED <<files, capable, publisher, settled>>

\* _validate_projection_contract and PRAGMA integrity_check, in one transaction.
GatePasses(file) ==
  /\ file.forged # "rows" /\ file.digest = file.rows
  /\ capable => file.forged # "terms"

Matching(file, query, excludeSuperseded) ==
  {row.id : row \in {x \in file.rows : x.id \in query /\ ~(excludeSuperseded /\ x.superseded)}}

Search(r) ==
  /\ reader[r].pc = "open"
  /\ GatePasses(reader[r].file)
  /\ \E query \in SUBSET {x.id : x \in UNION Vaults} \ {{}}, excluding \in BOOLEAN :
       reader' = [reader EXCEPT ![r].pc = "answered", ![r].receipt =
         [ids |-> Matching(reader[r].file, query, excluding), query |-> query,
          excluding |-> excluding, digest |-> reader[r].file.digest]]
  /\ UNCHANGED <<files, capable, publisher, settled>>

\* projection_metadata, logical_projection_snapshot and the lookups of one
\* relationship or source read every row they show under the same gate.
Snapshot(r) ==
  /\ reader[r].pc = "open"
  /\ GatePasses(reader[r].file)
  /\ LET all == {x.id : x \in reader[r].file.rows}
     IN reader' = [reader EXCEPT ![r].pc = "answered", ![r].receipt =
          [ids |-> all, query |-> all, excluding |-> FALSE, digest |-> reader[r].file.digest]]
  /\ UNCHANGED <<files, capable, publisher, settled>>

RefuseSearch(r) ==
  /\ reader[r].pc = "open"
  /\ ~GatePasses(reader[r].file)
  /\ reader' = [reader EXCEPT ![r] = NotReading]
  /\ UNCHANGED <<files, capable, publisher, settled>>

Close(r) ==
  /\ reader[r].pc = "answered"
  /\ reader' = [reader EXCEPT ![r] = NotReading]
  /\ UNCHANGED <<files, capable, publisher, settled>>

\* Another program writes to the index in place, also while a search has it
\* open and its transaction may or may not have begun.
Forge ==
  /\ index # NoFile
  /\ \E how \in {"rows", "terms"} :
       /\ index' = [index EXCEPT !.forged = how]
       /\ \E seen \in SUBSET {r \in Reader : reader[r].pc = "open" /\ reader[r].file = index} :
            reader' = [r \in Reader |->
               IF r \in seen THEN [reader[r] EXCEPT !.file = index'] ELSE reader[r]]
  /\ settled' = NoFile
  /\ UNCHANGED <<ndjson, receipt, capable, publisher>>

Init ==
  /\ ndjson = NoFile
  /\ index = NoFile
  /\ receipt = NoFile
  /\ capable \in BOOLEAN
  /\ publisher = [p \in Publisher |-> NotPublishing]
  /\ reader = [r \in Reader |-> NotReading]
  /\ settled = NoFile

Next ==
  \/ \E p \in Publisher :
       Stage(p) \/ ReplaceRecords(p) \/ ReplaceIndex(p) \/ ReplaceReceipt(p) \/ PublisherDies(p)
  \/ \E r \in Reader : Open(r) \/ Search(r) \/ Snapshot(r) \/ RefuseSearch(r) \/ Close(r)
  \/ Forge

Spec == Init /\ [][Next]_vars

-----------------------------------------------------------------------------
RecordSets == SUBSET UNION Vaults

\* What a publication has staged, and whether nothing disturbed it so far.
PublicationType ==
  [pc : {"idle"}, rows : {{}}, alone : BOOLEAN]
    \cup [pc : {"ndjson", "index", "receipt"}, rows : RecordSets, alone : BOOLEAN]

RecordIds == {x.id : x \in UNION Vaults}

SearchReceipts ==
  [ids : SUBSET RecordIds, query : SUBSET RecordIds, excluding : BOOLEAN, digest : RecordSets]

\* A search has the file it opened and, once answered, its receipt.
SearchType ==
  {NotReading}
    \cup [pc : {"open"}, file : Files, expected : RecordSets \cup {NoFile}, receipt : {NoFile}]
    \cup [pc : {"answered"}, file : Files, expected : RecordSets \cup {NoFile},
          receipt : SearchReceipts]

\* Every variable keeps its type.
TypeOK ==
  /\ ndjson \in RecordSets \cup {NoFile} /\ receipt \in RecordSets \cup {NoFile}
  /\ index \in Files \cup {NoFile}
  /\ capable \in BOOLEAN
  /\ publisher \in [Publisher -> PublicationType]
  /\ reader \in [Reader -> SearchType]
  /\ settled \in RecordSets \cup {NoFile}

\* A search receipt names one published record set and finds in it what the
\* query asks for, never anything of another set or of a forged index
\* (projection.py, search_receipt under _read_index), although publications
\* overlap, die half-way and are replaced while a search runs; and a search
\* opened after a publication that nothing disturbed answers from that one,
\* whose three files agree.
SearchPinned ==
  /\ \A r \in Reader : reader[r].pc = "answered" =>
       LET f == reader[r].receipt
       IN /\ reader[r].file.forged = "no"
          /\ f.ids = {x.id : x \in {y \in f.digest : y.id \in f.query /\ ~(f.excluding /\ y.superseded)}}
          /\ reader[r].expected # NoFile => f.digest = reader[r].expected
  /\ settled # NoFile => ndjson = settled /\ index.digest = settled /\ receipt = settled
=============================================================================
