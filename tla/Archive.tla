------------------------------- MODULE Archive -------------------------------
(***************************************************************************)
(* Inspection of a ZIP container that others may rewrite, replace or remove *)
(* meanwhile (inspect_zip, src/artifact_memory/archive.py).                 *)
(*                                                                          *)
(* A container's bytes stand for its list of entries, each with a path (a   *)
(* sequence of names), a kind and what its reader would meet.  An inode is  *)
(* what samestat compares.                                                  *)
(***************************************************************************)
EXTENDS Naturals, FiniteSets, Sequences, SequencesExt

CONSTANTS
  Inode,       \* files that may be the container
  Containers,  \* what a container may hold: sequences of entries
  Broken,      \* bytes that are no container
  Fold,        \* Fold[name]: names that differ only by case fold alike
  Nothing,     \* no file, no receipt
  MaxEntries, MaxBytes,   \* the caller's limits
  MaxChanges   \* bound on changes by others

VARIABLES
  at,        \* the inode at the path, or Nothing
  bytes,     \* bytes[i]: what inode i holds
  inspection,
  receipt,   \* the last receipt, or Nothing
  changes,
  past,      \* past[i]: what i held earlier
  returned   \* inodes that came to hold again what they held earlier

vars == <<at, bytes, inspection, receipt, changes, past, returned>>

world == <<at, bytes, changes, past, returned>>

Idle == [step |-> "idle"]

EntryKinds == {"file", "directory", "link", "unsupported"}

\* A container is a list of entries; Broken is none, and Nothing is no file.
ArchiveConstants ==
  /\ MaxChanges \in Nat /\ MaxEntries \in Nat /\ MaxBytes \in Nat
  /\ \A c \in Containers :
       /\ c \in Seq({c[i] : i \in DOMAIN c})
       /\ \A i \in DOMAIN c : c[i].kind \in EntryKinds /\ c[i].size \in Nat
  /\ Broken \notin Containers
  /\ Nothing \notin Inode

(***************************************************************************)
(* _inspect_open_zip                                                        *)
(***************************************************************************)

FoldPath(path) == [i \in DOMAIN path |-> Fold[path[i]]]

Below(p, q) == Len(p) < Len(q) /\ IsPrefix(p, q)

Begun == [paths |-> {}, folded |-> {}, files |-> {}, directories |-> {}, read |-> 0,
          entries |-> {}, diagnostics |-> {}, stopped |-> FALSE, index |-> 0]

Diagnose(state, code) == [state EXCEPT !.diagnostics = @ \cup {code}]

Stop(state, code) == [Diagnose(state, code) EXCEPT !.stopped = TRUE]

Conflicts(state, e) ==
  \/ \E f \in state.files : Below(f, e.path)
  \/ e.kind = "file" /\ \E p \in state.files \cup state.directories : Below(e.path, p)

\* What is said of an entry before its bytes are read.
EntryRefused(state, e) ==
  IF ~e.safe THEN "path-traversal"
  ELSE IF e.path \in state.paths THEN "duplicate-entry"
  ELSE IF FoldPath(e.path) \in state.folded THEN "case-collision"
  ELSE IF Conflicts(state, e) THEN "path-conflict"
  ELSE "none"

FeatureRefused(e) ==
  IF e.kind = "link" THEN "link-entry"
  ELSE IF e.kind = "unsupported" THEN "unsupported-entry-kind"
  ELSE IF e.encrypted THEN "encrypted-entry"
  ELSE "none"

Named(state, e) ==
  [state EXCEPT !.paths = @ \cup {e.path}, !.folded = @ \cup {FoldPath(e.path)},
                !.directories = IF e.kind = "directory" THEN @ \cup {e.path} ELSE @]

Filed(state, e) ==
  LET s == [state EXCEPT !.files = @ \cup {e.path}]
  IN IF e.reads = "unsupported-compression" THEN Diagnose(s, "unsupported-compression")
     ELSE IF s.read + e.size > MaxBytes THEN Stop(s, "decompression-limit")
     ELSE IF e.reads # "whole" THEN Stop(s, "corrupt-entry")
     ELSE [s EXCEPT !.read = @ + e.size, !.entries = @ \cup {<<e.path, e.size>>}]

InspectEntry(e, seen) ==
  LET state == [seen EXCEPT !.index = @ + 1]
  IN IF seen.stopped THEN seen
     ELSE IF seen.index >= MaxEntries THEN Stop(seen, "entry-count-limit")
     ELSE IF EntryRefused(state, e) # "none" THEN Diagnose(state, EntryRefused(state, e))
     ELSE IF FeatureRefused(e) # "none" THEN Diagnose(Named(state, e), FeatureRefused(e))
     ELSE IF e.kind = "directory" THEN Named(state, e)
     ELSE Filed(Named(state, e), e)

Features == {"encrypted-entry", "link-entry", "unsupported-compression", "unsupported-entry-kind"}

Looked(entries) ==
  LET seen[n \in 0 .. Len(entries)] ==
        IF n = 0 THEN Begun ELSE InspectEntry(entries[n], seen[n - 1])
  IN seen[Len(entries)]

Inspected(entries) ==
  LET s == Looked(entries)
  IN [entries |-> s.entries,
      outcome |-> IF s.diagnostics = {} THEN "supported"
                  ELSE IF s.entries = {} /\ s.diagnostics \subseteq Features THEN "unsupported"
                  ELSE "partial"]

\* Entries are read by the directory read first: other bytes fail their check.
AsListed(listed, held) ==
  [i \in DOMAIN listed |->
     IF i \in DOMAIN held /\ held[i] = listed[i] THEN listed[i]
     ELSE [listed[i] EXCEPT !.reads = "corrupt"]]

(***************************************************************************)
(* Others                                                                   *)
(***************************************************************************)

Outcomes == {"supported", "unsupported", "partial", "failed"}

\* What an inspection has at each of its steps.
InspectionTyped(q) ==
  \/ q = Idle
  \/ /\ q.step \in {"opened", "listed", "read", "stable"}
     /\ q.inode \in Inode /\ q.before \in Containers \cup {Broken}
     /\ q.step # "opened" => q.listed \in Containers \cup {Broken}
     /\ q.step \in {"read", "stable"} => q.found.outcome \in Outcomes

TypeOK ==
  /\ at \in Inode \cup {Nothing}
  /\ bytes \in [Inode -> Containers \cup {Broken}]
  /\ InspectionTyped(inspection)
  /\ changes \in 0..MaxChanges
  /\ receipt # Nothing =>
       receipt.outcome \in Outcomes /\ receipt.container \in Containers \cup {Broken, Nothing}

Init ==
  /\ at \in Inode
  /\ bytes \in [Inode -> Containers \cup {Broken}]
  /\ inspection = Idle /\ receipt = Nothing
  /\ changes = 0
  /\ past = [i \in Inode |-> {}] /\ returned = {}

Changing == changes < MaxChanges /\ changes' = changes + 1

Rewrite(i, content) ==
  /\ Changing
  /\ bytes[i] # content
  /\ bytes' = [bytes EXCEPT ![i] = content]
  /\ past' = [past EXCEPT ![i] = @ \cup {bytes[i]}]
  /\ returned' = IF content \in past[i] THEN returned \cup {i} ELSE returned
  /\ UNCHANGED <<at, inspection, receipt>>

Replace(i) ==
  /\ Changing
  /\ at # i
  /\ at' = i
  /\ UNCHANGED <<bytes, inspection, receipt, past, returned>>

(***************************************************************************)
(* inspect_zip                                                              *)
(***************************************************************************)

Answer(r) == receipt' = r /\ inspection' = Idle

Failed == [outcome |-> "failed", container |-> Nothing, inode |-> Nothing, entries |-> {}]

\* Opened and hashed.
Open ==
  /\ inspection = Idle
  /\ IF at = Nothing
     THEN Answer(Failed)
     ELSE /\ inspection' = [step |-> "opened", inode |-> at, before |-> bytes[at],
                             listed |-> <<>>, found |-> Nothing]
          /\ UNCHANGED receipt
  /\ UNCHANGED world

Held == bytes[inspection.inode]

ListDirectory ==
  /\ inspection.step = "opened"
  /\ inspection' = [inspection EXCEPT !.step = "listed", !.listed = Held]
  /\ UNCHANGED <<world, receipt>>

\* No directory, no inspection: but the hashes are still compared first.
ReadEntries ==
  /\ inspection.step = "listed"
  /\ LET listed == inspection.listed
         found == IF listed = Broken THEN [entries |-> {}, outcome |-> "failed"]
                  ELSE Inspected(AsListed(listed, IF Held = Broken THEN <<>> ELSE Held))
     IN inspection' = [inspection EXCEPT !.step = "read", !.found = found]
  /\ UNCHANGED <<world, receipt>>

HashesAlike == Held = inspection.before

HashAgain ==
  /\ inspection.step = "read"
  /\ IF HashesAlike
     THEN inspection' = [inspection EXCEPT !.step = "stable"] /\ UNCHANGED receipt
     ELSE Answer(Failed)
  /\ UNCHANGED world

\* The path must still lead to the same file with the same bytes.
CheckName ==
  /\ inspection.step = "stable"
  /\ IF at = inspection.inode /\ HashesAlike
     THEN Answer([outcome |-> inspection.found.outcome, container |-> inspection.before,
                  inode |-> at, entries |-> inspection.found.entries])
     ELSE Answer(Failed)
  /\ UNCHANGED world

Next ==
  \/ \E i \in Inode, content \in Containers \cup {Broken} : Rewrite(i, content)
  \/ \E i \in Inode \cup {Nothing} : Replace(i)
  \/ Open
  \/ ListDirectory
  \/ ReadEntries
  \/ HashAgain
  \/ CheckName

Spec == Init /\ [][Next]_vars

(***************************************************************************)
(* What a supported container is, said without an order of inspection: few  *)
(* enough entries of few enough bytes, all safe, readable files or          *)
(* directories, no two of which are one path to a case-insensitive reader,  *)
(* and none a file with something under it.                                 *)
(***************************************************************************)
FileSize(e) == IF e.kind = "file" THEN e.size ELSE 0

Size(entries) ==
  LET size[n \in 0 .. Len(entries)] == IF n = 0 THEN 0 ELSE size[n - 1] + FileSize(entries[n])
  IN size[Len(entries)]

Safe(entries) ==
  /\ Len(entries) <= MaxEntries
  /\ Size(entries) <= MaxBytes
  /\ \A i \in DOMAIN entries :
       LET e == entries[i]
       IN /\ e.safe /\ e.kind \in {"file", "directory"} /\ ~e.encrypted
          /\ e.kind = "file" => e.reads = "whole"
          /\ \A j \in DOMAIN entries \ {i} :
               /\ FoldPath(e.path) # FoldPath(entries[j].path)
               /\ e.kind = "file" => ~Below(e.path, entries[j].path)

TreeOf(entries) ==
  {<<e.path, e.size>> : e \in {entries[i] : i \in {j \in DOMAIN entries : entries[j].kind = "file"}}}

(***************************************************************************)
(* A receipt's tree is its container's.  Unless the file held other bytes   *)
(* for a while and then the same again, a receipt that names a container    *)
(* calls it supported exactly when it is safe, with exactly its files, and  *)
(* never lists a file a safe reading of it would not.                       *)
(***************************************************************************)
ReceiptOfContainer ==
  receipt # Nothing /\ receipt.container \notin {Nothing, Broken} /\ receipt.inode \notin returned =>
    /\ (receipt.outcome = "supported") <=> Safe(receipt.container)
    /\ receipt.outcome = "supported" => receipt.entries = TreeOf(receipt.container)
    /\ receipt.entries \subseteq TreeOf(receipt.container)
=============================================================================
