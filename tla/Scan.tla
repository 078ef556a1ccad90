-------------------------------- MODULE Scan --------------------------------
(***************************************************************************)
(* scan_path, verify_path and diff_manifests (src/artifact_memory/scan.py)  *)
(* over a tree that other programs change while it is read.  A directory    *)
(* is listed entry by entry between two lstat calls, a file is read in two  *)
(* chunks between two fstat calls, and every step may be interleaved with   *)
(* a change.                                                                *)
(*                                                                          *)
(* A path is a sequence of names, <<>> the root; names are numbers in their *)
(* sort order.  A node carries a stamp that stands for (device, inode,      *)
(* size, mtime, ctime): a change of a file, or of a directory's entries,    *)
(* gives it a new one.  Links, devices, hard-linked, sparse, unreadable and *)
(* badly named entries are all "odd": each is a recorded failure and never  *)
(* an entry.  Every file has size one.                                      *)
(***************************************************************************)
EXTENDS Integers, Sequences, FiniteSets, SequencesExt

CONSTANTS
  Paths,       \* the paths that may exist, closed under parents, with <<>>
  Fold,        \* the case-folded form of each name
  Content,     \* what a file may hold
  Initial,     \* the trees a run may start from: path -> kind
  Policies,    \* sets of excluded prefixes
  Limits,      \* [entries, bytes, cancellable]; 0 is no limit
  MaxChanges,  \* bound on changes of the tree
  MaxScans     \* bound on scans

VARIABLES
  tree,      \* path -> node
  changes,   \* changes so far, the newest stamp
  scan,      \* the scan in progress or just ended
  scans,     \* scans begun
  kept,      \* the manifest of the first scan, or NoManifest
  report,    \* the verdict and the diff of the last verification
  steady,    \* history: paths untouched since the scan began
  unmoved,   \* history: paths untouched since the kept manifest's scan began
  existed    \* history: <<path, digest>> of the files seen since the scan began

vars == <<tree, changes, scan, scans, kept, report, steady, unmoved, existed>>

Root == <<>>

Below(p, d) == p # Root /\ Front(p) = d

Folded(p) == [i \in DOMAIN p |-> Fold[p[i]]]

Node(kind, content, stamp) == [kind |-> kind, content |-> content, stamp |-> stamp]

Present(p) == tree[p].kind # "absent"

\* The digest of a file read in two chunks; a file that holds c has <<c, c>>.
Whole(c) == <<c, c>>

Entry(p, kind, digest) == [path |-> p, kind |-> kind, digest |-> digest]

NoDigest == <<>>

\* Nothing exists outside a directory, and no node is newer than the last change.
ScanConstants ==
  /\ Paths \subseteq Seq(Nat) /\ Root \in Paths /\ \A p \in Paths \ {Root} : Front(p) \in Paths
  /\ 1 \in Content
  /\ \A kinds \in Initial :
       /\ kinds \in [Paths -> {"absent", "file", "directory", "odd"}]
       /\ \A p \in Paths \ {Root} : kinds[p] # "absent" => kinds[Front(p)] = "directory"
  /\ \A policy \in Policies : policy \subseteq Seq(Nat)
  /\ MaxChanges \in Nat

NoManifest == [outcome |-> "none", policy |-> {}, entries |-> {}]

NoReport == [verdict |-> "none", diff |-> "none", added |-> {}, removed |-> {}, changed |-> {}]

Limited(limit, used) == limit # 0 /\ used >= limit

\* The prefix rule of the policy that covers a path.
Excluded(p) == \E prefix \in scan.policy : IsPrefix(prefix, p)

\* What scandir has yet to return.
Unlisted == {p \in Paths : Below(p, scan.dir) /\ Present(p)} \ {e.path : e \in scan.found}

\* What a listed entry is taken for.
Observed(p) ==
  [path |-> p, kind |-> IF Excluded(p) THEN "excluded" ELSE tree[p].kind]

\* The entries of a directory are handed out in the order of their names.
NextItem == CHOOSE a \in scan.queue : \A b \in scan.queue : Last(a.path) <= Last(b.path)

Outcomes == {"none", "complete", "partial", "failed", "cancelled"}

DigestType == {NoDigest} \cup ((Content \cup {0}) \X (Content \cup {0}))

EntryType == [path : Paths \ {Root}, kind : {"file", "directory"}, digest : DigestType]

ItemType == [path : Paths \ {Root}, kind : {"file", "directory", "odd", "excluded"}]

Unlimited == [entries |-> 0, bytes |-> 0, cancellable |-> FALSE]

ScanType ==
  [step : {"idle", "walk", "list", "hash", "ended"}, policy : Policies \cup {{}},
   limits : Limits \cup {Unlimited}, pending : Seq(Paths), queue : SUBSET ItemType, dir : Paths,
   stamp : Nat, chunk : Content \cup {0}, found : SUBSET ItemType, seen : Nat,
   entries : SUBSET EntryType, exclusions : SUBSET Paths, incomplete : BOOLEAN,
   rootFailed : BOOLEAN, outcome : Outcomes]

ManifestType == [outcome : Outcomes, policy : Policies \cup {{}}, entries : SUBSET EntryType]

ReportType ==
  [verdict : {"none", "policy-required", "unsupported", "incomplete", "digest-mismatch", "verified"},
   diff : {"none", "partial", "complete"},
   added : SUBSET Paths, removed : SUBSET Paths, changed : SUBSET Paths]

TypeOK ==
  /\ tree \in [Paths -> [kind : {"absent", "file", "directory", "odd"},
                         content : Content \cup {0}, stamp : 0 .. MaxChanges]]
  /\ changes \in 0 .. MaxChanges /\ scans \in Nat
  /\ scan \in ScanType
  /\ scan.step = "idle" <=> scans = 0
  /\ scan.step = "hash" => scan.queue # {}
  /\ \A e, f \in scan.entries : e.path = f.path => e = f
  /\ \A e \in scan.entries :
       \/ Front(e.path) = Root
       \/ \E d \in scan.entries : d.path = Front(e.path) /\ d.kind = "directory"
  /\ kept \in ManifestType /\ report \in ReportType
  /\ steady \subseteq Paths /\ unmoved \subseteq Paths

NoScan ==
  [step |-> "idle", policy |-> {}, limits |-> Unlimited,
   pending |-> <<>>, queue |-> {}, dir |-> Root, stamp |-> 0, chunk |-> 0, found |-> {},
   seen |-> 0, entries |-> {}, exclusions |-> {}, incomplete |-> FALSE,
   rootFailed |-> FALSE, outcome |-> "none"]

Init ==
  /\ \E kinds \in Initial :
       tree = [p \in Paths |-> Node(kinds[p], IF kinds[p] = "file" THEN 1 ELSE 0, 0)]
  /\ changes = 0 /\ scans = 0
  /\ scan = NoScan
  /\ kept = NoManifest
  /\ report = NoReport
  /\ steady = {} /\ unmoved = {} /\ existed = {}

(***************************************************************************)
(* Other programs                                                           *)
(***************************************************************************)

FilesOf(t) == {<<p, Whole(t[p].content)>> : p \in {q \in Paths : t[q].kind = "file"}}

Changed(p, t) ==
  /\ changes < MaxChanges
  /\ changes' = changes + 1
  /\ tree' = t
  /\ steady' = steady \ {p}
  /\ unmoved' = unmoved \ {p}
  /\ existed' = existed \cup FilesOf(t)
  /\ UNCHANGED <<scan, scans, kept, report>>

\* A file is rewritten in place.
Rewrite(p, c) ==
  /\ tree[p].kind = "file" /\ c # tree[p].content
  /\ Changed(p, [tree EXCEPT ![p] = Node("file", c, changes + 1)])

\* An entry appears or disappears; its directory's stamp moves too.
Relink(p, node) ==
  /\ p # Root /\ tree[Front(p)].kind = "directory"
  /\ Present(p) # (node.kind # "absent")
  /\ \A q \in Paths : Below(q, p) => ~Present(q)
  /\ Changed(p, [tree EXCEPT ![p] = node, ![Front(p)].stamp = changes + 1])

Create(p, kind, c) == Relink(p, Node(kind, IF kind = "file" THEN c ELSE 0, changes + 1))

Delete(p) == Relink(p, Node("absent", 0, changes + 1))

(***************************************************************************)
(* The scan                                                                 *)
(***************************************************************************)

Scanning(s) ==
  /\ scan' = s
  /\ UNCHANGED <<tree, changes, scans, kept, report, steady, unmoved, existed>>

\* A failure is recorded and the walk goes on; a failure at the root is fatal.
Failed(s, p) ==
  [s EXCEPT !.step = "walk", !.incomplete = TRUE, !.rootFailed = @ \/ p = Root]

\* Case-folded collisions are admitted and make the scan partial.
Collides(p) == \E e \in scan.entries : e.path # p /\ Folded(e.path) = Folded(p)

Admitted(s, e) ==
  [s EXCEPT !.step = "walk", !.entries = @ \cup {e}, !.incomplete = @ \/ Collides(e.path)]

Outcome(s, cancelled) ==
  CASE cancelled -> "cancelled"
    [] s.rootFailed -> "failed"
    [] s.incomplete -> "partial"
    [] OTHER -> "complete"

Ended(s, cancelled) == [s EXCEPT !.step = "ended", !.outcome = Outcome(s, cancelled)]

BeginScan(policy, limits) ==
  /\ scan.step \in {"idle", "ended"} /\ report = NoReport
  /\ scans < MaxScans
  /\ scans' = scans + 1
  /\ scan' = [NoScan EXCEPT !.step = "walk", !.policy = policy, !.limits = limits,
                            !.pending = <<Root>>]
  /\ kept' = IF scans = 1
             THEN [outcome |-> scan.outcome, policy |-> scan.policy, entries |-> scan.entries]
             ELSE kept
  /\ unmoved' = IF scans = 0 THEN Paths ELSE unmoved
  /\ steady' = Paths
  /\ existed' = FilesOf(tree)
  /\ UNCHANGED <<tree, changes, report>>

\* pending.pop() and the first lstat.
OpenDirectory ==
  /\ scan.step = "walk" /\ scan.queue = {} /\ scan.pending # <<>>
  /\ LET d == Last(scan.pending)
         s == [scan EXCEPT !.pending = Front(@)]
     IN Scanning(IF tree[d].kind # "directory"
                 THEN Failed(s, d)
                 ELSE [s EXCEPT !.step = "list", !.dir = d, !.stamp = tree[d].stamp, !.found = {}])

Cancel ==
  /\ scan.step = "list" /\ scan.limits.cancellable
  /\ Unlisted # {}
  /\ Scanning(Ended(scan, TRUE))

Overfull == Limited(scan.limits.entries, scan.seen + Cardinality(scan.found))

StopAtEntryLimit ==
  /\ scan.step = "list" /\ Overfull
  /\ Unlisted # {}
  /\ Scanning(Ended([scan EXCEPT !.incomplete = TRUE], FALSE))

ListEntry(p) ==
  /\ scan.step = "list" /\ ~Overfull
  /\ p \in Unlisted
  /\ Scanning([scan EXCEPT !.found = @ \cup {Observed(p)}])

\* The second lstat: a directory that changed is not listed at all.
DirectoryStable == tree[scan.dir].kind = "directory" /\ tree[scan.dir].stamp = scan.stamp

CloseDirectory ==
  /\ scan.step = "list"
  /\ Unlisted = {} \/ tree[scan.dir].stamp # scan.stamp
  /\ Scanning(IF ~DirectoryStable
              THEN Failed(scan, scan.dir)
              ELSE [scan EXCEPT !.step = "walk", !.queue = scan.found])

\* The entries that need no further reading.
TakeEntry ==
  /\ scan.step = "walk" /\ scan.queue # {}
  /\ NextItem.kind # "file"
  /\ LET item == NextItem
         s == [scan EXCEPT !.queue = @ \ {item}, !.seen = @ + 1]
     IN Scanning(CASE item.kind = "excluded" -> [s EXCEPT !.exclusions = @ \cup {item.path}]
                   [] item.kind = "directory" ->
                        [Admitted(s, Entry(item.path, "directory", NoDigest))
                           EXCEPT !.pending = Append(@, item.path)]
                   [] OTHER -> Failed(s, item.path))

BytesUsed == Cardinality({e \in scan.entries : e.kind = "file"})

\* _hash_regular_file up to the first chunk.
OpenFile ==
  /\ scan.step = "walk" /\ scan.queue # {}
  /\ NextItem.kind = "file"
  /\ LET p == NextItem.path
         s == [scan EXCEPT !.seen = @ + 1]
         dropped == [s EXCEPT !.queue = @ \ {NextItem}]
     IN Scanning(CASE tree[p].kind # "file" -> Failed(dropped, p)
                   [] Limited(s.limits.bytes, BytesUsed) ->
                        Ended([dropped EXCEPT !.incomplete = TRUE], FALSE)
                   [] OTHER -> [s EXCEPT !.step = "hash", !.stamp = tree[p].stamp,
                                         !.chunk = tree[p].content])

FileStillThere(p) == tree[p].kind = "file"

FileStable(p) == FileStillThere(p) /\ tree[p].stamp = scan.stamp

\* The second chunk and the closing observations.
CloseFile ==
  /\ scan.step = "hash"
  /\ LET p == NextItem.path
         s == [scan EXCEPT !.queue = @ \ {NextItem}]
     IN Scanning(IF FileStable(p)
                 THEN Admitted(s, Entry(p, "file", <<scan.chunk, tree[p].content>>))
                 ELSE Failed(s, p))

FinishScan ==
  /\ scan.step = "walk" /\ scan.queue = {} /\ scan.pending = <<>>
  /\ Scanning(Ended(scan, FALSE))

(***************************************************************************)
(* verify_path and diff_manifests of the kept manifest and the new one      *)
(***************************************************************************)

\* The verdict reached without scanning, or "none".
PolicyVerdict(policy) ==
  CASE policy = kept.policy -> "none"
    [] policy # kept.policy /\ policy = {} -> "policy-required"   \* the default policy
    [] OTHER -> "unsupported"

Verdict ==
  CASE {kept.outcome, scan.outcome} # {"complete"} -> "incomplete"
    [] scan.entries # kept.entries -> "digest-mismatch"
    [] OTHER -> "verified"

PathsOf(entries) == {e.path : e \in entries}

Differing == PathsOf(kept.entries \ scan.entries) \cap PathsOf(scan.entries \ kept.entries)

Compare ==
  /\ scan.step = "ended" /\ scans = 2 /\ report = NoReport
  /\ scan.policy = kept.policy
  /\ report' = [verdict |-> Verdict,
                diff |-> IF {kept.outcome, scan.outcome} = {"complete"} THEN "complete" ELSE "partial",
                added |-> PathsOf(scan.entries) \ PathsOf(kept.entries),
                removed |-> PathsOf(kept.entries) \ PathsOf(scan.entries),
                changed |-> Differing]
  /\ UNCHANGED <<tree, changes, scan, scans, kept, steady, unmoved, existed>>

\* The other policy is refused, by verify_path before it scans and by the diff.
RefusePolicy(policy) ==
  /\ scan.step = "ended" /\ scans = 2 /\ report = NoReport
  /\ PolicyVerdict(policy) # "none"
  /\ report' = [NoReport EXCEPT !.verdict = PolicyVerdict(policy)]
  /\ UNCHANGED <<tree, changes, scan, scans, kept, steady, unmoved, existed>>

Next ==
  \/ \E p \in Paths, c \in Content : Rewrite(p, c)
  \/ \E p \in Paths, kind \in {"file", "directory", "odd"}, c \in Content : Create(p, kind, c)
  \/ \E p \in Paths : Delete(p)
  \/ \E policy \in Policies, limits \in Limits : BeginScan(policy, limits)
  \/ OpenDirectory
  \/ Cancel
  \/ StopAtEntryLimit
  \/ \E p \in Paths : ListEntry(p)
  \/ CloseDirectory
  \/ TakeEntry
  \/ OpenFile
  \/ CloseFile
  \/ FinishScan
  \/ Compare
  \/ \E policy \in Policies : RefusePolicy(policy)

Spec == Init /\ [][Next]_vars

(***************************************************************************)
(* A complete manifest accounts for the tree: every file entry is a content *)
(* the file really had during the scan, whatever was not touched while it   *)
(* ran is either excluded or an entry with what it holds, and a complete    *)
(* diff reports no path that was untouched since the first scan began.      *)
(***************************************************************************)
CompleteAccounts ==
  /\ scan.outcome = "complete" =>
       /\ \A e \in scan.entries : e.kind = "file" => <<e.path, e.digest>> \in existed
       /\ \A p \in steady \ {Root} :
            CASE ~Present(p) -> p \notin PathsOf(scan.entries)
              [] Excluded(p) -> p \notin PathsOf(scan.entries)
              [] OTHER -> \E e \in scan.entries :
                            /\ e.path = p /\ e.kind = tree[p].kind
                            /\ e.kind = "file" => e.digest = Whole(tree[p].content)
  /\ report.diff = "complete" =>
       unmoved \cap (report.added \cup report.removed \cup report.changed) = {}
=============================================================================
