---------------------------- MODULE RepoIdentity ----------------------------
(***************************************************************************)
(* The repository identity manifest .agent-memory/repo.json: its creation   *)
(* (create_repo_identity_manifest), the committed identity                  *)
(* (load_repo_identity) and the comparison of a commit with HEAD            *)
(* (compare_commit_to_head), in src/artifact_memory/repo_identity.py, while *)
(* other programs commit, check out, edit the manifest and move another     *)
(* checkout to the same path.                                               *)
(*                                                                          *)
(* A directory stands for an inode: the chain of directory identities that  *)
(* the code compares is the directory found at the path.  A commit names    *)
(* its content, so its manifest and its ancestors are the same in every     *)
(* checkout that has it; replacement objects are switched off.  A manifest  *)
(* carries a stamp for its inode, size and times.                           *)
(***************************************************************************)
EXTENDS Naturals, FiniteSets

CONSTANTS
  Directory,   \* checkouts that may be at the path
  Identity,    \* manifests that are valid identities
  Junk,        \* a manifest that is not
  Nothing,     \* no manifest
  Commit,      \* commit names
  Manifest,    \* the manifest each commit holds, or Nothing
  Ancestors,   \* the ancestors of each commit, itself included
  Has,         \* the commits each checkout has
  Creator, Reader, Evaluator,   \* processes, by what they call
  MaxChanges   \* bound on changes by other programs

VARIABLES
  at,        \* the directory at the path
  working,   \* working[d]: [bytes, stamp], the manifest in the working tree
  head,      \* head[d]: the commit checked out
  changes,   \* changes by other programs so far
  stamps,    \* the newest manifest stamp
  process,   \* process[p]: what a call has seen
  answer,    \* what the last successful call was told, or Nothing
  settled    \* history: [directory, identity] told to creators, until edited

vars == <<at, working, head, changes, stamps, process, answer, settled>>

Process == Creator \cup Reader \cup Evaluator

\* A call and what it has seen: the root it verified, the manifest it read and
\* where, for which purpose, whether it linked it, the commit it resolved.
Idle ==
  [step |-> "idle", call |-> Nothing, root |-> Nothing, from |-> Nothing, was |-> Nothing,
   as |-> Nothing, created |-> FALSE, commit |-> Nothing, status |-> Nothing]

\* A commit holds a manifest or none, a checkout has commits, no manifest is no
\* identity, and a process makes one kind of call.
RepoConstants ==
  /\ Manifest \in [Commit -> Identity \cup {Junk, Nothing}]
  /\ Has \in [Directory -> SUBSET Commit]
  /\ Nothing \notin Identity
  /\ Creator \cap (Reader \cup Evaluator) = {} /\ Reader \cap Evaluator = {}

\* What a process asks for.
Calls(p) ==
  IF p \in Creator THEN Identity
  ELSE IF p \in Reader THEN {"load"}
  ELSE [candidate : Commit, expected : Identity]

WorkingType == [bytes : Identity \cup {Junk, Nothing}, stamp : Nat]

\* A call of p has seen what its step says.
CallOK(p, q) ==
  /\ q.step # "idle" => q.call \in Calls(p) /\ q.root \in Directory
  /\ q.step \in {"read", "loaded", "pinned"} =>
       q.from \in Directory /\ q.was \in WorkingType /\ q.as \in {"load", "existing", "created"}
  /\ q.step \in {"pinned", "head", "known", "compared"} => q.commit \in Commit
  /\ q.step = "compared" => q.status \in {"current", "stale-verify"}

TypeOK ==
  /\ at \in Directory
  /\ working \in [Directory -> WorkingType]
  /\ head \in [Directory -> Commit]
  /\ \A d \in Directory : head[d] \in Has[d]
  /\ stamps \in Nat
  /\ \A p \in Process :
       /\ process[p].step \in
            {"idle", "verified", "read", "linked", "loaded", "pinned", "head", "known", "compared"}
       /\ process[p].created \in BOOLEAN
       /\ CallOK(p, process[p])
  /\ settled \subseteq [directory : Directory, identity : Identity]

Init ==
  /\ at \in Directory
  /\ head \in [Directory -> Commit] /\ \A d \in Directory : head[d] \in Has[d]
  /\ working = [d \in Directory |-> [bytes |-> Manifest[head[d]], stamp |-> 0]]
  /\ changes = 0 /\ stamps = 0
  /\ process = [p \in Process |-> Idle]
  /\ answer = Nothing /\ settled = {}

(***************************************************************************)
(* Other programs                                                           *)
(***************************************************************************)

ByOthers == changes < MaxChanges /\ changes' = changes + 1

Stamped(bytes) == [bytes |-> bytes, stamp |-> stamps + 1]

Unsettled(d) == {s \in settled : s.directory # d}

EditManifest(d, bytes) ==
  /\ ByOthers
  /\ bytes # working[d].bytes
  /\ working' = [working EXCEPT ![d] = Stamped(bytes)]
  /\ stamps' = stamps + 1
  /\ settled' = Unsettled(d)
  /\ UNCHANGED <<at, head, process, answer>>

\* A commit of what is there, or any other move of HEAD that leaves it alone.
MoveHead(d, c) ==
  /\ ByOthers
  /\ c \in Has[d] /\ c # head[d]
  /\ head' = [head EXCEPT ![d] = c]
  /\ UNCHANGED <<at, working, stamps, process, answer, settled>>

MoveRoot(d) ==
  /\ ByOthers
  /\ d # at
  /\ at' = d
  /\ UNCHANGED <<working, head, stamps, process, answer, settled>>

(***************************************************************************)
(* What every call does                                                     *)
(***************************************************************************)

Unchanged == UNCHANGED <<at, working, head, changes, stamps>>

Continue(p, state) ==
  /\ process' = [process EXCEPT ![p] = state]
  /\ UNCHANGED <<answer, settled>>

Tell(p, a) ==
  /\ process' = [process EXCEPT ![p] = Idle]
  /\ answer' = a

Refuse(p) == Continue(p, Idle)

Die(p) ==
  /\ process[p].step # "idle"
  /\ Refuse(p) /\ Unchanged

\* The exact, link-free top level of a worktree, and its directory chain.
VerifyRoot(p, call) ==
  /\ process[p].step = "idle"
  /\ Continue(p, [Idle EXCEPT !.step = "verified", !.call = call, !.root = at])
  /\ Unchanged

\* _read_manifest_bytes: observe the path, hold the directories, read.
Reading(p, as) ==
  IF working[at].bytes = Nothing
  THEN Refuse(p)
  ELSE Continue(p, [process[p] EXCEPT !.step = "read", !.from = at, !.was = working[at], !.as = as])

\* The observations after the reading must be those before it.
Unmoved(p) == at = process[p].from /\ working[at] = process[p].was

(***************************************************************************)
(* create_repo_identity_manifest                                            *)
(***************************************************************************)

Bytes(p) == process[p].was.bytes

Settle(p, d, i) == settled' = settled \cup {[directory |-> d, identity |-> i]}

\* A manifest that is already there is loaded and compared.
FindManifest(p) ==
  /\ p \in Creator /\ process[p].step = "verified"
  /\ working[at].bytes # Nothing
  /\ Reading(p, "existing") /\ Unchanged

\* Linking a name that exists fails, and so does a directory that is not the
\* verified one.
LinkOver(p, bytes) == working' = [working EXCEPT ![process[p].root] = Stamped(bytes)]

Link(p, bytes) ==
  IF working[process[p].root].bytes = Nothing
  THEN working' = [working EXCEPT ![process[p].root] = Stamped(bytes)]
  ELSE UNCHANGED working

Linked(p) == working'[process[p].root].stamp = stamps + 1

LinkManifest(p) ==
  /\ p \in Creator /\ process[p].step = "verified"
  /\ IF at # process[p].root
     THEN Refuse(p) /\ UNCHANGED <<working, stamps>>
     ELSE /\ Link(p, process[p].call)
          /\ stamps' = IF Linked(p) THEN stamps + 1 ELSE stamps
          /\ Continue(p, [process[p] EXCEPT !.step = "linked", !.created = Linked(p)])
  /\ UNCHANGED <<at, head, changes>>

\* After the link: the chain again, then the bytes at the path.
ReadBack(p) ==
  /\ process[p].step = "linked"
  /\ IF process[p].created /\ at # process[p].root
     THEN Refuse(p)
     ELSE Reading(p, IF process[p].created THEN "created" ELSE "existing")
  /\ Unchanged

ConfirmManifest(p) ==
  /\ p \in Creator /\ process[p].step = "read"
  /\ IF Unmoved(p) /\ Bytes(p) = process[p].call
     THEN /\ Tell(p, [call |-> "create", outcome |-> process[p].as])
          /\ Settle(p, process[p].from, process[p].call)
     ELSE Refuse(p)
  /\ Unchanged

(***************************************************************************)
(* load_repo_identity                                                       *)
(***************************************************************************)

ReadIdentity(p) ==
  /\ p \in Reader /\ process[p].step = "verified"
  /\ Reading(p, "load") /\ Unchanged

LoadIdentity(p) ==
  /\ p \in Reader /\ process[p].step = "read"
  /\ IF Unmoved(p)
     THEN Continue(p, [process[p] EXCEPT !.step = "loaded"])
     ELSE Refuse(p)
  /\ Unchanged

\* Git resolves HEAD in whatever checkout is at the path by now.
PinCommit(p) ==
  /\ process[p].step = "loaded"
  /\ Continue(p, [process[p] EXCEPT !.step = "pinned", !.commit = head[at]])
  /\ Unchanged

CommittedSomething(p) == Manifest[process[p].commit] # Nothing

Committed(p) == CommittedSomething(p) /\ Manifest[process[p].commit] = Bytes(p)

CompareCommitted(p) ==
  /\ process[p].step = "pinned"
  /\ IF process[p].commit \in Has[at] /\ Committed(p) /\ Bytes(p) \in Identity
     THEN /\ Tell(p, [call |-> "load", identity |-> Bytes(p), commit |-> process[p].commit])
          /\ UNCHANGED settled
     ELSE Refuse(p)
  /\ Unchanged

(***************************************************************************)
(* compare_commit_to_head                                                   *)
(***************************************************************************)

ReadHead(p) ==
  /\ p \in Evaluator /\ process[p].step = "verified"
  /\ Continue(p, [process[p] EXCEPT !.step = "head", !.commit = head[at]])
  /\ Unchanged

\* The manifest committed at the observed head names the expected project.
IsExpectedAt(p, expected) == Manifest[process[p].commit] = expected

CheckProject(p) ==
  /\ process[p].step = "head"
  /\ IF process[p].commit \in Has[at] /\ IsExpectedAt(p, process[p].call.expected)
     THEN Continue(p, [process[p] EXCEPT !.step = "known"])
     ELSE Refuse(p)
  /\ Unchanged

\* git merge-base --is-ancestor, in a checkout that may lack either commit.
CompareHead(p) ==
  /\ process[p].step = "known"
  /\ LET candidate == process[p].call.candidate
     IN IF {candidate, process[p].commit} \subseteq Has[at]
        THEN Continue(p, [process[p] EXCEPT !.step = "compared",
               !.status = IF candidate \in Ancestors[process[p].commit] THEN "current" ELSE "stale-verify"])
        ELSE Refuse(p)
  /\ Unchanged

AnswerFreshness(p) ==
  /\ process[p].step = "compared"
  /\ IF head[at] = process[p].commit /\ at = process[p].root
     THEN /\ Tell(p, [call |-> "compare", request |-> process[p].call, status |-> process[p].status,
                      commit |-> process[p].commit])
          /\ UNCHANGED settled
     ELSE Refuse(p)
  /\ Unchanged

Next ==
  \/ \E d \in Directory, bytes \in Identity \cup {Junk, Nothing} : EditManifest(d, bytes)
  \/ \E d \in Directory, c \in Commit : MoveHead(d, c)
  \/ \E d \in Directory : MoveRoot(d)
  \/ \E p \in Creator, i \in Identity : VerifyRoot(p, i)
  \/ \E p \in Reader : VerifyRoot(p, "load")
  \/ \E p \in Evaluator, c \in Commit, i \in Identity :
       VerifyRoot(p, [candidate |-> c, expected |-> i])
  \/ \E p \in Process :
       \/ Die(p)
       \/ FindManifest(p)
       \/ LinkManifest(p)
       \/ ReadBack(p)
       \/ ConfirmManifest(p)
       \/ ReadIdentity(p)
       \/ LoadIdentity(p)
       \/ PinCommit(p)
       \/ CompareCommitted(p)
       \/ ReadHead(p)
       \/ CheckProject(p)
       \/ CompareHead(p)
       \/ AnswerFreshness(p)

Spec == Init /\ [][Next]_vars

(***************************************************************************)
(* No call is told an identity the repository does not have.  Until another *)
(* program edits a manifest, every creator that succeeded on its directory  *)
(* asked for the identity that is in it, however many raced; a loaded       *)
(* identity is what its commit holds; a freshness answer compares commits   *)
(* of the expected project.                                                 *)
(***************************************************************************)
AnswersTrue ==
  /\ \A s \in settled : working[s.directory].bytes = s.identity
  /\ answer # Nothing =>
       /\ answer.call = "load" => answer.identity = Manifest[answer.commit]
       /\ answer.call = "compare" =>
            /\ Manifest[answer.commit] = answer.request.expected
            /\ (answer.status = "current") <=> (answer.request.candidate \in Ancestors[answer.commit])
=============================================================================
