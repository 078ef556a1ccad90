------------------------------- MODULE Release -------------------------------
(***************************************************************************)
(* A release candidate: its preparation from one commit                     *)
(* (src/artifact_memory/release_preparation.py), its verification against   *)
(* the owner's signed tag (release.py) and the comparison of a reproduction *)
(* with what was published (release_attestation.py), while others edit the  *)
(* staged and published files, the tag, HEAD and the signers file.          *)
(*                                                                          *)
(* A value stands for a file's bytes and for their digest.  What git makes  *)
(* of a commit is a function of the commit.  Signing and publishing are the *)
(* owner's, outside this code.  The snapshot of the three artifacts is one  *)
(* step, for each is compared with a constant of the verification; so is    *)
(* SHA256SUMS with the lines of the manifest, whose own digest of it then   *)
(* is the one its lines have.  A reproduction's directory is nobody else's, *)
(* and the receipt published beside the assets is not edited.               *)
(***************************************************************************)
EXTENDS Naturals, FiniteSets

CONSTANTS
  Commit,      \* commits of the repository
  Owner,       \* the owner's key
  Signers,     \* what the allowed-signers file may hold: sets of keys
  Other,       \* bytes made by no preparation
  Missing,     \* no file, no tag, no receipt
  Previews,    \* commits an unsigned preview may be prepared of
  HandMade,    \* manifests edited by hand: [commit, key, archive, notes]
  Preparer,    \* processes preparing candidates into one output
  MaxChanges,  \* bound on changes by others
  MaxReceipts  \* bound on verification receipts

VARIABLES
  staged,      \* staged[n]: the output directory, all Missing when absent
  preparer,    \* preparer[p]
  prepared,    \* [kind, commit] of the preparations told to be written
  tag,         \* the object the release tag names
  head,        \* [commit, detached]
  signers,     \* the allowed-signers file
  verifier,
  receipts,    \* verification receipts given
  published,   \* published[n], with the receipt published beside them
  attester,
  report,      \* the last attestation report
  changes, past, returned, touched   \* history of changes by others

vars == <<staged, preparer, prepared, tag, head, signers, verifier, receipts, published, attester,
          report, changes, past, returned, touched>>

repository == <<tag, head, signers>>
history == <<changes, past, returned, touched>>

Artifacts == {"archive", "notes", "SHA256SUMS"}

Assets == Artifacts \cup {"release-manifest.json", "preparation-receipt.json"}

Idle == [step |-> "idle"]

NoFiles == [n \in Assets |-> Missing]

ManifestOf(c) == [commit |-> c, key |-> Owner, archive |-> <<"archive", c>>, notes |-> <<"notes", c>>]

SumsOf(m) == <<"sums", m.archive, m.notes>>

\* prepare_release_candidate: every asset is a function of the exact commit.
Prepared(c) ==
  [n \in Assets |->
     CASE n = "archive" -> <<"archive", c>>
       [] n = "notes" -> <<"notes", c>>
       [] n = "SHA256SUMS" -> SumsOf(ManifestOf(c))
       [] n = "release-manifest.json" -> <<"manifest", ManifestOf(c)>>
       [] n = "preparation-receipt.json" -> <<"prepared", ManifestOf(c)>>]

\* prepare_unsigned_release_preview: no notes, a manifest nobody signs.
Previewed(c) ==
  [n \in Assets |->
     CASE n = "archive" -> <<"preview archive", c>>
       [] n = "notes" -> Missing
       [] n = "SHA256SUMS" -> <<"sums", <<"preview archive", c>>, Missing>>
       [] n = "release-manifest.json" -> <<"preview manifest", c>>
       [] n = "preparation-receipt.json" -> <<"previewed", c>>]

Preparations == [kind : {"candidate"}, commit : Commit] \cup [kind : {"preview"}, commit : Previews]

AssetsOf(p) == IF p.kind = "preview" THEN Previewed(p.commit) ELSE Prepared(p.commit)

Manifests == {ManifestOf(c) : c \in Commit} \cup HandMade

IsManifest(bytes) == \E m \in Manifests : bytes = <<"manifest", m>>

Listed(m) == [archive |-> m.archive, notes |-> m.notes, SHA256SUMS |-> SumsOf(m)]

Tags == [commit : Commit, manifest : Manifests, signer : UNION Signers]

Preparing == {Idle} \cup [step : {"staged"}, preparation : Preparations]

Pinned == [step : {"pinned", "identified"}, manifest : Manifests, tag : Tags, signers : Signers]

IsListing(files, m) == files = [n \in Artifacts |-> Listed(m)[n]]

\* What a verification holds: from the snapshot on, the files its manifest lists.
VerifierTyped(v) ==
  \/ v = Idle
  \/ v \in Pinned
  \/ /\ v.step \in {"replaying", "final"}
     /\ v.manifest \in Manifests /\ v.tag \in Tags /\ v.signers \in Signers
     /\ IsListing(v.initial, v.manifest)
     /\ v.todo \subseteq {"archive", "notes"}

SubjectsOf(c) == {<<n, Prepared(c)[n]>> : n \in Assets}

AttesterTyped(a) ==
  \/ a = Idle
  \/ /\ a.step = "comparing"
     /\ a.commit \in Commit /\ a.receipt \in receipts
     /\ a.subjects \subseteq SubjectsOf(a.commit)

\* What each variable holds, and what a preparation, a verification and an
\* attestation hold at each of their steps.
TypeOK ==
  /\ DOMAIN staged = Assets
  /\ preparer \in [Preparer -> Preparing]
  /\ prepared \subseteq Preparations
  /\ tag \in Tags \cup {Missing}
  /\ head \in [commit : Commit, detached : BOOLEAN]
  /\ signers \in Signers
  /\ VerifierTyped(verifier)
  /\ \A r \in receipts : r.manifest \in Manifests /\ r.tag \in Tags /\ IsListing(r.assets, r.manifest)
  /\ published # Missing => DOMAIN published.files = Assets /\ published.receipt \in receipts
  /\ AttesterTyped(attester)
  /\ report # Missing => report.commit \in Commit /\ report.receipt \in receipts
  /\ changes \in 0..MaxChanges

\* A directory made by hand around such a manifest, every digest consistent.
HandStaged(m) ==
  [Prepared(m.commit) EXCEPT !["archive"] = m.archive, !["notes"] = m.notes, !["SHA256SUMS"] = SumsOf(m),
                             !["release-manifest.json"] = <<"manifest", m>>]

Init ==
  /\ staged \in {NoFiles} \cup {HandStaged(m) : m \in HandMade}
  /\ preparer = [p \in Preparer |-> Idle] /\ prepared = {}
  /\ tag = Missing
  /\ head \in [commit : Commit, detached : {TRUE}]
  /\ signers \in Signers
  /\ verifier = Idle /\ receipts = {}
  /\ published = Missing /\ attester = Idle /\ report = Missing
  /\ changes = 0 /\ past = [n \in Assets |-> {}] /\ returned = {} /\ touched = FALSE

(***************************************************************************)
(* Others: the owner signs and publishes, anyone edits                      *)
(***************************************************************************)

Changing == changes < MaxChanges /\ changes' = changes + 1

\* The staged files become new; the history notes the files that were there and
\* the names where one of them is back.
Restage(new) ==
  /\ staged' = new
  /\ past' = [n \in Assets |-> past[n] \cup ({staged[n]} \ {new[n], Missing})]
  /\ returned' = returned \cup {n \in Assets : new[n] # staged[n] /\ new[n] \in past[n]}

EditStaged(n, bytes) ==
  /\ Changing
  /\ bytes # staged[n]
  /\ Restage([staged EXCEPT ![n] = bytes])
  /\ touched' = TRUE
  /\ UNCHANGED <<preparer, prepared, repository, verifier, receipts, published, attester, report>>

\* The owner empties the output to prepare another candidate.
Clear ==
  /\ Changing
  /\ staged # NoFiles /\ Restage(NoFiles)
  /\ prepared' = {}
  /\ UNCHANGED <<preparer, repository, verifier, receipts, published, attester, report, touched>>

\* A tag of HEAD with the trailer of the manifest that is staged.
SignTag(key) ==
  /\ IsManifest(staged["release-manifest.json"])
  /\ Changing
  /\ tag' = [commit |-> head.commit, manifest |-> staged["release-manifest.json"][2], signer |-> key]
  /\ tag' # tag
  /\ UNCHANGED <<staged, preparer, prepared, head, signers, verifier, receipts, published, attester, report,
                 past, returned, touched>>

Checkout(h) ==
  /\ Changing
  /\ head # h /\ head' = h
  /\ UNCHANGED <<staged, preparer, prepared, tag, signers, verifier, receipts, published, attester, report,
                 past, returned, touched>>

EditSigners(s) ==
  /\ Changing
  /\ signers # s /\ signers' = s
  /\ UNCHANGED <<staged, preparer, prepared, tag, head, verifier, receipts, published, attester, report,
                 past, returned, touched>>

Publish(r) ==
  /\ published = Missing
  /\ published' = [files |-> staged, receipt |-> r]
  /\ UNCHANGED <<staged, preparer, prepared, repository, verifier, receipts, attester, report, history>>

EditPublished(n, bytes) ==
  /\ Changing
  /\ published # Missing /\ published.files[n] # bytes
  /\ published' = [published EXCEPT !.files[n] = bytes]
  /\ UNCHANGED <<staged, preparer, prepared, repository, verifier, receipts, attester, report,
                 past, returned, touched>>

(***************************************************************************)
(* prepare_release_candidate, prepare_unsigned_release_preview              *)
(***************************************************************************)

Prepare(p, preparation) ==
  /\ preparer[p] = Idle
  /\ staged = NoFiles
  /\ preparer' = [preparer EXCEPT ![p] = [step |-> "staged", preparation |-> preparation]]
  /\ UNCHANGED <<staged, prepared, repository, verifier, receipts, published, attester, report, history>>

\* The staged directory takes the place of an output that is absent or empty.
PublishOutput(p) ==
  /\ preparer[p].step = "staged"
  /\ preparer' = [preparer EXCEPT ![p] = Idle]
  /\ IF staged = NoFiles
     THEN /\ Restage(AssetsOf(preparer[p].preparation))
          /\ prepared' = prepared \cup {preparer[p].preparation}
     ELSE UNCHANGED <<staged, prepared, past, returned>>
  /\ UNCHANGED <<repository, verifier, receipts, published, attester, report, changes, touched>>

PreparerDies(p) ==
  /\ preparer[p] # Idle
  /\ preparer' = [preparer EXCEPT ![p] = Idle]
  /\ UNCHANGED <<staged, prepared, repository, verifier, receipts, published, attester, report, history>>

(***************************************************************************)
(* verify_checked_out_release_candidate                                     *)
(***************************************************************************)

VerifierOnly ==
  UNCHANGED <<staged, preparer, prepared, repository, published, attester, report, history>>

Proceed(v) == verifier' = v /\ UNCHANGED receipts

Refuse == Proceed(Idle)

\* The manifest is read once; the tag's object and the signers are pinned.
BeginVerify ==
  /\ verifier = Idle
  /\ IsManifest(staged["release-manifest.json"])
  /\ LET m == staged["release-manifest.json"][2]
     IN /\ m.key = Owner /\ Owner \in signers /\ tag # Missing
        /\ Proceed([step |-> "pinned", manifest |-> m, tag |-> tag, signers |-> signers])
  /\ VerifierOnly

SignedByOwner(t) == t.signer = Owner

TrailerBinds(t, m) == t.manifest = m

TagOfHead(t, m) == m.commit = t.commit /\ m.commit = head.commit

CheckTag ==
  /\ verifier.step = "pinned"
  /\ LET m == verifier.manifest
         t == verifier.tag
     IN IF SignedByOwner(t) /\ TrailerBinds(t, m) /\ TagOfHead(t, m) /\ head.detached
        THEN Proceed([verifier EXCEPT !.step = "identified"])
        ELSE Refuse
  /\ VerifierOnly

Snapshot == [n \in Artifacts |-> staged[n]]

\* Every artifact has the digest the signed manifest lists for it.
SnapshotAssets ==
  /\ verifier.step = "identified"
  /\ IF \A n \in Artifacts : Snapshot[n] = Listed(verifier.manifest)[n]
     THEN Proceed([step |-> "replaying", manifest |-> verifier.manifest, tag |-> verifier.tag,
                   signers |-> verifier.signers, initial |-> Snapshot, todo |-> {"archive", "notes"}])
     ELSE Refuse
  /\ VerifierOnly

\* git makes the asset again from the tag's commit, against the bytes staged.
Reproduced(n) == staged[n] = <<n, verifier.tag.commit>>

ReplayAsset(n) ==
  /\ verifier.step = "replaying" /\ n \in verifier.todo
  /\ IF Reproduced(n)
     THEN Proceed([verifier EXCEPT !.todo = @ \ {n}])
     ELSE Refuse
  /\ VerifierOnly

SnapshotForgotten(initial) == TRUE

SnapshotStands(initial) == Snapshot = initial

SnapshotAgain ==
  /\ verifier.step = "replaying" /\ verifier.todo = {}
  /\ IF SnapshotStands(verifier.initial)
     THEN Proceed([verifier EXCEPT !.step = "final"])
     ELSE Refuse
  /\ VerifierOnly

GiveReceipt ==
  /\ verifier.step = "final"
  /\ Cardinality(receipts) < MaxReceipts
  /\ IF /\ tag = verifier.tag /\ signers = verifier.signers
        /\ head = [commit |-> verifier.manifest.commit, detached |-> TRUE]
     THEN receipts' = receipts \cup {[manifest |-> verifier.manifest, tag |-> verifier.tag,
                                      assets |-> verifier.initial]}
     ELSE UNCHANGED receipts
  /\ verifier' = Idle
  /\ VerifierOnly

(***************************************************************************)
(* verify_release_attestation_subjects                                      *)
(***************************************************************************)

AttesterOnly ==
  UNCHANGED <<staged, preparer, prepared, repository, verifier, receipts, published, history>>

\* The reproduced directory is a preparation of the commit asked about; the
\* published one must have the same names, and the receipt.
BeginAttestation(c, r) ==
  /\ attester = Idle /\ published # Missing
  /\ \A n \in Assets : published.files[n] # Missing
  /\ attester' = [step |-> "comparing", commit |-> c, receipt |-> r, subjects |-> {}]
  /\ UNCHANGED report /\ AttesterOnly

Compared == {s[1] : s \in attester.subjects}

CompareSubject(n) ==
  /\ attester.step = "comparing" /\ n \in Assets \ Compared
  /\ attester' = IF published.files[n] = Prepared(attester.commit)[n]
                 THEN [attester EXCEPT !.subjects = @ \cup {<<n, published.files[n]>>}]
                 ELSE Idle
  /\ UNCHANGED report /\ AttesterOnly

\* The generated receipt equals the published one and is bound to the manifest.
ReceiptBound(r, c) ==
  /\ published.receipt = r
  /\ r.manifest = ManifestOf(c)
  /\ r.assets["SHA256SUMS"] = Prepared(c)["SHA256SUMS"]

Attest ==
  /\ attester.step = "comparing" /\ Compared = Assets
  /\ IF ReceiptBound(attester.receipt, attester.commit) /\ \A n \in Assets : published.files[n] # Missing
     THEN report' = [commit |-> attester.commit, receipt |-> attester.receipt, subjects |-> attester.subjects]
     ELSE UNCHANGED report
  /\ attester' = Idle
  /\ AttesterOnly

StageBytes(n) ==
  {Other, Missing} \cup {Prepared(c)[n] : c \in Commit}
  \cup (IF n = "release-manifest.json" THEN {<<"manifest", m>> : m \in HandMade} ELSE {})
  \cup (IF n = "SHA256SUMS" THEN {SumsOf(m) : m \in HandMade} ELSE {})

Next ==
  \/ \E n \in Assets : \E bytes \in StageBytes(n) : EditStaged(n, bytes)
  \/ Clear
  \/ \E key \in UNION Signers : SignTag(key)
  \/ \E h \in [commit : Commit, detached : BOOLEAN] : Checkout(h)
  \/ \E s \in Signers : EditSigners(s)
  \/ \E r \in receipts : Publish(r)
  \/ \E n \in Assets : \E bytes \in {Other, Missing} : EditPublished(n, bytes)
  \/ \E p \in Preparer :
       \/ \E preparation \in Preparations : Prepare(p, preparation)
       \/ PublishOutput(p)
       \/ PreparerDies(p)
  \/ BeginVerify
  \/ CheckTag
  \/ SnapshotAssets
  \/ \E n \in {"archive", "notes"} : ReplayAsset(n)
  \/ SnapshotAgain
  \/ GiveReceipt
  \/ \E c \in Commit, r \in receipts : BeginAttestation(c, r)
  \/ \E n \in Assets : CompareSubject(n)
  \/ Attest

Spec == Init /\ [][Next]_vars

\* Missing is no file: not what a preparation writes, nor what a manifest lists.
ReleaseConstants ==
  /\ MaxChanges \in Nat
  /\ \A p \in Preparations : AssetsOf(p)["preparation-receipt.json"] # Missing
  /\ \A m \in Manifests :
       m.commit \in Commit /\ \A n \in Artifacts : Listed(m)[n] # Missing

(***************************************************************************)
(* What is attested is what the owner signed.  Two preparations never mix   *)
(* in one output; a receipt names a manifest signed by the owner whose      *)
(* commit reproduces the assets it lists, never a preview, unless a staged  *)
(* file was replaced and came back; an attested asset is what its commit    *)
(* makes, under a receipt for that commit's manifest.                       *)
(***************************************************************************)
ReleaseBound ==
  /\ ~touched /\ prepared # {} => Cardinality(prepared) = 1 /\ \A p \in prepared : staged = AssetsOf(p)
  /\ returned = {} => \A r \in receipts :
       /\ r.tag.signer = Owner /\ r.tag.manifest = r.manifest /\ r.tag.commit = r.manifest.commit
       /\ \A n \in {"archive", "notes"} : r.assets[n] = <<n, r.manifest.commit>>
       /\ r.assets["SHA256SUMS"] = SumsOf(r.manifest)
  /\ report # Missing =>
       /\ report.subjects = SubjectsOf(report.commit)
       /\ report.receipt.manifest = ManifestOf(report.commit)
=============================================================================
