------------------------------ MODULE MCStores ------------------------------
(***************************************************************************)
(* A small instance of Stores.  Where a component would have too many       *)
(* states if everything it does were mixed, a behaviour is confined to one  *)
(* of several settings.                                                     *)
(***************************************************************************)
EXTENDS Stores, FiniteSets, TLC

VARIABLE setting   \* what a behaviour is confined to

\* Two racing writers of two contents, one record path and one slot.
Symmetric == Permutations(Writer) \cup Permutations(Data)

-----------------------------------------------------------------------------
(* Scan: a tree of three names, two of which fold alike, that changes twice  *)
(* while it is scanned and verified.                                         *)

TreePaths == {<<>>, <<3>>, <<2>>, <<3, 1>>}

FoldedNames == <<1, 2, 2>>

Tree(fs, ds) ==
  [p \in TreePaths |-> IF p \in ds \cup {<<>>} THEN "directory"
                       ELSE IF p \in fs THEN "file" ELSE "absent"]

Trees == {Tree({<<3, 1>>}, {<<3>>}), [Tree({}, {}) EXCEPT ![<<>>] = "odd"]}

Exclusions == {{}, {<<3>>}}

ScanLimits ==
  {[entries |-> 0, bytes |-> 0, cancellable |-> FALSE],
   [entries |-> 2, bytes |-> 1, cancellable |-> TRUE]}

(* Vault: backups of a vault that decays, and restores of a file that is     *)
(* replaced; then racing intakes of two contents under one identity or title.*)

Intake(t, c, e, sound) ==
  [artifact |-> "a", title |-> t, content |-> c, expected |-> e, sound |-> sound]

OneIntake == {Intake("t", 1, 1, TRUE)}

Intakes ==
  OneIntake \cup
  {Intake("u", 1, 1, TRUE), Intake("t", 2, 2, TRUE), Intake("t", 2, 1, TRUE), Intake("t", 2, 2, FALSE)}

(* Repository identity: a freshness evaluation of a repository with three    *)
(* commits while it is moved; then a load, and then two racing creations.    *)

CommittedManifests == <<Nothing, "i", "j">>

Histories == <<{1}, {1, 2}, {1, 2, 3}>>

CommitsOfCheckouts == [d1 |-> 1 .. 3, d2 |-> 1 .. 2]

(* Imports: two writers of the bundles of two tasks, safe or not, under      *)
(* policies that fit or not; then two importers of a ledger its owner edits. *)

Exported(id, decisions, workstreams, safe) ==
  [id |-> id, summary |-> "s", decisions |-> decisions, research |-> {"s"},
   workstreams |-> workstreams, questions |-> {}, safe |-> safe]

Policy(selected, granted, expires, scope) ==
  [authorized |-> 1, expires |-> expires, scope |-> scope, sensitivity |-> "private",
   owner |-> TRUE, granted |-> granted, selected |-> selected]

Asked(task, policy) == [task |-> task, policy |-> policy]

BundlesAsked ==
  {Asked(Exported("t", {"d", "e"}, {}, TRUE), Policy("t", TRUE, 2, "local")),
   Asked(Exported("u", {"d"}, {"w"}, TRUE), Policy("u", TRUE, 2, "synthetic")),
   Asked(Exported("u", {"d"}, {"w"}, TRUE), Policy("t", TRUE, 2, "local")),
   Asked(Exported("t", {"d"}, {"w"}, TRUE), Policy("t", FALSE, 2, "local")),
   Asked(Exported("t", {}, {"w"}, TRUE), Policy("t", TRUE, 2, "local")),
   Asked(Exported("t", {"d"}, {"w"}, FALSE), Policy("t", TRUE, 2, "local")),
   Asked(Exported("t", {"d"}, {"w"}, TRUE), Policy("t", TRUE, 1, "local"))}

OneLedger == <<"a", "a">>

Ledgers == {OneLedger, <<"a", "b">>, <<"a", "bad">>, <<"b">>}

(* Adapters: a packet of one of three scans replaced while it is bound; then *)
(* two canonical records revised while a provider answers about them.        *)

Packet(id, gaps, facts) ==
  [scan |-> id, repo |-> "r", commit |-> 1, gaps |-> gaps, facts |-> facts, sound |-> TRUE]

OnePacket == Packet(1, FALSE, {1})

ThreePackets == {OnePacket, Packet(1, FALSE, {1, 2}), Packet(2, TRUE, {1})}

Wanted(selected) ==
  [source |-> TRUE, configuration |-> TRUE, rules |-> TRUE, repo |-> "r", commit |-> 1,
   selected |-> selected]

PacketsAsked == {Wanted({}), Wanted({2})}

Option(authorized, expects, disclosure, unavailable) ==
  [authorized |-> authorized, authority |-> FALSE, conflict |-> FALSE, sensitivity |-> TRUE,
   disclosure |-> disclosure, unavailable |-> unavailable, required |-> FALSE,
   expects |-> expects]

OptionsChosen ==
  {Option(TRUE, TRUE, TRUE, {1}), Option(TRUE, FALSE, TRUE, {}), Option(TRUE, FALSE, FALSE, {}),
   Option(FALSE, TRUE, TRUE, {})}

(* Archive: containers rewritten, removed or swapped while they are          *)
(* inspected; then one container of every small shape.                       *)

ZipEntry(path, kind, size, reads) ==
  [path |-> path, kind |-> kind, size |-> size, reads |-> reads, safe |-> TRUE,
   encrypted |-> FALSE]

Plain(path, size) == ZipEntry(path, "file", size, "whole")

FoldedEntries == <<1, 1, 3>>

Swapped ==
  {<<Plain(<<1>>, 1)>>, <<Plain(<<1>>, 1), Plain(<<3>>, 1)>>, <<Plain(<<1>>, 1), Plain(<<2>>, 1)>>}

EntryShapes ==
  {Plain(<<1>>, 1), Plain(<<2>>, 1), Plain(<<3>>, 2), Plain(<<1, 3>>, 1),
   ZipEntry(<<1>>, "directory", 0, "whole"), ZipEntry(<<1, 1>>, "directory", 0, "whole"),
   ZipEntry(<<3>>, "link", 0, "whole"), ZipEntry(<<3>>, "file", 1, "corrupt"),
   ZipEntry(<<3, 1>>, "file", 1, "unsupported-compression"),
   [Plain(<<3>>, 1) EXCEPT !.safe = FALSE], [Plain(<<3>>, 1) EXCEPT !.encrypted = TRUE]}

Shapes ==
  {<<>>, <<Plain(<<1>>, 1), Plain(<<3>>, 1), Plain(<<3, 3>>, 1)>>}
  \cup {<<a>> : a \in EntryShapes} \cup {<<a, b>> : a \in EntryShapes, b \in EntryShapes}

SwappedAndShapes == Swapped \cup Shapes

(* Release: one preparation, verification and attestation while repository,  *)
(* keys and assets change twice; then two preparers of one output.           *)

HandMadeManifests ==
  {[commit |-> 1, key |-> "o", archive |-> <<"archive", 2>>, notes |-> <<"notes", 1>>]}

\* The hypotheses of the theorems about these components.
ASSUME StoresConstants

-----------------------------------------------------------------------------
(* Which of the cases above a setting has.  In the first, retention has three *)
(* observations of two locations, and in the second two receipts of a         *)
(* deletion.  Installation, scans and custody have one setting.               *)

FirstSetting ==
  /\ part = "vault" =>
       /\ worker["w2"] = VaultStore!Idle /\ calls <= 2
       /\ worker["w1"].request \in OneIntake \cup {Nothing}
       /\ \A t \in heard : t.request \in OneIntake
  /\ part = "repository" => \A p \in Creator \cup Reader : process[p] = RepoIdentity!Idle
  /\ part = "imports" => log = OneLedger /\ edits = 0 /\ imports = 0
  /\ part = "adapters" => asked = {} /\ \A r \in RecordId : record[r].revision = 0
  /\ part = "archive" => \A i \in Inode : contents[i] \in Swapped \cup {Broken}
  /\ part = "release" => preparer["q"] = Release!Idle
  /\ part = "retention" => deletions = {}

SecondSetting ==
  /\ part \in {"vault", "repository", "imports", "adapters", "archive", "release", "retention"}
  /\ part = "vault" => backup.generation = 0
  /\ part = "repository" => \A p \in Creator \cup Evaluator : process[p] = RepoIdentity!Idle
  /\ part = "imports" => \A p \in Bundler : bundler[p] = Imports!Idle
  /\ part = "adapters" =>
       /\ writes = 0 /\ \A p \in Adapter : adapter[p] = Adapters!Idle
       /\ \A n \in Adapters!Artifacts : file[n] = OnePacket
  /\ part = "archive" =>
       swaps = 0 /\ inode = 1 /\ contents[1] \in Shapes \cup {Broken} /\ contents[2] = Broken
  /\ part = "release" =>
       /\ steps <= 1 /\ signers = {"o"} /\ verified = {}
       /\ tag # Missing => tag.signer = "o"
       /\ \A m \in HandMade :
            /\ staged["release-manifest.json"] # <<"manifest", m>>
            /\ staged["SHA256SUMS"] # Release!SumsOf(m)
  /\ part = "retention" => observations = <<>> \/ (Len(observations) = 1 /\ deletions = {})

ThirdSetting ==
  /\ part = "repository" /\ changes <= 1
  /\ \A p \in Reader \cup Evaluator : process[p] = RepoIdentity!Idle
  /\ \A d \in Directory : head[d] = 1

WithinSetting ==
  /\ setting = "first" => FirstSetting
  /\ setting = "second" => SecondSetting
  /\ setting = "third" => ThirdSetting

MCInit == StoresInit /\ setting \in {"first", "second", "third"} /\ WithinSetting

\* What the setting excludes by the thousand is not tried.
MCNext ==
  /\ IF part = "retention" /\ setting = "first"
     THEN /\ \E o \in Retention!Observation : Retention!Arrive(o)
          /\ UNCHANGED ButRetention
     ELSE StoresNext
  /\ UNCHANGED setting /\ WithinSetting'

MCSpec == MCInit /\ [][MCNext]_<<setting, storesVars>>
=============================================================================
