---------------------------- MODULE Stores_proofs ----------------------------
(***************************************************************************)
(* Proofs about what is written to disk for good: ImmutableStore,          *)
(* VaultStore, RepoIdentity, Imports, Release and Custody; and about       *)
(* Stores, which composes them with others.                                *)
(*                                                                         *)
(* ImmutableStore, for any number of writers, paths and contents, and for  *)
(* process deaths and power failures anywhere. A temporary file is whole   *)
(* before it is synced and synced before it gets a final name, so whatever *)
(* a power failure keeps of a name is whole. No call replaces an immutable *)
(* path, so the bytes a writer found or linked there stay; and the         *)
(* directory is synced before an outcome is returned, so they stay across  *)
(* power failures too.  The installation is therefore the step its link or *)
(* rename is, and to everybody else the one step of AtomicFiles.           *)
(*                                                                         *)
(* VaultStore, for any number of intakes, requests, damages and backups.   *)
(* Its records are installed once and only objects rot, so an intake that  *)
(* wrote or found its own records finds them for ever. A copy is made of   *)
(* files the vault held, and a restore that succeeds compared the copy it  *)
(* decrypted with the manifest of the receipt.                             *)
(*                                                                         *)
(* RepoIdentity, for any number of checkouts, commits and racing calls. A  *)
(* manifest is linked only where there is none, so the one a creator was   *)
(* told of stays until somebody edits it; the other calls answer from the  *)
(* commit they pinned, which names its content for ever.                   *)
(*                                                                         *)
(* Imports, for any ledgers, importers and bundles. An import that looked  *)
(* at every file holds the lock until it wrote the last, so what it        *)
(* expects of an untouched file is what it finds; the records of a ledger  *)
(* are all different and each comes after the earlier occurrences of its   *)
(* entry, so they are written in an order that an interruption anywhere    *)
(* leaves closed.                                                          *)
(*                                                                         *)
(* Release, for any commits, manifests and keys. A verification takes two  *)
(* snapshots of the staged files, and alike snapshots, with nothing that   *)
(* came back, mean that nothing was rewritten between, where each file was *)
(* compared with what the tagged commit makes.                             *)
(*                                                                         *)
(* Custody, for any documents. A migration carries no authorization over,  *)
(* so a preflight that says ready read an endpoint its owner filled in.    *)
(*                                                                         *)
(* Stores. A behaviour that has chosen a part is a behaviour of that part, *)
(* because the others rest.                                                *)
(***************************************************************************)
EXTENDS Stores, FiniteSetTheorems, SequenceTheorems, WellFoundedInduction, TLAPS

-----------------------------------------------------------------------------
(***************************************************************************)
(* The inductive invariant                                                 *)
(***************************************************************************)
ReportType == [path : Path, data : Data, outcome : Outcomes]

Typed ==
  /\ visible \in [Path -> File \cup {None}]
  /\ durable \in [Path -> File \cup {None}]
  /\ writer \in [Writer -> CallType]
  /\ told \subseteq ReportType
  /\ failures \in 0 .. MaxFailures

\* A file under a final name is whole and survives a power failure whole.
Settled(f) == f # None => f.whole = TRUE /\ f.synced = TRUE

Stored(f, d) == f # None /\ f.data = d

Differs(f, d) == f # None /\ f.data # d

Kept == {"created", "duplicate"}

\* How far a call q has come; file is what its path names.
CallOK(q, names) ==
  /\ q.pc # "idle" => q.path \in Path /\ q.temp \in File
  /\ q.pc \in {"sync", "install", "syncdir"} => q.temp.whole = TRUE
  /\ q.pc \in {"install", "syncdir"} => q.temp.synced = TRUE
  /\ q.pc = "syncdir" =>
       /\ q.outcome \in Outcomes
       /\ q.outcome # "found"
       /\ q.outcome \in Kept =>
            q.path \in Immutable /\ Stored(names[q.path], q.temp.data)
       /\ q.outcome = "collision" =>
            q.path \in Immutable /\ Differs(names[q.path], q.temp.data)
       /\ q.outcome = "replaced" => q.path \in Slot

\* What a report promises.
ReportOK(t, names, disk, n) ==
  /\ t.outcome \in Kept \cup {"found"} => t.path \in Immutable
  /\ t.outcome \in Kept => Stored(names[t.path], t.data) /\ Stored(disk[t.path], t.data)
  /\ t.outcome = "found" /\ n = 0 => Stored(names[t.path], t.data)

StoreInv ==
  /\ Typed
  /\ \A p \in Path : Settled(visible[p]) /\ Settled(durable[p])
  /\ \A p \in Immutable : durable[p] # None => Stored(visible[p], durable[p].data)
  /\ \A w \in Writer : CallOK(writer[w], visible)
  /\ \A t \in told : ReportOK(t, visible, durable, failures)

-----------------------------------------------------------------------------
(***************************************************************************)
(* Lemmas                                                                  *)
(***************************************************************************)
LEMMA FileFields ==
  ASSUME NEW f \in File
  PROVE  f # None /\ f.data \in Data
  BY NoFileAssumption DEF File

LEMMA AfterFailure ==
  ASSUME NEW f \in File \cup {None}, Settled(f)
  PROVE  /\ AfterPowerFailure(f) = f
         /\ Settled(f)
  <1>1. CASE f = None
    BY <1>1 DEF AfterPowerFailure, Settled
  <1>2. CASE f # None
    <2>1. f.whole = TRUE /\ f.synced = TRUE
      BY <1>2 DEF Settled
    <2>2. [f EXCEPT !.whole = TRUE] = f
      BY <1>2, <2>1 DEF File
    <2> QED
      BY <1>2, <2>1, <2>2 DEF AfterPowerFailure
  <1> QED
    BY <1>1, <1>2

LEMMA IdleOK == Idle \in CallType /\ \A names : CallOK(Idle, names)
  BY DEF Idle, CallType, CallOK, Kept

\* A step that changes no file: one call goes on, or a report is added.
LEMMA CallStep ==
  ASSUME StoreInv, NEW w \in Writer, NEW s, s \in CallType, Goto(w, s),
         CallOK(s, visible), UNCHANGED <<visible, durable, told, failures>>
  PROVE  StoreInv'
  BY DEF StoreInv, Typed, Goto

\* A step that gives one path a file and lets one call go on.  An immutable
\* path was free, so nothing promised is changed.
LEMMA InstallStep ==
  ASSUME StoreInv, NEW w \in Writer, NEW s \in CallType, Goto(w, s),
         NEW p \in Path, NEW f \in File, Settled(f),
         p \in Immutable => visible[p] = None,
         visible' = [visible EXCEPT ![p] = f],
         CallOK(s, visible'), UNCHANGED <<durable, told, failures>>
  PROVE  StoreInv'
  <1>1. /\ visible' \in [Path -> File \cup {None}]
        /\ \A q \in Path : visible'[q] = IF q = p THEN f ELSE visible[q]
        /\ Immutable \subseteq Path
    BY DEF StoreInv, Typed, Path
  <1>2. /\ writer' \in [Writer -> CallType]
        /\ \A v \in Writer : writer'[v] = IF v = w THEN s ELSE writer[v]
    BY DEF StoreInv, Typed, Goto
  <1>3. \A q \in Immutable : \A d :
          /\ Stored(visible[q], d) => Stored(visible'[q], d)
          /\ Differs(visible[q], d) => Differs(visible'[q], d)
    BY <1>1 DEF Stored, Differs
  <1>4. \A v \in Writer : CallOK(writer'[v], visible')
    BY <1>2, <1>3 DEF StoreInv, CallOK
  <1>5. \A t \in told : ReportOK(t, visible', durable, failures)
    BY <1>3 DEF StoreInv, ReportOK
  <1> QED
    BY <1>1, <1>2, <1>3, <1>4, <1>5 DEF StoreInv, Typed

LEMMA WriteKeeps ==
  ASSUME StoreInv, NEW w \in Writer,
         \/ \E p \in Path, d \in Data : OpenTemporary(w, p, d)
         \/ FillTemporary(w) \/ SyncTemporary(w)
         \/ Link(w) \/ LinkExists(w) \/ Replace(w) \/ Die(w)
  PROVE  StoreInv'
  <1> DEFINE q == writer[w]
  <1>0. q \in CallType /\ CallOK(q, visible) /\ Typed
    BY DEF StoreInv, Typed
  <1>1. ASSUME NEW p \in Path, NEW d \in Data, OpenTemporary(w, p, d)
        PROVE  StoreInv'
    <2> DEFINE s == [Idle EXCEPT !.pc = "fill", !.path = p, !.temp = Started(d)]
    <2>1. Started(d) \in File
      BY DEF Started, File
    <2>2. /\ s \in CallType /\ s.pc = "fill" /\ s.path \in Path /\ s.temp \in File
          /\ Goto(w, s) /\ UNCHANGED <<visible, durable, told, failures>>
      BY <1>1, <2>1 DEF OpenTemporary, Idle, CallType
    <2> HIDE DEF s
    <2> QED
      BY <2>2, CallStep DEF CallOK
  <1>2. CASE FillTemporary(w)
    <2> DEFINE s == [q EXCEPT !.pc = "sync", !.temp.whole = TRUE]
    <2>1. /\ s \in CallType /\ s.pc = "sync" /\ s.path \in Path /\ s.temp \in File
          /\ s.temp.whole = TRUE
          /\ Goto(w, s) /\ UNCHANGED <<visible, durable, told, failures>>
      BY <1>0, <1>2 DEF FillTemporary, CallOK, CallType, File
    <2> HIDE DEF s
    <2> QED
      BY <2>1, CallStep DEF CallOK
  <1>3. CASE SyncTemporary(w)
    <2> DEFINE s == [q EXCEPT !.pc = "install", !.temp.synced = TRUE]
    <2>1. /\ s \in CallType /\ s.pc = "install" /\ s.path \in Path /\ s.temp \in File
          /\ s.temp.whole = TRUE /\ s.temp.synced = TRUE
          /\ Goto(w, s) /\ UNCHANGED <<visible, durable, told, failures>>
      BY <1>0, <1>3 DEF SyncTemporary, CallOK, CallType, File
    <2> HIDE DEF s
    <2> QED
      BY <2>1, CallStep DEF CallOK
  <1>4. ASSUME NEW outcome \in {"created", "replaced"}, q.pc = "install",
               Install(w, outcome),
               outcome = "created" => q.path \in Immutable,
               outcome = "replaced" => q.path \in Slot,
               q.path \in Immutable => visible[q.path] = None
        PROVE  StoreInv'
    <2> DEFINE s == [q EXCEPT !.pc = "syncdir", !.outcome = outcome]
    <2>1. /\ s \in CallType /\ s.pc = "syncdir" /\ s.path = q.path /\ s.temp = q.temp
          /\ s.outcome = outcome
      BY <1>0 DEF CallType, Outcomes
    <2>2. /\ q.path \in Path /\ q.temp \in File /\ Settled(q.temp)
          /\ q.temp.whole = TRUE /\ q.temp.synced = TRUE
      BY <1>0, <1>4 DEF CallOK, Settled
    <2>3. Goto(w, s) /\ visible' = [visible EXCEPT ![q.path] = q.temp]
      BY <1>4 DEF Install
    <2>4. visible'[q.path] = q.temp /\ q.temp # None
      BY <1>0, <2>2, <2>3, FileFields DEF Typed
    <2> HIDE DEF s
    <2>5. CallOK(s, visible')
      BY <1>4, <2>1, <2>2, <2>4 DEF CallOK, Kept, Stored, Outcomes
    <2> QED
      BY <1>4, <2>1, <2>2, <2>3, <2>5, InstallStep DEF Install
  <1>5. CASE Link(w)
    BY <1>4, <1>5 DEF Link
  <1>6. CASE Replace(w)
    BY <1>4, <1>6, StoreAssumption DEF Replace
  <1>7. CASE LinkExists(w)
    <2> DEFINE outcome == IF Same(visible[q.path], q.temp) THEN "duplicate" ELSE "collision"
               s == [q EXCEPT !.pc = "syncdir", !.outcome = outcome]
    <2>1. /\ q.pc = "install" /\ q.path \in Immutable /\ visible[q.path] # None
          /\ Goto(w, s) /\ UNCHANGED <<visible, durable, told, failures>>
      BY <1>7 DEF LinkExists
    <2>2. /\ outcome \in {"duplicate", "collision"}
          /\ outcome = "duplicate" => Stored(visible[q.path], q.temp.data)
      BY <2>1 DEF Same, Stored
    <2>5. outcome = "collision" => Differs(visible[q.path], q.temp.data)
      <3>1. visible[q.path].whole = TRUE /\ q.temp.whole = TRUE
        BY <1>0, <2>1 DEF StoreInv, Settled, CallOK, Path
      <3> QED
        BY <2>1, <3>1 DEF Same, Differs
    <2> HIDE DEF outcome
    <2>3. /\ s \in CallType /\ s.pc = "syncdir" /\ s.path = q.path /\ s.temp = q.temp
          /\ s.outcome = outcome
      BY <1>0, <2>2 DEF CallType, Outcomes
    <2> HIDE DEF s
    <2>4. CallOK(s, visible)
      BY <1>0, <2>1, <2>2, <2>3, <2>5 DEF CallOK, Kept, Outcomes
    <2> QED
      BY <2>1, <2>3, <2>4, CallStep
  <1>8. CASE Die(w)
    BY <1>8, IdleOK, CallStep DEF Die
  <1> QED
    BY <1>1, <1>2, <1>3, <1>5, <1>6, <1>7, <1>8

\* What is found is what is there; only a power failure takes it away.
LEMMA FoundKeeps ==
  ASSUME StoreInv, NEW w \in Writer, NEW p \in Path, NEW d \in Data,
         FoundExisting(w, p, d)
  PROVE  StoreInv'
  <1> DEFINE outcome == IF Same(visible[p], Whole(d)) THEN "found" ELSE "collision"
             t == Report(p, d, outcome)
  <1>1. /\ p \in Immutable /\ visible[p] # None /\ told' = told \cup {t}
        /\ UNCHANGED <<visible, durable, writer, failures>>
    BY DEF FoundExisting
  <1>2. outcome \in {"found", "collision"}
    OBVIOUS
  <1>3. outcome = "found" => Stored(visible[p], d)
    BY <1>1 DEF Same, Whole, Stored
  <1> HIDE DEF outcome
  <1>4. t \in ReportType /\ t.path = p /\ t.data = d /\ t.outcome = outcome
    BY <1>2 DEF Report, ReportType, Outcomes
  <1> HIDE DEF t
  <1>5. ReportOK(t, visible, durable, failures)
    BY <1>1, <1>2, <1>3, <1>4 DEF ReportOK, Kept
  <1> QED
    BY <1>1, <1>4, <1>5 DEF StoreInv, Typed

LEMMA ReturnKeeps ==
  ASSUME StoreInv, NEW w \in Writer, Return(w)
  PROVE  StoreInv'
  <1> DEFINE q == writer[w]
             p == q.path
             t == Report(p, q.temp.data, q.outcome)
  <1>1. /\ q.pc = "syncdir" /\ durable' = [durable EXCEPT ![p] = visible[p]]
        /\ told' = told \cup {t} /\ Goto(w, Idle)
        /\ UNCHANGED <<visible, failures>>
    BY DEF Return
  <1>2. /\ p \in Path /\ q.temp \in File /\ q.outcome \in Outcomes /\ q.outcome # "found"
        /\ q.outcome \in Kept => p \in Immutable /\ Stored(visible[p], q.temp.data)
    BY <1>1 DEF StoreInv, CallOK
  <1>3. t \in ReportType /\ t.path = p /\ t.data = q.temp.data /\ t.outcome = q.outcome
    BY <1>2, FileFields DEF Report, ReportType
  <1> HIDE DEF t
  <1>4. /\ durable' \in [Path -> File \cup {None}]
        /\ \A x \in Path : durable'[x] = IF x = p THEN visible[x] ELSE durable[x]
        /\ Immutable \subseteq Path
    BY <1>1, <1>2 DEF StoreInv, Typed, Path
  <1>5. /\ writer' \in [Writer -> CallType]
        /\ \A v \in Writer : writer'[v] = IF v = w THEN Idle ELSE writer[v]
    BY <1>1, IdleOK DEF StoreInv, Typed, Goto
  <1>6. ReportOK(t, visible, durable', failures)
    BY <1>2, <1>3, <1>4 DEF ReportOK
  <1>7. ASSUME NEW u \in told
        PROVE  ReportOK(u, visible, durable', failures)
    BY <1>4, <1>7 DEF StoreInv, ReportOK
  <1>8. \A x \in Immutable : durable'[x] # None => Stored(visible[x], durable'[x].data)
    BY <1>4 DEF StoreInv, Stored
  <1> QED
    BY <1>1, <1>3, <1>4, <1>5, <1>6, <1>7, <1>8, IdleOK DEF StoreInv, Typed

LEMMA FailureKeeps ==
  ASSUME StoreInv, PowerFailure
  PROVE  StoreInv'
  <1>1. PICK survive \in SUBSET Path :
          visible' = [p \in Path |-> AfterPowerFailure(IF p \in survive THEN visible[p]
                                                       ELSE durable[p])]
    BY DEF PowerFailure
  <1>2. \A p \in Path : visible'[p] = IF p \in survive THEN visible[p] ELSE durable[p]
    BY <1>1, AfterFailure DEF StoreInv, Typed
  <1>3. visible' \in [Path -> File \cup {None}]
    BY <1>1, <1>2 DEF StoreInv, Typed
  <1>4. /\ durable' = visible' /\ told' = told
        /\ writer' = [w \in Writer |-> Idle]
        /\ failures' = failures + 1 /\ failures < MaxFailures
    BY DEF PowerFailure
  <1>5. failures' \in 0 .. MaxFailures /\ failures' # 0
    BY <1>4, StoreAssumption DEF StoreInv, Typed
  <1>6. ASSUME NEW t \in told
        PROVE  ReportOK(t, visible', durable', failures')
    <2>1. Immutable \subseteq Path
      BY DEF Path
    <2> QED
      BY <1>2, <1>4, <1>5, <2>1 DEF StoreInv, ReportOK
  <1>7. \A p \in Immutable : durable'[p] # None => Stored(visible'[p], durable'[p].data)
    BY <1>4 DEF Stored
  <1> QED
    BY <1>2, <1>3, <1>4, <1>5, <1>6, <1>7, IdleOK DEF StoreInv, Typed

LEMMA NextKeeps ==
  ASSUME StoreInv, [Next]_vars
  PROVE  StoreInv'
  <1>1. CASE UNCHANGED vars
    BY <1>1 DEF vars, StoreInv, Typed
  <1> QED
    BY <1>1, WriteKeeps, FoundKeeps, ReturnKeeps, FailureKeeps DEF Next

LEMMA InitKeeps == Init => StoreInv
  <1> SUFFICES ASSUME Init PROVE StoreInv
    OBVIOUS
  <1>1. Typed
    BY IdleOK, StoreAssumption DEF Init, Typed
  <1>2. \A p \in Path : visible[p] = None /\ durable[p] = None
    BY DEF Init
  <1>3. Immutable \subseteq Path
    BY DEF Path
  <1>4. \A w \in Writer : CallOK(writer[w], visible)
    BY IdleOK DEF Init
  <1> QED
    BY <1>1, <1>2, <1>3, <1>4 DEF Init, StoreInv, Settled

LEMMA StoreInvHolds == Spec => []StoreInv
  BY InitKeeps, NextKeeps, PTL DEF Spec

-----------------------------------------------------------------------------
(***************************************************************************)
(* The theorems                                                            *)
(***************************************************************************)

(***************************************************************************)
(* Every variable keeps its type.                                          *)
(***************************************************************************)
THEOREM TypeCorrect == Spec => []TypeOK
  <1>1. ASSUME StoreInv
        PROVE  TypeOK
    <2>1. \A w \in Writer : /\ writer[w].pc # "idle" => writer[w].path \in Path /\ writer[w].temp \in File
                            /\ writer[w].pc = "syncdir" => writer[w].outcome \in Outcomes
      BY <1>1 DEF StoreInv, CallOK
    <2> QED
      BY <1>1, <2>1 DEF StoreInv, Typed, ReportType, TypeOK
  <1> QED
    BY <1>1, StoreInvHolds, PTL

(***************************************************************************)
(* A final name never shows a partly written file: _write_immutable and    *)
(* _write_atomic fill and sync a temporary file first.                     *)
(***************************************************************************)
THEOREM NamesShowWholeFiles == Spec => []ReadersSeeWhole
  <1>1. StoreInv => ReadersSeeWhole
    BY DEF StoreInv, Settled, ReadersSeeWhole
  <1> QED
    BY <1>1, StoreInvHolds, PTL

(***************************************************************************)
(* What _write_immutable answered stays true, across power failures for    *)
(* the answers given after the directory was synced.                       *)
(***************************************************************************)
THEOREM ReportsStayTrue == Spec => []ToldIsStored
  <1>1. StoreInv => ToldIsStored
    BY DEF StoreInv, ReportOK, Stored, Kept, ToldIsStored
  <1> QED
    BY <1>1, StoreInvHolds, PTL

(***************************************************************************)
(* No step gives an immutable path other bytes, power failures included.   *)
(***************************************************************************)
NeverReplaced ==
  [][\A p \in Immutable : visible[p] # None /\ visible'[p] # None =>
       visible'[p].data = visible[p].data]_vars

LEMMA StepReplacesNothing ==
  ASSUME StoreInv, [Next]_vars, NEW p \in Immutable, visible[p] # None, visible'[p] # None
  PROVE  visible'[p].data = visible[p].data
  <1>0. p \in Path
    BY DEF Path
  <1>1. CASE visible' = visible
    BY <1>1
  <1>2. ASSUME NEW w \in Writer, Link(w)
        PROVE  visible'[p].data = visible[p].data
    BY <1>0, <1>2 DEF Link, Install, StoreInv, Typed
  <1>3. ASSUME NEW w \in Writer, Replace(w)
        PROVE  visible'[p].data = visible[p].data
    BY <1>0, <1>3, StoreAssumption DEF Replace, Install, StoreInv, Typed
  <1>4. CASE PowerFailure
    <2>1. PICK survive \in SUBSET Path :
            visible' = [x \in Path |-> AfterPowerFailure(IF x \in survive THEN visible[x]
                                                         ELSE durable[x])]
      BY <1>4 DEF PowerFailure
    <2>2. visible'[p] = IF p \in survive THEN visible[p] ELSE durable[p]
      BY <1>0, <2>1, AfterFailure DEF StoreInv, Typed
    <2> QED
      BY <2>2 DEF StoreInv, Stored
  <1> QED
    BY <1>1, <1>2, <1>3, <1>4
    DEF Next, vars, FoundExisting, OpenTemporary, FillTemporary, SyncTemporary,
        LinkExists, Return, Die

(***************************************************************************)
(* A record, receipt or retained label is immutable once it is visible.    *)
(***************************************************************************)
THEOREM ImmutableStays == Spec => NeverReplaced
  <1>1. StoreInv /\ [Next]_vars =>
          [\A p \in Immutable : visible[p] # None /\ visible'[p] # None =>
             visible'[p].data = visible[p].data]_vars
    BY StepReplacesNothing
  <1> QED
    BY <1>1, StoreInvHolds, PTL DEF Spec, NeverReplaced

-----------------------------------------------------------------------------
(***************************************************************************)
(* ImmutableStore implements AtomicFiles                                   *)
(***************************************************************************)
LEMMA SettledReads ==
  ASSUME NEW f \in File \cup {None}, Settled(f)
  PROVE  /\ ReadAs(f) = IF f = None THEN None ELSE f.data
         /\ \A d \in Data : Stored(f, d) => ReadAs(f) = d
         /\ \A d \in Data : Differs(f, d) => ReadAs(f) \notin {None, d}
         /\ ReadAs(f) = None => f = None
  BY FileFields, StoreAssumption DEF ReadAs, Settled, Stored, Differs

LEMMA InstallIsPut ==
  ASSUME StoreInv, NEW w \in Writer, writer[w].pc = "install", NEW outcome,
         writer[w].path \in Immutable => visible[writer[w].path] = None,
         Install(w, outcome)
  PROVE  Atomic!Next
  <1> DEFINE p == writer[w].path
             f == writer[w].temp
  <1>1. /\ p \in Path /\ f \in File /\ f.whole = TRUE
        /\ visible \in [Path -> File \cup {None}]
    BY DEF StoreInv, CallOK, Typed
  <1>2. f.data \in Data /\ ReadAs(f) = f.data
    BY <1>1, FileFields DEF ReadAs
  <1>3. /\ \A q \in Path : visible'[q] = IF q = p THEN f ELSE visible[q]
        /\ UNCHANGED <<durable, told>>
    BY <1>1 DEF Install
  <1>4. [q \in Path |-> ReadAs(visible'[q])]
          = [[q \in Path |-> ReadAs(visible[q])] EXCEPT ![p] = f.data]
    BY <1>1, <1>2, <1>3
  <1>5. p \in Immutable => ReadAs(visible[p]) = None
    BY DEF ReadAs
  <1>6. Atomic!Put(p, f.data)
    BY <1>1, <1>3, <1>4, <1>5 DEF Atomic!Put
  <1> QED
    BY <1>1, <1>2, <1>6 DEF Atomic!Next, Atomic!Path, Path

LEMMA ReturnIsAnswer ==
  ASSUME StoreInv, NEW w \in Writer, Return(w)
  PROVE  Atomic!Next
  <1> DEFINE q == writer[w]
             p == q.path
             d == q.temp.data
             outcome == q.outcome
  <1>1. /\ q.pc = "syncdir" /\ durable' = [durable EXCEPT ![p] = visible[p]]
        /\ told' = told \cup {Report(p, d, outcome)} /\ visible' = visible
    BY DEF Return
  <1>2. /\ p \in Path /\ d \in Data /\ outcome \in Outcomes /\ outcome # "found"
        /\ outcome \in Kept => p \in Immutable /\ Stored(visible[p], d)
        /\ outcome = "collision" => p \in Immutable /\ Differs(visible[p], d)
        /\ outcome = "replaced" => p \in Slot
    BY <1>1, FileFields DEF StoreInv, CallOK
  <1>3. /\ visible[p] \in File \cup {None} /\ Settled(visible[p])
        /\ durable \in [Path -> File \cup {None}]
    BY <1>2 DEF StoreInv, Typed
  <1>4. Atomic!Honest(p, d, outcome)
    BY <1>2, <1>3, SettledReads DEF Atomic!Honest, Outcomes, Kept
  <1>5. [x \in Path |-> ReadAs(durable'[x])]
          = [[x \in Path |-> ReadAs(durable[x])] EXCEPT ![p] = ReadAs(visible[p])]
    BY <1>1, <1>2, <1>3
  <1>6. [x \in Path |-> ReadAs(visible[x])][p] = ReadAs(visible[p])
    BY <1>2
  <1>7. Atomic!Tell(p, d, outcome)
    BY <1>1 DEF Atomic!Tell, Report
  <1>8. Atomic!Answer(p, d, outcome)
    BY <1>1, <1>2, <1>4, <1>5, <1>6, <1>7 DEF Atomic!Answer
  <1> QED
    BY <1>2, <1>8 DEF Atomic!Next, Atomic!Path, Path, Atomic!Outcomes, Outcomes

LEMMA FoundIsFind ==
  ASSUME StoreInv, NEW w \in Writer, NEW p \in Path, NEW d \in Data,
         FoundExisting(w, p, d)
  PROVE  Atomic!Next
  <1> DEFINE outcome == IF Same(visible[p], Whole(d)) THEN "found" ELSE "collision"
  <1>1. /\ p \in Immutable /\ visible[p] # None
        /\ told' = told \cup {Report(p, d, outcome)}
        /\ UNCHANGED <<visible, durable>>
    BY DEF FoundExisting
  <1>2. visible[p] \in File \cup {None} /\ Settled(visible[p])
    BY DEF StoreInv, Typed
  <1>3. visible[p].whole = TRUE
    BY <1>1, <1>2 DEF Settled
  <1>4. /\ outcome \in {"found", "collision"}
        /\ outcome = "found" => Stored(visible[p], d)
        /\ outcome = "collision" => Differs(visible[p], d)
    BY <1>1, <1>3 DEF Same, Whole, Stored, Differs
  <1> HIDE DEF outcome
  <1>5. Atomic!Honest(p, d, outcome)
    BY <1>1, <1>2, <1>4, SettledReads DEF Atomic!Honest
  <1>6. Atomic!Tell(p, d, outcome)
    BY <1>1 DEF Atomic!Tell, Report
  <1>7. Atomic!Find(p, d, outcome)
    BY <1>1, <1>4, <1>5, <1>6 DEF Atomic!Find
  <1> QED
    BY <1>4, <1>7 DEF Atomic!Next, Atomic!Path, Path, Atomic!Outcomes

LEMMA FailureIsFailure ==
  ASSUME StoreInv, PowerFailure
  PROVE  Atomic!Next
  <1>1. PICK survive \in SUBSET Path :
          visible' = [p \in Path |-> AfterPowerFailure(IF p \in survive THEN visible[p]
                                                       ELSE durable[p])]
    BY DEF PowerFailure
  <1>2. \A p \in Path : visible'[p] = IF p \in survive THEN visible[p] ELSE durable[p]
    BY <1>1, AfterFailure DEF StoreInv, Typed
  <1>3. durable' = visible' /\ told' = told
    BY DEF PowerFailure
  <1>4. [p \in Path |-> ReadAs(visible'[p])]
          = [p \in Path |-> IF p \in survive THEN [x \in Path |-> ReadAs(visible[x])][p]
                            ELSE [x \in Path |-> ReadAs(durable[x])][p]]
    BY <1>2
  <1>5. Atomic!PowerFailure
    BY <1>3, <1>4 DEF Atomic!PowerFailure, Atomic!Path, Path
  <1> QED
    BY <1>5 DEF Atomic!Next

LEMMA StepIsAtomic ==
  ASSUME StoreInv, [Next]_vars
  PROVE  [Atomic!Next]_(Atomic!vars)
  <1>1. CASE UNCHANGED <<visible, durable, told>>
    BY <1>1 DEF Atomic!vars
  <1>2. ASSUME NEW w \in Writer, Link(w)
        PROVE  Atomic!Next
    BY <1>2, InstallIsPut DEF Link
  <1>3. ASSUME NEW w \in Writer, Replace(w)
        PROVE  Atomic!Next
    BY <1>3, InstallIsPut, StoreAssumption DEF Replace
  <1> QED
    BY <1>1, <1>2, <1>3, ReturnIsAnswer, FoundIsFind, FailureIsFailure
    DEF Next, vars, OpenTemporary, FillTemporary, SyncTemporary, LinkExists, Die

(***************************************************************************)
(* Whoever calls _write_immutable or _write_atomic may count on files that *)
(* are written in one step: the system calls between, other writers, dying *)
(* processes and a power failure show nothing else.                        *)
(***************************************************************************)
THEOREM InstallationIsAtomic == Spec => ImplementsAtomicFiles
  <1>1. Init => Atomic!Init
    <2> SUFFICES ASSUME Init PROVE Atomic!Init
      OBVIOUS
    <2>1. \A p \in Path : ReadAs(visible[p]) = None /\ ReadAs(durable[p]) = None
      BY DEF Init, ReadAs
    <2> QED
      BY <2>1 DEF Init, Atomic!Init, Atomic!Path, Path
  <1>2. StoreInv /\ [Next]_vars => [Atomic!Next]_(Atomic!vars)
    BY StepIsAtomic
  <1> QED
    BY <1>1, <1>2, StoreInvHolds, PTL DEF Spec, ImplementsAtomicFiles, Atomic!Spec

-----------------------------------------------------------------------------
(***************************************************************************)
(* VaultStore: the inductive invariant                                     *)
(***************************************************************************)
Shelved ==
  /\ files = [n \in VaultStore!Name |-> files[n]]
  /\ \A n \in VaultStore!Name : files[n] = Nothing \/ <<n, files[n]>> \in seen
  /\ worker \in [Worker -> VaultStore!IntakeType]
  /\ heard \subseteq VaultStore!AnswerType
  /\ backup \in VaultStore!BackupType
  /\ backup.step = "copy" => backup.generation # 0
  /\ media \in VaultStore!MediaType \cup {Nothing}
  /\ receipts \subseteq VaultStore!ReceiptType
  /\ restore \in VaultStore!RestoreType

\* The first record of an intake is in the vault, and both are once it succeeded.
Described(r, vault) == vault[VaultStore!ArtifactFile(r.artifact)] = VaultStore!ArtifactBody(r)

Versioned(r, vault) == vault[VaultStore!VersionFile(r.artifact)] = VaultStore!VersionBody(r)

IntakeOK(q, vault) ==
  /\ q.step # "idle" => q.request \in Requests /\ q.registration \in VaultStore!Success
  /\ q.step = "version" => Described(q.request, vault)

VaultStoreInv ==
  /\ Shelved
  /\ \A w \in Worker : IntakeOK(worker[w], files)
  /\ VaultStore!IntakesAgree
  /\ restore.step = "decrypt" => media \in VaultStore!MediaType /\ restore.outcome # "restored"
  /\ VaultStore!RestoredAsReceipted

LEMMA NamesOfRecords ==
  ASSUME NEW r \in Requests
  PROVE  /\ VaultStore!ArtifactFile(r.artifact) \in VaultStore!Name
         /\ VaultStore!VersionFile(r.artifact) \in VaultStore!Name
         /\ VaultStore!Object(r.content) \in VaultStore!Name
         /\ VaultStore!Quarantined(r.content) \in VaultStore!Name
  BY DEF VaultStore!Name, VaultStore!Artifacts, VaultStore!Contents

\* An installation replaces nothing.
LEMMA InstallFacts ==
  ASSUME Shelved, NEW n \in VaultStore!Name, NEW bytes, VaultStore!Install(n, bytes)
  PROVE  /\ files' = [m \in VaultStore!Name |-> files'[m]]
         /\ \A m \in VaultStore!Name : files'[m] = Nothing \/ <<m, files'[m]>> \in seen'
         /\ seen \subseteq seen'
         /\ \A m \in VaultStore!Name : files[m] # Nothing => files'[m] = files[m]
         /\ files[n] = Nothing \/ files[n] = bytes => files'[n] = bytes
  <1>1. CASE files[n] = Nothing
    <2>1. files' = [files EXCEPT ![n] = bytes] /\ seen' = seen \cup {<<n, bytes>>}
      BY <1>1 DEF VaultStore!Install, VaultStore!Put
    <2>2. files' = [m \in VaultStore!Name |-> IF m = n THEN bytes ELSE files[m]]
      BY <2>1 DEF Shelved
    <2> QED
      BY <1>1, <2>1, <2>2 DEF Shelved
  <1>2. CASE files[n] # Nothing
    BY <1>2 DEF VaultStore!Install, Shelved
  <1> QED
    BY <1>1, <1>2

\* A record that is in the vault stays there.
LEMMA RecordsStay ==
  ASSUME VaultStore!BodiesExist, NEW r \in Requests,
         \A a \in VaultStore!Artifacts :
           /\ files[VaultStore!ArtifactFile(a)] # Nothing =>
                files'[VaultStore!ArtifactFile(a)] = files[VaultStore!ArtifactFile(a)]
           /\ files[VaultStore!VersionFile(a)] # Nothing =>
                files'[VaultStore!VersionFile(a)] = files[VaultStore!VersionFile(a)]
  PROVE  (Described(r, files) => Described(r, files')) /\ (Versioned(r, files) => Versioned(r, files'))
  BY DEF VaultStore!BodiesExist, Described, Versioned, VaultStore!Artifacts

\* Backups and restores see a vault whose history only grows.
LEMMA BackupsUntouched ==
  ASSUME VaultStoreInv, seen \subseteq seen', UNCHANGED <<backup, media, receipts, restore>>
  PROVE  /\ (backup \in VaultStore!BackupType /\ (backup.step = "copy" => backup.generation # 0))'
         /\ (media \in VaultStore!MediaType \cup {Nothing} /\ receipts \subseteq VaultStore!ReceiptType)'
         /\ (restore \in VaultStore!RestoreType)'
         /\ (restore.step = "decrypt" => media \in VaultStore!MediaType /\ restore.outcome # "restored")'
         /\ VaultStore!RestoredAsReceipted'
  <1>1. /\ backup \in VaultStore!BackupType' /\ (media \in VaultStore!MediaType => media \in VaultStore!MediaType')
        /\ receipts \subseteq VaultStore!ReceiptType'
    BY DEF VaultStoreInv, Shelved, VaultStore!BackupType, VaultStore!MediaType, VaultStore!ReceiptType
  <1>2. restore \in VaultStore!RestoreType'
    BY DEF VaultStoreInv, Shelved, VaultStore!RestoreType
  <1>3. VaultStore!RestoredAsReceipted'
    BY DEF VaultStoreInv, VaultStore!RestoredAsReceipted
  <1> QED
    BY <1>1, <1>2, <1>3 DEF VaultStoreInv, Shelved

\* A step of an intake: it may install a file and answer.
LEMMA IntakeStep ==
  ASSUME VaultStoreInv, VaultStore!BodiesExist, VaultStore!IntakeOnly,
         files' = [m \in VaultStore!Name |-> files'[m]],
         \A m \in VaultStore!Name : files'[m] = Nothing \/ <<m, files'[m]>> \in seen',
         seen \subseteq seen',
         \A m \in VaultStore!Name : files[m] # Nothing => files'[m] = files[m],
         NEW w \in Worker, NEW q \in VaultStore!IntakeType, IntakeOK(q, files'),
         worker' = [worker EXCEPT ![w] = q],
         NEW new \in SUBSET VaultStore!AnswerType, heard' = heard \cup new,
         \A t \in new : t.outcome \in VaultStore!Success =>
           Described(t.request, files') /\ Versioned(t.request, files')
  PROVE  VaultStoreInv'
  <1>1. UNCHANGED <<backup, media, receipts, restore>>
    BY DEF VaultStore!IntakeOnly
  <1>2. ASSUME NEW r \in Requests
        PROVE  (Described(r, files) => Described(r, files')) /\ (Versioned(r, files) => Versioned(r, files'))
    <2>1. \A a \in VaultStore!Artifacts :
            VaultStore!ArtifactFile(a) \in VaultStore!Name /\ VaultStore!VersionFile(a) \in VaultStore!Name
      BY DEF VaultStore!Name
    <2> QED
      BY <2>1, RecordsStay
  <1>3. Shelved'
    BY <1>1, BackupsUntouched DEF VaultStoreInv, Shelved
  <1>4. ASSUME NEW v \in Worker
        PROVE  IntakeOK(worker'[v], files')
    <2>1. worker'[v] = IF v = w THEN q ELSE worker[v]
      BY DEF VaultStoreInv, Shelved
    <2>2. IntakeOK(worker[v], files)
      BY DEF VaultStoreInv
    <2> QED
      BY <1>2, <2>1, <2>2 DEF IntakeOK
  <1>5. VaultStore!IntakesAgree'
    <2> SUFFICES ASSUME NEW t \in heard', t.outcome \in VaultStore!Success
                 PROVE  Described(t.request, files') /\ Versioned(t.request, files')
      BY DEF VaultStore!IntakesAgree, Described, Versioned
    <2>1. CASE t \in heard
      <3>1. t.request \in Requests /\ Described(t.request, files) /\ Versioned(t.request, files)
        BY <2>1 DEF VaultStoreInv, Shelved, VaultStore!AnswerType, VaultStore!IntakesAgree, Described, Versioned
      <3> QED
        BY <1>2, <3>1
    <2> QED
      BY <2>1
  <1> QED
    BY <1>1, <1>3, <1>4, <1>5, BackupsUntouched DEF VaultStoreInv

\* A step of an intake that does not answer.
LEMMA SilentStep ==
  ASSUME VaultStoreInv, VaultStore!BodiesExist, VaultStore!IntakeOnly,
         files' = [m \in VaultStore!Name |-> files'[m]],
         \A m \in VaultStore!Name : files'[m] = Nothing \/ <<m, files'[m]>> \in seen',
         seen \subseteq seen',
         \A m \in VaultStore!Name : files[m] # Nothing => files'[m] = files[m],
         NEW w \in Worker, NEW q \in VaultStore!IntakeType, IntakeOK(q, files'),
         worker' = [worker EXCEPT ![w] = q], heard' = heard
  PROVE  VaultStoreInv'
  <1>1. PICK new \in SUBSET VaultStore!AnswerType : new = {}
    OBVIOUS
  <1>2. heard' = heard \cup new /\ \A t \in new : FALSE
    BY <1>1
  <1> QED
    BY <1>2, IntakeStep

LEMMA IdleIntake == VaultStore!Idle \in VaultStore!IntakeType /\ \A vault : IntakeOK(VaultStore!Idle, vault)
  BY DEF VaultStore!Idle, VaultStore!IntakeType, IntakeOK

LEMMA QuarantineKeeps ==
  ASSUME VaultStoreInv, VaultStore!BodiesExist, NEW w \in Worker, NEW r \in Requests,
         VaultStore!Quarantine(w, r) \/ VaultStore!RefuseMetadata(w, r)
  PROVE  VaultStoreInv'
  <1>1. \E outcome \in {"failed", "quarantined"} :
          heard' = heard \cup {[request |-> r, outcome |-> outcome]}
    BY DEF VaultStore!Quarantine, VaultStore!RefuseMetadata
  <1>2. PICK outcome \in {"failed", "quarantined"} :
          heard' = heard \cup {[request |-> r, outcome |-> outcome]}
    BY <1>1
  <1>3. worker' = worker /\ VaultStore!IntakeOnly /\ worker[w].step = "idle"
    BY DEF VaultStore!Quarantine, VaultStore!RefuseMetadata
  <1>4. Shelved
    BY DEF VaultStoreInv
  <1>5. /\ files' = [m \in VaultStore!Name |-> files'[m]]
        /\ \A m \in VaultStore!Name : files'[m] = Nothing \/ <<m, files'[m]>> \in seen'
        /\ seen \subseteq seen'
        /\ \A m \in VaultStore!Name : files[m] # Nothing => files'[m] = files[m]
    <2>1. CASE VaultStore!Quarantine(w, r)
      BY <1>4, <2>1, InstallFacts, NamesOfRecords DEF VaultStore!Quarantine
    <2>2. CASE VaultStore!RefuseMetadata(w, r)
      BY <1>4, <2>2 DEF VaultStore!RefuseMetadata, Shelved
    <2> QED
      BY <2>1, <2>2
  <1>6. worker' = [worker EXCEPT ![w] = worker[w]] /\ worker[w] \in VaultStore!IntakeType
    BY <1>3, <1>4 DEF Shelved
  <1>7. IntakeOK(worker[w], files')
    BY <1>3 DEF IntakeOK
  <1> DEFINE reply == [request |-> r, outcome |-> outcome]
  <1>8. reply \in VaultStore!AnswerType /\ reply.outcome \notin VaultStore!Success
    BY DEF VaultStore!AnswerType, VaultStore!Success
  <1>9. heard' = heard \cup {reply}
    BY <1>2
  <1> HIDE DEF reply
  <1>10. {reply} \in SUBSET VaultStore!AnswerType /\ \A t \in {reply} : t.outcome \notin VaultStore!Success
    BY <1>8
  <1> QED
    BY <1>9, <1>10, <1>3, <1>5, <1>6, <1>7, IntakeStep

LEMMA RegisterKeeps ==
  ASSUME VaultStoreInv, VaultStore!BodiesExist, NEW w \in Worker, NEW r \in Requests, VaultStore!Register(w, r)
  PROVE  VaultStoreInv'
  <1> DEFINE state == VaultStore!Written(VaultStore!Object(r.content), r.content)
             started == [VaultStore!Idle EXCEPT !.step = "verify", !.request = r,
                           !.registration = IF state = "created" THEN "registered" ELSE state]
             failure == [request |-> r, outcome |-> "failed"]
  <1>1. /\ VaultStore!Install(VaultStore!Object(r.content), r.content)
        /\ IF state = "collision"
           THEN heard' = heard \cup {failure} /\ UNCHANGED worker
           ELSE worker' = [worker EXCEPT ![w] = started] /\ UNCHANGED heard
        /\ VaultStore!IntakeOnly /\ worker[w].step = "idle"
    BY DEF VaultStore!Register
  <1>2. Shelved /\ worker[w] \in VaultStore!IntakeType /\ worker' \in {worker, [worker EXCEPT ![w] = started]}
    BY <1>1 DEF VaultStoreInv, Shelved
  <1>3. /\ files' = [m \in VaultStore!Name |-> files'[m]]
        /\ \A m \in VaultStore!Name : files'[m] = Nothing \/ <<m, files'[m]>> \in seen'
        /\ seen \subseteq seen'
        /\ \A m \in VaultStore!Name : files[m] # Nothing => files'[m] = files[m]
    BY <1>1, <1>2, InstallFacts, NamesOfRecords
  <1>4. state \in {"created", "duplicate", "collision"}
    BY DEF VaultStore!Written
  <1>5. CASE state = "collision"
    <2>1. {failure} \in SUBSET VaultStore!AnswerType /\ failure.outcome \notin VaultStore!Success
      BY DEF VaultStore!AnswerType, VaultStore!Success
    <2>2. heard' = heard \cup {failure} /\ worker' = [worker EXCEPT ![w] = worker[w]]
      BY <1>1, <1>2, <1>5 DEF Shelved
    <2>3. IntakeOK(worker[w], files')
      BY <1>1 DEF IntakeOK
    <2> HIDE DEF failure
    <2> QED
      BY <1>1, <1>2, <1>3, <2>1, <2>2, <2>3, IntakeStep
  <1>6. CASE state # "collision"
    <2>1. /\ started \in VaultStore!IntakeType /\ started.step = "verify" /\ started.request = r
          /\ started.registration \in VaultStore!Success
      BY <1>4, <1>6 DEF VaultStore!Idle, VaultStore!IntakeType, VaultStore!Success
    <2>2. heard' = heard /\ worker' = [worker EXCEPT ![w] = started]
      BY <1>1, <1>6
    <2> HIDE DEF started
    <2>3. IntakeOK(started, files')
      BY <2>1 DEF IntakeOK
    <2> QED
      BY <1>1, <1>3, <2>1, <2>2, <2>3, SilentStep
  <1> QED
    BY <1>5, <1>6

LEMMA VerifyKeeps ==
  ASSUME VaultStoreInv, VaultStore!BodiesExist, NEW w \in Worker, VaultStore!Verify(w) \/ VaultStore!Die(w)
  PROVE  VaultStoreInv'
  <1> DEFINE failure == [request |-> worker[w].request, outcome |-> "failed"]
             passed == [worker[w] EXCEPT !.step = "artifact"]
  <1>1. /\ UNCHANGED <<files, seen>> /\ VaultStore!IntakeOnly /\ worker[w].step # "idle"
        /\ worker[w] \in VaultStore!IntakeType /\ IntakeOK(worker[w], files) /\ Shelved
    BY DEF VaultStore!Verify, VaultStore!Die, VaultStoreInv, Shelved
  <1>2. /\ files' = [m \in VaultStore!Name |-> files'[m]]
        /\ \A m \in VaultStore!Name : files'[m] = Nothing \/ <<m, files'[m]>> \in seen'
        /\ seen \subseteq seen'
        /\ \A m \in VaultStore!Name : files[m] # Nothing => files'[m] = files[m]
    BY <1>1 DEF Shelved
  <1>3. /\ \/ heard' = heard \cup {} \/ heard' = heard \cup {failure}
        /\ \/ worker' = [worker EXCEPT ![w] = passed]
           \/ worker' = [worker EXCEPT ![w] = VaultStore!Idle]
    BY <1>1 DEF VaultStore!Verify, VaultStore!Die, VaultStore!Answer, Shelved
  <1>4. passed \in VaultStore!IntakeType /\ IntakeOK(passed, files')
    BY <1>1 DEF VaultStore!IntakeType, IntakeOK
  <1>5. failure \in VaultStore!AnswerType /\ failure.outcome \notin VaultStore!Success
    BY <1>1 DEF VaultStore!AnswerType, VaultStore!Success, IntakeOK
  <1> HIDE DEF failure, passed
  <1>6. PICK q \in {passed, VaultStore!Idle} : worker' = [worker EXCEPT ![w] = q]
    BY <1>3
  <1>7. PICK new \in {{}, {failure}} : heard' = heard \cup new
    BY <1>3
  <1>8. /\ q \in VaultStore!IntakeType /\ IntakeOK(q, files') /\ new \in SUBSET VaultStore!AnswerType
        /\ \A t \in new : t.outcome \notin VaultStore!Success
    BY <1>4, <1>5, IdleIntake
  <1> QED
    BY <1>1, <1>2, <1>6, <1>7, <1>8, IntakeStep

LEMMA WriteArtifactKeeps ==
  ASSUME VaultStoreInv, VaultStore!BodiesExist, NEW w \in Worker, VaultStore!WriteArtifact(w)
  PROVE  VaultStoreInv'
  <1> DEFINE r == worker[w].request
             n == VaultStore!ArtifactFile(r.artifact)
             state == VaultStore!Written(n, VaultStore!ArtifactBody(r))
             failure == [request |-> r, outcome |-> "failed"]
             next == [worker[w] EXCEPT !.step = "version", !.states = {state}]
  <1>1. /\ worker[w] \in VaultStore!IntakeType /\ IntakeOK(worker[w], files) /\ Shelved
        /\ worker[w].step = "artifact" /\ r \in Requests /\ worker[w].registration \in VaultStore!Success
    BY DEF VaultStore!WriteArtifact, VaultStoreInv, Shelved, IntakeOK
  <1>2. VaultStore!Install(n, VaultStore!ArtifactBody(r)) /\ VaultStore!IntakeOnly
    BY DEF VaultStore!WriteArtifact
  <1>3. IF state = "collision"
        THEN heard' = heard \cup {failure} /\ worker' = [worker EXCEPT ![w] = VaultStore!Idle]
        ELSE worker' = [worker EXCEPT ![w] = next] /\ UNCHANGED heard
    BY <1>1 DEF VaultStore!WriteArtifact, VaultStore!Answer, Shelved
  <1>4. n \in VaultStore!Name
    BY <1>1, NamesOfRecords
  <1>5. /\ files' = [m \in VaultStore!Name |-> files'[m]]
        /\ \A m \in VaultStore!Name : files'[m] = Nothing \/ <<m, files'[m]>> \in seen'
        /\ seen \subseteq seen'
        /\ \A m \in VaultStore!Name : files[m] # Nothing => files'[m] = files[m]
        /\ files[n] = Nothing \/ files[n] = VaultStore!ArtifactBody(r) => files'[n] = VaultStore!ArtifactBody(r)
    BY <1>1, <1>2, <1>4, InstallFacts
  <1>6. CASE state = "collision"
    <2>1. {failure} \in SUBSET VaultStore!AnswerType /\ failure.outcome \notin VaultStore!Success
      BY <1>1 DEF VaultStore!AnswerType, VaultStore!Success
    <2>2. heard' = heard \cup {failure} /\ worker' = [worker EXCEPT ![w] = VaultStore!Idle]
      BY <1>3, <1>6
    <2> HIDE DEF failure
    <2> QED
      BY <1>2, <1>5, <2>1, <2>2, IdleIntake, IntakeStep
  <1>7. CASE state # "collision"
    <2>1. state \in {"created", "duplicate"} /\ (files[n] = Nothing \/ files[n] = VaultStore!ArtifactBody(r))
      BY <1>7 DEF VaultStore!Written
    <2>2. /\ next \in VaultStore!IntakeType /\ next.step = "version" /\ next.request = r
          /\ next.registration = worker[w].registration
      BY <1>1, <2>1 DEF VaultStore!IntakeType
    <2>3. Described(r, files')
      BY <1>5, <2>1 DEF Described
    <2>4. heard' = heard /\ worker' = [worker EXCEPT ![w] = next]
      BY <1>3, <1>7
    <2> HIDE DEF next, r
    <2>5. IntakeOK(next, files')
      BY <1>1, <2>2, <2>3 DEF IntakeOK
    <2> QED
      BY <1>2, <1>5, <2>2, <2>4, <2>5, SilentStep
  <1> QED
    BY <1>6, <1>7

LEMMA WriteVersionKeeps ==
  ASSUME VaultStoreInv, VaultStore!BodiesExist, NEW w \in Worker, VaultStore!WriteVersion(w)
  PROVE  VaultStoreInv'
  <1> DEFINE r == worker[w].request
             n == VaultStore!VersionFile(r.artifact)
             state == VaultStore!Written(n, VaultStore!VersionBody(r))
             outcome == IF state = "collision" THEN "failed"
                        ELSE VaultStore!Concluded(w, worker[w].states \cup {state})
             reply == [request |-> r, outcome |-> outcome]
  <1>1. /\ worker[w] \in VaultStore!IntakeType /\ IntakeOK(worker[w], files) /\ Shelved
        /\ worker[w].step = "version" /\ r \in Requests /\ worker[w].registration \in VaultStore!Success
        /\ Described(r, files)
    BY DEF VaultStore!WriteVersion, VaultStoreInv, Shelved, IntakeOK
  <1>2. /\ VaultStore!Install(n, VaultStore!VersionBody(r)) /\ VaultStore!IntakeOnly
        /\ heard' = heard \cup {reply} /\ worker' = [worker EXCEPT ![w] = VaultStore!Idle]
    BY DEF VaultStore!WriteVersion, VaultStore!Answer
  <1>3. n \in VaultStore!Name /\ VaultStore!ArtifactFile(r.artifact) \in VaultStore!Name
    BY <1>1, NamesOfRecords
  <1>4. /\ files' = [m \in VaultStore!Name |-> files'[m]]
        /\ \A m \in VaultStore!Name : files'[m] = Nothing \/ <<m, files'[m]>> \in seen'
        /\ seen \subseteq seen'
        /\ \A m \in VaultStore!Name : files[m] # Nothing => files'[m] = files[m]
        /\ files[n] = Nothing \/ files[n] = VaultStore!VersionBody(r) => files'[n] = VaultStore!VersionBody(r)
    BY <1>1, <1>2, <1>3, InstallFacts
  <1>5. outcome \in VaultStore!Success \cup {"failed", "mixed"}
    BY <1>1 DEF VaultStore!Concluded, VaultStore!Success
  <1>6. {reply} \in SUBSET VaultStore!AnswerType /\ reply.outcome = outcome /\ reply.request = r
    BY <1>1, <1>5 DEF VaultStore!AnswerType
  <1>7. state # "collision" => Versioned(r, files')
    BY <1>4 DEF VaultStore!Written, Versioned
  <1>8. Described(r, files')
    BY <1>1, <1>3, <1>4 DEF Described, VaultStore!BodiesExist
  <1>9. outcome \in VaultStore!Success => state # "collision"
    BY DEF VaultStore!Success
  <1> HIDE DEF reply, outcome, state
  <1> QED
    BY <1>2, <1>4, <1>6, <1>7, <1>8, <1>9, IdleIntake, IntakeStep

LEMMA RotKeeps ==
  ASSUME VaultStoreInv, VaultStore!BodiesExist, NEW n \in VaultStore!Name, NEW bytes \in {Rotten, Nothing},
         VaultStore!Rot(n, bytes)
  PROVE  VaultStoreInv'
  <1>1. /\ UNCHANGED <<worker, heard, backup, media, receipts, restore>>
        /\ files' = [files EXCEPT ![n] = bytes] /\ seen \subseteq seen'
        /\ bytes = Nothing \/ <<n, bytes>> \in seen'
    BY DEF VaultStore!Rot, VaultStore!Put
  <1>2. \A a \in VaultStore!Artifacts : n # VaultStore!ArtifactFile(a) /\ n # VaultStore!VersionFile(a)
    BY DEF VaultStore!Rot, VaultStore!Object, VaultStore!ArtifactFile, VaultStore!VersionFile
  <1>3. files' = [m \in VaultStore!Name |-> IF m = n THEN bytes ELSE files[m]]
    BY <1>1 DEF VaultStoreInv, Shelved
  <1>4. \A a \in VaultStore!Artifacts :
          /\ files'[VaultStore!ArtifactFile(a)] = files[VaultStore!ArtifactFile(a)]
          /\ files'[VaultStore!VersionFile(a)] = files[VaultStore!VersionFile(a)]
    BY <1>2, <1>3 DEF VaultStore!Name
  <1>5. Shelved'
    BY <1>1, <1>3, BackupsUntouched DEF VaultStoreInv, Shelved
  <1>6. \A r \in Requests : (Described(r, files) => Described(r, files')) /\ (Versioned(r, files) => Versioned(r, files'))
    BY <1>4, RecordsStay
  <1>7. ASSUME NEW w \in Worker
        PROVE  IntakeOK(worker[w], files)'
    BY <1>1, <1>6 DEF VaultStoreInv, IntakeOK
  <1>8. VaultStore!IntakesAgree'
    <2> SUFFICES ASSUME NEW t \in heard, t.outcome \in VaultStore!Success
                 PROVE  Described(t.request, files') /\ Versioned(t.request, files')
      BY <1>1 DEF VaultStore!IntakesAgree, Described, Versioned
    <2>1. t.request \in Requests
      BY DEF VaultStoreInv, Shelved, VaultStore!AnswerType
    <2> QED
      BY <1>6, <2>1 DEF VaultStoreInv, VaultStore!IntakesAgree, Described, Versioned
  <1> QED
    BY <1>1, <1>5, <1>7, <1>8, BackupsUntouched DEF VaultStoreInv

\* Backups and restores leave the vault alone.
LEMMA VaultUntouched ==
  ASSUME VaultStoreInv, UNCHANGED <<files, worker, heard, seen>>
  PROVE  /\ (\A w \in Worker : IntakeOK(worker[w], files))' /\ VaultStore!IntakesAgree'
         /\ files' = [n \in VaultStore!Name |-> files'[n]]
         /\ \A n \in VaultStore!Name : files'[n] = Nothing \/ <<n, files'[n]>> \in seen'
         /\ worker' \in [Worker -> VaultStore!IntakeType] /\ heard' \subseteq VaultStore!AnswerType
  BY DEF VaultStoreInv, Shelved, IntakeOK, VaultStore!IntakesAgree

LEMMA BackupKeeps ==
  ASSUME VaultStoreInv, MaxBackups \in Nat,
         \/ VaultStore!BeginBackup \/ VaultStore!PublishBackup \/ VaultStore!AbandonBackup \/ VaultStore!Damage
         \/ \E n \in VaultStore!Name : VaultStore!CopyFile(n)
  PROVE  VaultStoreInv'
  <1>1. UNCHANGED <<files, worker, calls, heard, restore, seen>>
    BY DEF VaultStore!BeginBackup, VaultStore!PublishBackup, VaultStore!AbandonBackup, VaultStore!Damage,
           VaultStore!CopyFile, VaultStore!BackupOnly
  <1>2. backup \in VaultStore!BackupType /\ (backup.step = "copy" => backup.generation # 0)
    BY DEF VaultStoreInv, Shelved
  <1>3. /\ (backup \in VaultStore!BackupType /\ (backup.step = "copy" => backup.generation # 0))'
        /\ (media \in VaultStore!MediaType \cup {Nothing} /\ receipts \subseteq VaultStore!ReceiptType)'
        /\ receipts \subseteq receipts' /\ (media \in VaultStore!MediaType => media' \in VaultStore!MediaType')
    <2>1. CASE VaultStore!BeginBackup
      <3>1. UNCHANGED <<media, receipts>>
        BY <2>1 DEF VaultStore!BeginBackup
      <3>2. /\ backup.generation < MaxBackups
            /\ backup' = [step |-> "copy", generation |-> backup.generation + 1,
                          left |-> {n \in VaultStore!Name : files[n] # Nothing}, copy |-> {}]
        BY <2>1 DEF VaultStore!BeginBackup
      <3>3. backup.generation \in 0 .. MaxBackups
        BY <1>2 DEF VaultStore!BackupType
      <3>4. backup.generation + 1 \in 0 .. MaxBackups /\ backup.generation + 1 # 0
        BY <3>2, <3>3
      <3>5. (backup \in VaultStore!BackupType /\ (backup.step = "copy" => backup.generation # 0))'
        BY <1>1, <3>2, <3>4 DEF VaultStore!BackupType
      <3> QED
        BY <1>1, <3>1, <3>5 DEF VaultStoreInv, Shelved, VaultStore!MediaType, VaultStore!ReceiptType
    <2>2. CASE \E n \in VaultStore!Name : VaultStore!CopyFile(n)
      <3>1. PICK n \in VaultStore!Name : VaultStore!CopyFile(n)
        BY <2>2
      <3>2. UNCHANGED <<media, receipts>>
        BY <3>1 DEF VaultStore!CopyFile
      <3>3. files[n] # Nothing => <<n, files[n]>> \in seen
        BY DEF VaultStoreInv, Shelved
      <3>4. (backup \in VaultStore!BackupType /\ (backup.step = "copy" => backup.generation # 0))'
        <4>1. CASE files[n] = Nothing
          BY <1>1, <1>2, <3>1, <4>1 DEF VaultStore!CopyFile, VaultStore!GiveUpBackup, VaultStore!NoBackup, VaultStore!BackupType
        <4>2. CASE files[n] # Nothing
          <5>1. backup' = [backup EXCEPT !.left = @ \ {n}, !.copy = @ \cup {<<n, files[n]>>}]
            BY <3>1, <4>2 DEF VaultStore!CopyFile
          <5>2. /\ backup'.step = backup.step /\ backup'.generation = backup.generation
                /\ backup' \in VaultStore!BackupType
            BY <1>2, <3>3, <4>2, <5>1 DEF VaultStore!BackupType
          <5> QED
            BY <1>1, <1>2, <5>2 DEF VaultStore!BackupType
        <4> QED
          BY <4>1, <4>2
      <3> QED
        BY <1>1, <3>2, <3>4 DEF VaultStoreInv, Shelved, VaultStore!MediaType, VaultStore!ReceiptType
    <2>3. CASE VaultStore!PublishBackup
      <3>1. /\ backup.generation \in 1 .. MaxBackups /\ backup.copy \in SUBSET seen
            /\ media' = [generation |-> backup.generation, copy |-> backup.copy, damaged |-> FALSE]
            /\ receipts' = receipts \cup {[generation |-> backup.generation, manifest |-> backup.copy]}
        BY <1>2, <2>3 DEF VaultStore!PublishBackup, VaultStore!BackupType
      <3>2. (backup \in VaultStore!BackupType /\ (backup.step = "copy" => backup.generation # 0))'
        BY <1>1, <1>2, <2>3 DEF VaultStore!PublishBackup, VaultStore!GiveUpBackup, VaultStore!NoBackup, VaultStore!BackupType
      <3>3. media' \in VaultStore!MediaType' /\ [generation |-> backup.generation, manifest |-> backup.copy] \in VaultStore!ReceiptType'
        BY <1>1, <3>1 DEF VaultStore!MediaType, VaultStore!ReceiptType
      <3>4. receipts' \subseteq VaultStore!ReceiptType'
        BY <1>1, <3>1, <3>3 DEF VaultStoreInv, Shelved, VaultStore!ReceiptType
      <3> QED
        BY <3>1, <3>2, <3>3, <3>4
    <2>4. CASE VaultStore!AbandonBackup
      <3>1. UNCHANGED <<media, receipts>>
        BY <2>4 DEF VaultStore!AbandonBackup
      <3>2. (backup \in VaultStore!BackupType /\ (backup.step = "copy" => backup.generation # 0))'
        BY <1>1, <1>2, <2>4 DEF VaultStore!AbandonBackup, VaultStore!GiveUpBackup, VaultStore!NoBackup, VaultStore!BackupType
      <3> QED
        BY <1>1, <3>1, <3>2 DEF VaultStoreInv, Shelved, VaultStore!MediaType, VaultStore!ReceiptType
    <2>5. CASE VaultStore!Damage
      <3>1. UNCHANGED <<backup, receipts>> /\ media # Nothing /\ media' = [media EXCEPT !.damaged = TRUE]
        BY <2>5 DEF VaultStore!Damage
      <3>2. media \in VaultStore!MediaType
        BY <3>1 DEF VaultStoreInv, Shelved
      <3>3. media' \in VaultStore!MediaType
        BY <3>1, <3>2 DEF VaultStore!MediaType
      <3> QED
        BY <1>1, <1>2, <3>1, <3>3 DEF VaultStoreInv, Shelved, VaultStore!MediaType, VaultStore!ReceiptType, VaultStore!BackupType
    <2> QED
      BY <2>1, <2>2, <2>3, <2>4, <2>5
  <1>4. (restore \in VaultStore!RestoreType)'
    BY <1>1, <1>3 DEF VaultStoreInv, Shelved, VaultStore!RestoreType
  <1>5. Shelved'
    BY <1>1, <1>3, <1>4, VaultUntouched DEF Shelved
  <1>6. VaultStore!RestoredAsReceipted'
    BY <1>1 DEF VaultStoreInv, VaultStore!RestoredAsReceipted
  <1> QED
    BY <1>1, <1>3, <1>5, <1>6, VaultUntouched DEF VaultStoreInv

LEMMA RestoreKeeps ==
  ASSUME VaultStoreInv,
         \/ \E r \in receipts : VaultStore!BeginRestore(r)
         \/ VaultStore!Occupy \/ VaultStore!FinishRestore
  PROVE  VaultStoreInv'
  <1>1. UNCHANGED <<files, worker, heard, backup, media, receipts, seen>>
    BY DEF VaultStore!BeginRestore, VaultStore!Occupy, VaultStore!FinishRestore, VaultStore!RestoreOnly
  <1>2. restore \in VaultStore!RestoreType
    BY DEF VaultStoreInv, Shelved
  <1> DEFINE Honest(x) ==
               /\ x \in VaultStore!RestoreType
               /\ x.step = "decrypt" => media \in VaultStore!MediaType /\ x.outcome # "restored"
               /\ x.outcome = "restored" => x.target = x.receipt.manifest /\ x.target \subseteq seen
  <1>3. Honest(restore')
    <2>1. ASSUME NEW r \in receipts, VaultStore!BeginRestore(r)
          PROVE  Honest(restore')
      <3>1. /\ restore.step = "none" /\ restore.outcome # "restored" /\ media \in VaultStore!MediaType
            /\ restore' \in {[restore EXCEPT !.outcome = "failed"], [restore EXCEPT !.outcome = "rejected"],
                              [restore EXCEPT !.step = "decrypt", !.receipt = r]}
        BY <2>1 DEF VaultStore!BeginRestore, VaultStoreInv, Shelved
      <3> QED
        BY <1>2, <3>1 DEF VaultStore!RestoreType
    <2>2. CASE VaultStore!Occupy
      <3>1. restore' = [restore EXCEPT !.target = {VaultStore!Foreign}] /\ restore.outcome # "restored"
        BY <2>2 DEF VaultStore!Occupy, VaultStore!Foreign
      <3>2. restore.step = "decrypt" => media \in VaultStore!MediaType
        BY DEF VaultStoreInv
      <3> QED
        BY <1>2, <3>1, <3>2 DEF VaultStore!RestoreType
    <2>3. CASE VaultStore!FinishRestore
      <3>1. restore.step = "decrypt" /\ media \in VaultStore!MediaType
        BY <2>3 DEF VaultStore!FinishRestore, VaultStoreInv
      <3>2. \/ restore' = [restore EXCEPT !.step = "none", !.outcome = "failed"]
            \/ /\ media.copy = restore.receipt.manifest
               /\ restore' = [restore EXCEPT !.step = "none", !.outcome = "restored", !.target = media.copy]
        BY <2>3 DEF VaultStore!FinishRestore, VaultStore!ManifestBound
      <3>3. media.copy \subseteq seen
        BY <3>1 DEF VaultStore!MediaType
      <3> QED
        BY <1>2, <3>2, <3>3 DEF VaultStore!RestoreType
    <2> QED
      BY <2>1, <2>2, <2>3
  <1>4. Shelved'
    BY <1>1, <1>3, VaultUntouched DEF VaultStoreInv, Shelved, VaultStore!BackupType, VaultStore!MediaType, VaultStore!ReceiptType, VaultStore!RestoreType
  <1>5. /\ (restore.step = "decrypt" => media \in VaultStore!MediaType /\ restore.outcome # "restored")'
        /\ VaultStore!RestoredAsReceipted'
    BY <1>1, <1>3 DEF VaultStore!MediaType, VaultStore!RestoredAsReceipted
  <1> QED
    BY <1>1, <1>4, <1>5, VaultUntouched DEF VaultStoreInv

LEMMA NextVaultStore ==
  ASSUME VaultStore!BodiesExist, MaxBackups \in Nat, VaultStoreInv, [VaultStore!Next]_VaultStore!vars
  PROVE  VaultStoreInv'
  <1>1. CASE UNCHANGED VaultStore!vars
    <2>1. UNCHANGED <<files, worker, heard, seen, backup, media, receipts, restore>>
      BY <1>1 DEF VaultStore!vars
    <2>2. Shelved'
      BY <2>1, BackupsUntouched, VaultUntouched DEF VaultStoreInv, Shelved
    <2> QED
      BY <2>1, <2>2, BackupsUntouched, VaultUntouched DEF VaultStoreInv
  <1>2. ASSUME NEW w \in Worker, NEW r \in Requests,
               \/ VaultStore!Quarantine(w, r) \/ VaultStore!RefuseMetadata(w, r)
               \/ VaultStore!Register(w, r)
        PROVE  VaultStoreInv'
    BY <1>2, QuarantineKeeps, RegisterKeeps
  <1>3. ASSUME NEW w \in Worker,
               \/ VaultStore!Verify(w) \/ VaultStore!WriteArtifact(w)
               \/ VaultStore!WriteVersion(w) \/ VaultStore!Die(w)
        PROVE  VaultStoreInv'
    BY <1>3, VerifyKeeps, WriteArtifactKeeps, WriteVersionKeeps
  <1> QED
    BY <1>1, <1>2, <1>3, RotKeeps, BackupKeeps, RestoreKeeps DEF VaultStore!Next

LEMMA VaultStoreInvHolds ==
  ASSUME VaultStore!BodiesExist, MaxBackups \in Nat
  PROVE  VaultStore!Spec => []VaultStoreInv
  <1>1. VaultStore!Init => VaultStoreInv
    <2> SUFFICES ASSUME VaultStore!Init PROVE VaultStoreInv
      OBVIOUS
    <2>1. files = [n \in VaultStore!Name |-> files[n]] /\ \A n \in VaultStore!Name : files[n] = Nothing
      BY DEF VaultStore!Init
    <2>2. worker \in [Worker -> VaultStore!IntakeType] /\ \A w \in Worker : IntakeOK(worker[w], files)
      BY IdleIntake DEF VaultStore!Init
    <2>3. backup \in VaultStore!BackupType /\ restore \in VaultStore!RestoreType /\ restore.step = "none"
          /\ restore.outcome = "none" /\ backup.step = "none"
      BY DEF VaultStore!Init, VaultStore!NoBackup, VaultStore!NoRestore, VaultStore!BackupType, VaultStore!RestoreType
    <2>4. heard = {} /\ receipts = {} /\ media = Nothing
      BY DEF VaultStore!Init
    <2> QED
      BY <2>1, <2>2, <2>3, <2>4
         DEF VaultStoreInv, Shelved, VaultStore!IntakesAgree, VaultStore!RestoredAsReceipted
  <1> QED
    BY <1>1, NextVaultStore, PTL DEF VaultStore!Spec

(***************************************************************************)
(* Every intake told that its bytes are registered, or were already, has   *)
(* its own two records in the vault: of intakes that disagree on what an   *)
(* artifact is or holds, one at most is told so (intake_bytes over         *)
(* _write_immutable), whatever raced, died or rotted.                      *)
(***************************************************************************)
THEOREM IntakesNeverDisagree ==
  ASSUME VaultStore!BodiesExist, MaxBackups \in Nat
  PROVE  VaultStore!Spec => [](VaultStore!TypeOK /\ VaultStore!IntakesAgree)
  <1>1. VaultStoreInv => VaultStore!TypeOK
    <2> SUFFICES ASSUME VaultStoreInv PROVE VaultStore!TypeOK
      OBVIOUS
    <2>1. \A w \in Worker :
            worker[w].step # "idle" =>
              worker[w].request \in Requests /\ worker[w].registration \in VaultStore!Success
      BY DEF VaultStoreInv, IntakeOK
    <2>2. DOMAIN files = VaultStore!Name
      BY DEF VaultStoreInv, Shelved
    <2> QED
      BY <2>1, <2>2 DEF VaultStoreInv, Shelved, VaultStore!TypeOK
  <1>2. VaultStoreInv => VaultStore!IntakesAgree
    BY DEF VaultStoreInv
  <1> QED
    BY <1>1, <1>2, VaultStoreInvHolds, PTL

(***************************************************************************)
(* A restore that reports success placed exactly the files of the receipt  *)
(* it was asked for, each with bytes the vault held under that name, even  *)
(* if another backup replaced the file between its two readings            *)
(* (restore_isolated).                                                       *)
(***************************************************************************)
THEOREM RestoresReceipted ==
  ASSUME VaultStore!BodiesExist, MaxBackups \in Nat
  PROVE  VaultStore!Spec => []VaultStore!RestoredAsReceipted
  <1>1. VaultStoreInv => VaultStore!RestoredAsReceipted
    BY DEF VaultStoreInv
  <1> QED
    BY <1>1, VaultStoreInvHolds, PTL

-----------------------------------------------------------------------------
(***************************************************************************)
(* RepoIdentity: the inductive invariant                                   *)
(***************************************************************************)

RepoCallType ==
  [step : {"idle", "verified", "read", "linked", "loaded", "pinned", "head", "known", "compared"},
   call : Identity \cup {"load", Nothing} \cup [candidate : Commit, expected : Identity],
   root : Directory \cup {Nothing}, from : Directory \cup {Nothing}, was : RepoIdentity!WorkingType \cup {Nothing},
   as : {"load", "existing", "created", Nothing}, created : BOOLEAN, commit : Commit \cup {Nothing},
   status : {"current", "stale-verify", Nothing}]

RepoTyped ==
  /\ at \in Directory
  /\ working \in [Directory -> RepoIdentity!WorkingType]
  /\ head \in [Directory -> Commit] /\ \A d \in Directory : head[d] \in Has[d]
  /\ stamps \in Nat
  /\ process \in [RepoIdentity!Process -> RepoCallType]
  /\ settled \subseteq [directory : Directory, identity : Identity]

\* What a call of p has seen; a commit that was compared holds the expected
\* identity.
Observed(p, q) ==
  /\ RepoIdentity!CallOK(p, q)
  /\ q.step \in {"known", "compared"} => Manifest[q.commit] = q.call.expected
  /\ q.step = "compared" =>
       (q.status = "current" <=> q.call.candidate \in Ancestors[q.commit])

RepoInv ==
  /\ RepoTyped
  /\ \A p \in RepoIdentity!Process : Observed(p, process[p])
  /\ RepoIdentity!AnswersTrue

-----------------------------------------------------------------------------
\* A call sees something more.
LEMMA RepoCallMoves ==
  ASSUME RepoInv, NEW p \in RepoIdentity!Process, NEW q \in RepoCallType, Observed(p, q),
         process' = [process EXCEPT ![p] = q], UNCHANGED <<at, working, head, stamps, answer, settled>>
  PROVE  RepoInv'
  <1>1. RepoTyped'
    BY DEF RepoInv, RepoTyped
  <1>2. ASSUME NEW o \in RepoIdentity!Process
        PROVE  Observed(o, process'[o])
    BY DEF RepoInv, RepoTyped
  <1>3. RepoIdentity!AnswersTrue'
    BY DEF RepoInv, RepoIdentity!AnswersTrue
  <1> QED
    BY <1>1, <1>2, <1>3 DEF RepoInv, Observed, RepoIdentity!CallOK

LEMMA RepoIdle == RepoIdentity!Idle \in RepoCallType /\ \A p : Observed(p, RepoIdentity!Idle)
  BY DEF RepoIdentity!Idle, RepoCallType, Observed, RepoIdentity!CallOK

\* A call ends with an answer, which is true.
LEMMA RepoCallEnds ==
  ASSUME RepoInv, NEW p \in RepoIdentity!Process, process' = [process EXCEPT ![p] = RepoIdentity!Idle],
         UNCHANGED <<at, working, head, stamps>>,
         settled' \subseteq [directory : Directory, identity : Identity],
         \A s \in settled' : working[s.directory].bytes = s.identity,
         answer'.call = "load" => answer'.identity = Manifest[answer'.commit],
         answer'.call = "compare" =>
           /\ Manifest[answer'.commit] = answer'.request.expected
           /\ (answer'.status = "current") <=> (answer'.request.candidate \in Ancestors[answer'.commit])
  PROVE  RepoInv'
  <1>1. RepoTyped'
    BY RepoIdle DEF RepoInv, RepoTyped
  <1>2. ASSUME NEW o \in RepoIdentity!Process
        PROVE  Observed(o, process'[o])
    BY RepoIdle DEF RepoInv, RepoTyped
  <1>3. RepoIdentity!AnswersTrue'
    BY DEF RepoIdentity!AnswersTrue
  <1> QED
    BY <1>1, <1>2, <1>3 DEF RepoInv, Observed, RepoIdentity!CallOK

\* Other programs do not change what a call has seen.
LEMMA OthersKeep ==
  ASSUME RepoIdentity!RepoConstants, RepoInv,
         \/ \E d \in Directory, bytes \in Identity \cup {Junk, Nothing} : RepoIdentity!EditManifest(d, bytes)
         \/ \E d \in Directory, c \in Commit : RepoIdentity!MoveHead(d, c)
         \/ \E d \in Directory : RepoIdentity!MoveRoot(d)
  PROVE  RepoInv'
  <1>1. UNCHANGED <<process, answer>>
    BY DEF RepoIdentity!EditManifest, RepoIdentity!MoveHead, RepoIdentity!MoveRoot
  <1>2. RepoTyped' /\ \A s \in settled' : s \in settled /\ working'[s.directory].bytes = s.identity
    <2>1. ASSUME NEW d \in Directory, NEW bytes \in Identity \cup {Junk, Nothing},
                 RepoIdentity!EditManifest(d, bytes)
          PROVE  RepoTyped' /\ \A s \in settled' : s \in settled /\ working'[s.directory].bytes = s.identity
      <3>1. /\ working' = [working EXCEPT ![d] = RepoIdentity!Stamped(bytes)] /\ stamps' = stamps + 1
            /\ settled' = RepoIdentity!Unsettled(d) /\ UNCHANGED <<at, head, process>>
        BY <2>1 DEF RepoIdentity!EditManifest
      <3>2. RepoIdentity!Stamped(bytes) \in RepoIdentity!WorkingType
        BY DEF RepoIdentity!Stamped, RepoIdentity!WorkingType, RepoInv, RepoTyped
      <3>3. \A s \in settled' : s \in settled /\ s.directory # d
        BY <3>1 DEF RepoIdentity!Unsettled
      <3> QED
        BY <3>1, <3>2, <3>3 DEF RepoInv, RepoTyped, RepoIdentity!AnswersTrue
    <2>2. ASSUME NEW d \in Directory, NEW c \in Commit, RepoIdentity!MoveHead(d, c)
          PROVE  RepoTyped' /\ \A s \in settled' : s \in settled /\ working'[s.directory].bytes = s.identity
      BY <2>2 DEF RepoIdentity!MoveHead, RepoInv, RepoTyped, RepoIdentity!AnswersTrue
    <2>3. ASSUME NEW d \in Directory, RepoIdentity!MoveRoot(d)
          PROVE  RepoTyped' /\ \A s \in settled' : s \in settled /\ working'[s.directory].bytes = s.identity
      BY <2>3 DEF RepoIdentity!MoveRoot, RepoInv, RepoTyped, RepoIdentity!AnswersTrue
    <2> QED
      BY <2>1, <2>2, <2>3
  <1> QED
    BY <1>1, <1>2 DEF RepoInv, RepoIdentity!AnswersTrue

LEMMA VerifyRootKeeps ==
  ASSUME RepoIdentity!RepoConstants, RepoInv, NEW p \in RepoIdentity!Process,
         NEW call \in Identity \cup {"load"} \cup [candidate : Commit, expected : Identity],
         call \in RepoIdentity!Calls(p), RepoIdentity!VerifyRoot(p, call)
  PROVE  RepoInv'
  <1> DEFINE q == [RepoIdentity!Idle EXCEPT !.step = "verified", !.call = call, !.root = at]
  <1>1. /\ process' = [process EXCEPT ![p] = q]
        /\ UNCHANGED <<at, working, head, stamps, answer, settled>>
    BY DEF RepoIdentity!VerifyRoot, RepoIdentity!Continue, RepoIdentity!Unchanged
  <1>2. q \in RepoCallType /\ Observed(p, q)
    BY DEF RepoIdentity!Idle, RepoCallType, Observed, RepoIdentity!CallOK, RepoInv, RepoTyped
  <1> QED
    BY <1>1, <1>2, RepoCallMoves

LEMMA ReadingKeeps ==
  ASSUME RepoIdentity!RepoConstants, RepoInv, NEW p \in RepoIdentity!Process, NEW as \in {"load", "existing", "created"},
         process[p].step # "idle",
         RepoIdentity!Reading(p, as) \/ RepoIdentity!Refuse(p), RepoIdentity!Unchanged
  PROVE  RepoInv'
  <1> DEFINE q == [process[p] EXCEPT !.step = "read", !.from = at, !.was = working[at], !.as = as]
  <1>1. /\ process' = [process EXCEPT ![p] = q] \/ process' = [process EXCEPT ![p] = RepoIdentity!Idle]
        /\ UNCHANGED <<at, working, head, stamps, answer, settled>>
    BY DEF RepoIdentity!Reading, RepoIdentity!Refuse, RepoIdentity!Continue, RepoIdentity!Unchanged
  <1>2. process[p] \in RepoCallType /\ Observed(p, process[p]) /\ at \in Directory /\ working[at] \in RepoIdentity!WorkingType
    BY DEF RepoInv, RepoTyped
  <1>3. /\ q \in RepoCallType /\ q.step = "read" /\ q.call = process[p].call
        /\ q.root = process[p].root /\ q.from = at /\ q.was = working[at] /\ q.as = as
    BY <1>2 DEF RepoCallType
  <1> HIDE DEF q
  <1>4. Observed(p, q)
    BY <1>2, <1>3 DEF Observed, RepoIdentity!CallOK
  <1> QED
    BY <1>1, <1>3, <1>4, RepoIdle, RepoCallMoves

LEMMA ReadersKeep ==
  ASSUME RepoIdentity!RepoConstants, RepoInv, NEW p \in RepoIdentity!Process,
         \/ RepoIdentity!FindManifest(p) \/ RepoIdentity!ReadBack(p) \/ RepoIdentity!ReadIdentity(p)
         \/ RepoIdentity!Die(p)
  PROVE  RepoInv'
  <1>1. process[p].step # "idle" /\ RepoIdentity!Unchanged
    BY DEF RepoIdentity!FindManifest, RepoIdentity!ReadBack, RepoIdentity!ReadIdentity, RepoIdentity!Die
  <1>2. \E as \in {"load", "existing", "created"} : RepoIdentity!Reading(p, as) \/ RepoIdentity!Refuse(p)
    BY DEF RepoIdentity!FindManifest, RepoIdentity!ReadBack, RepoIdentity!ReadIdentity, RepoIdentity!Die
  <1> QED
    BY <1>1, <1>2, ReadingKeeps

\* A link puts a manifest where there was none, so no settled one goes.
LEMMA LinkKeeps ==
  ASSUME RepoIdentity!RepoConstants, RepoInv, NEW p \in RepoIdentity!Process, RepoIdentity!LinkManifest(p)
  PROVE  RepoInv'
  <1> DEFINE q == [process[p] EXCEPT !.step = "linked", !.created = RepoIdentity!Linked(p)]
  <1>1. /\ p \in Creator /\ process[p].step = "verified" /\ process[p] \in RepoCallType
        /\ Observed(p, process[p]) /\ process[p].call \in Identity /\ RepoTyped
    BY DEF RepoIdentity!LinkManifest, RepoInv, RepoTyped, Observed, RepoIdentity!CallOK, RepoIdentity!Calls
  <1>2. CASE at # process[p].root
    <2>1. /\ process' = [process EXCEPT ![p] = RepoIdentity!Idle]
          /\ UNCHANGED <<at, working, head, stamps, answer, settled>>
      BY <1>2 DEF RepoIdentity!LinkManifest, RepoIdentity!Refuse, RepoIdentity!Continue
    <2> QED
      BY <2>1, RepoIdle, RepoCallMoves
  <1>3. CASE at = process[p].root
    <2>1. /\ RepoIdentity!Link(p, process[p].call) /\ stamps' \in {stamps, stamps + 1}
          /\ process' = [process EXCEPT ![p] = q] /\ UNCHANGED <<at, head, answer, settled>>
      BY <1>3 DEF RepoIdentity!LinkManifest, RepoIdentity!Continue
    <2>2. RepoIdentity!Stamped(process[p].call) \in RepoIdentity!WorkingType
      BY <1>1 DEF RepoIdentity!Stamped, RepoIdentity!WorkingType, RepoTyped
    <2>3. working' \in [Directory -> RepoIdentity!WorkingType]
      BY <1>1, <2>1, <2>2 DEF RepoIdentity!Link, RepoTyped
    <2>4. /\ q \in RepoCallType /\ q.step = "linked" /\ q.call = process[p].call
          /\ q.root = process[p].root
      BY <1>1 DEF RepoCallType, RepoIdentity!Linked
    <2> HIDE DEF q
    <2>5. Observed(p, q)
      BY <1>1, <2>4 DEF Observed, RepoIdentity!CallOK
    <2>6. RepoTyped'
      BY <1>1, <2>1, <2>3, <2>4 DEF RepoTyped
    <2>7. ASSUME NEW o \in RepoIdentity!Process
          PROVE  Observed(o, process'[o])
      BY <1>1, <2>1, <2>5 DEF RepoInv, RepoTyped
    <2>8. ASSUME NEW s \in settled
          PROVE  working'[s.directory].bytes = s.identity
      <3>1. /\ working[s.directory].bytes = s.identity /\ s.identity # Nothing /\ s.directory \in Directory
        BY <1>1 DEF RepoInv, RepoTyped, RepoIdentity!AnswersTrue, RepoIdentity!RepoConstants
      <3>2. working'[s.directory] = working[s.directory]
        BY <1>1, <2>1, <3>1 DEF RepoIdentity!Link, RepoTyped
      <3> QED
        BY <3>1, <3>2
    <2>9. RepoIdentity!AnswersTrue'
      BY <2>1, <2>8 DEF RepoInv, RepoIdentity!AnswersTrue
    <2> QED
      BY <2>6, <2>7, <2>9 DEF RepoInv, Observed, RepoIdentity!CallOK
  <1> QED
    BY <1>2, <1>3

LEMMA ConfirmKeeps ==
  ASSUME RepoIdentity!RepoConstants, RepoInv, NEW p \in RepoIdentity!Process, RepoIdentity!ConfirmManifest(p)
  PROVE  RepoInv'
  <1>1. /\ p \in Creator /\ process[p].step = "read" /\ process[p].call \in Identity
        /\ UNCHANGED <<at, working, head, stamps>> /\ RepoTyped
    BY DEF RepoIdentity!ConfirmManifest, RepoIdentity!Unchanged, RepoInv, Observed, RepoIdentity!CallOK, RepoIdentity!Calls
  <1>2. CASE RepoIdentity!Unmoved(p) /\ RepoIdentity!Bytes(p) = process[p].call
    <2> DEFINE new == [directory |-> process[p].from, identity |-> process[p].call]
    <2>1. /\ process' = [process EXCEPT ![p] = RepoIdentity!Idle]
          /\ answer' = [call |-> "create", outcome |-> process[p].as]
          /\ settled' = settled \cup {new}
      BY <1>2 DEF RepoIdentity!ConfirmManifest, RepoIdentity!Tell, RepoIdentity!Settle
    <2>2. /\ new \in [directory : Directory, identity : Identity]
          /\ working[new.directory].bytes = new.identity
      BY <1>1, <1>2 DEF RepoIdentity!Unmoved, RepoIdentity!Bytes, RepoTyped
    <2>3. answer'.call = "create"
      BY <2>1
    <2> HIDE DEF new
    <2> QED
      BY <1>1, <2>1, <2>2, <2>3, RepoCallEnds DEF RepoInv, RepoTyped, RepoIdentity!AnswersTrue
  <1>3. CASE ~(RepoIdentity!Unmoved(p) /\ RepoIdentity!Bytes(p) = process[p].call)
    <2>1. process' = [process EXCEPT ![p] = RepoIdentity!Idle] /\ UNCHANGED <<answer, settled>>
      BY <1>3 DEF RepoIdentity!ConfirmManifest, RepoIdentity!Refuse, RepoIdentity!Continue
    <2> QED
      BY <1>1, <2>1, RepoIdle, RepoCallMoves
  <1> QED
    BY <1>2, <1>3

\* What LoadIdentity, PinCommit, ReadHead, CheckProject and CompareHead note.
LEMMA ObserveKeeps ==
  ASSUME RepoIdentity!RepoConstants, RepoInv, NEW p \in RepoIdentity!Process,
         \/ RepoIdentity!LoadIdentity(p) \/ RepoIdentity!PinCommit(p) \/ RepoIdentity!ReadHead(p)
         \/ RepoIdentity!CheckProject(p) \/ RepoIdentity!CompareHead(p)
  PROVE  RepoInv'
  <1> DEFINE next(step) == [process[p] EXCEPT !.step = step]
             pinned(step) == [process[p] EXCEPT !.step = step, !.commit = head[at]]
             status == IF process[p].call.candidate \in Ancestors[process[p].commit]
                       THEN "current" ELSE "stale-verify"
             compared == [process[p] EXCEPT !.step = "compared", !.status = status]
  <1>1. UNCHANGED <<at, working, head, stamps, answer, settled>>
    BY DEF RepoIdentity!LoadIdentity, RepoIdentity!PinCommit, RepoIdentity!ReadHead, RepoIdentity!CheckProject,
           RepoIdentity!CompareHead, RepoIdentity!Continue, RepoIdentity!Refuse, RepoIdentity!Unchanged
  <1>2. process[p] \in RepoCallType /\ Observed(p, process[p]) /\ head[at] \in Commit
    BY DEF RepoInv, RepoTyped
  <1>3. ASSUME process' = [process EXCEPT ![p] = RepoIdentity!Idle] PROVE RepoInv'
    BY <1>1, <1>3, RepoIdle, RepoCallMoves
  <1>4. CASE RepoIdentity!LoadIdentity(p)
    <2>1. process[p].step = "read"
      BY <1>4 DEF RepoIdentity!LoadIdentity
    <2>2. next("loaded") \in RepoCallType /\ Observed(p, next("loaded"))
      BY <1>2, <2>1 DEF RepoCallType, Observed, RepoIdentity!CallOK
    <2>3. \/ process' = [process EXCEPT ![p] = next("loaded")]
          \/ process' = [process EXCEPT ![p] = RepoIdentity!Idle]
      BY <1>4 DEF RepoIdentity!LoadIdentity, RepoIdentity!Continue, RepoIdentity!Refuse
    <2> HIDE DEF next
    <2> QED
      BY <1>1, <1>3, <2>2, <2>3, RepoCallMoves
  <1>5. CASE RepoIdentity!PinCommit(p) \/ RepoIdentity!ReadHead(p)
    <2>1. PICK step \in {"pinned", "head"} :
            /\ process' = [process EXCEPT ![p] = pinned(step)]
            /\ process[p].step = IF step = "pinned" THEN "loaded" ELSE "verified"
      BY <1>5 DEF RepoIdentity!PinCommit, RepoIdentity!ReadHead, RepoIdentity!Continue
    <2>2. /\ pinned(step) \in RepoCallType /\ pinned(step).step = step
          /\ pinned(step).call = process[p].call /\ pinned(step).root = process[p].root
          /\ pinned(step).from = process[p].from /\ pinned(step).was = process[p].was
          /\ pinned(step).as = process[p].as /\ pinned(step).commit = head[at]
      BY <1>2 DEF RepoCallType
    <2> HIDE DEF pinned
    <2>3. Observed(p, pinned(step))
      BY <1>2, <2>1, <2>2 DEF Observed, RepoIdentity!CallOK
    <2> QED
      BY <1>1, <2>1, <2>2, <2>3, RepoCallMoves
  <1>6. CASE RepoIdentity!CheckProject(p)
    <2>1. CASE process' = [process EXCEPT ![p] = next("known")] /\ RepoIdentity!IsExpectedAt(p, process[p].call.expected)
      <3>1. process[p].step = "head"
        BY <1>6 DEF RepoIdentity!CheckProject
      <3>2. /\ next("known") \in RepoCallType /\ next("known").step = "known"
            /\ next("known").call = process[p].call /\ next("known").commit = process[p].commit
            /\ next("known").root = process[p].root
        BY <1>2 DEF RepoCallType
      <3> HIDE DEF next
      <3>3. Observed(p, next("known"))
        BY <1>2, <2>1, <3>1, <3>2 DEF Observed, RepoIdentity!CallOK, RepoIdentity!IsExpectedAt
      <3> QED
        BY <1>1, <2>1, <3>2, <3>3, RepoCallMoves
    <2> QED
      BY <1>3, <1>6, <2>1 DEF RepoIdentity!CheckProject, RepoIdentity!Continue, RepoIdentity!Refuse
  <1>7. CASE RepoIdentity!CompareHead(p)
    <2>1. process[p].step = "known"
      BY <1>7 DEF RepoIdentity!CompareHead
    <2>2. \/ process' = [process EXCEPT ![p] = compared]
          \/ process' = [process EXCEPT ![p] = RepoIdentity!Idle]
      BY <1>7 DEF RepoIdentity!CompareHead, RepoIdentity!Continue, RepoIdentity!Refuse
    <2>3. status \in {"current", "stale-verify"}
          /\ (status = "current" <=> process[p].call.candidate \in Ancestors[process[p].commit])
      OBVIOUS
    <2> HIDE DEF status
    <2>4. /\ compared \in RepoCallType /\ compared.step = "compared" /\ compared.status = status
          /\ compared.call = process[p].call /\ compared.commit = process[p].commit
          /\ compared.root = process[p].root
      BY <1>2, <2>3 DEF RepoCallType
    <2> HIDE DEF compared
    <2>5. Observed(p, compared)
      BY <1>2, <2>1, <2>3, <2>4 DEF Observed, RepoIdentity!CallOK
    <2> QED
      BY <1>1, <1>3, <2>2, <2>4, <2>5, RepoCallMoves
  <1> QED
    BY <1>4, <1>5, <1>6, <1>7

LEMMA AnswerKeepsTrue ==
  ASSUME RepoIdentity!RepoConstants, RepoInv, NEW p \in RepoIdentity!Process,
         RepoIdentity!CompareCommitted(p) \/ RepoIdentity!AnswerFreshness(p)
  PROVE  RepoInv'
  <1>1. UNCHANGED <<at, working, head, stamps, settled>> /\ process' = [process EXCEPT ![p] = RepoIdentity!Idle]
    BY DEF RepoIdentity!CompareCommitted, RepoIdentity!AnswerFreshness, RepoIdentity!Unchanged,
           RepoIdentity!Tell, RepoIdentity!Refuse, RepoIdentity!Continue
  <1>2. CASE answer' = answer
    BY <1>1, <1>2, RepoIdle, RepoCallMoves
  <1>3. CASE answer' # answer
    <2>1. CASE RepoIdentity!CompareCommitted(p)
      <3>1. /\ answer' = [call |-> "load", identity |-> RepoIdentity!Bytes(p), commit |-> process[p].commit]
            /\ RepoIdentity!Committed(p)
        BY <1>3, <2>1 DEF RepoIdentity!CompareCommitted, RepoIdentity!Tell, RepoIdentity!Refuse, RepoIdentity!Continue
      <3>2. answer'.call = "load" /\ answer'.identity = Manifest[answer'.commit]
        BY <3>1 DEF RepoIdentity!Committed
      <3> QED
        BY <1>1, <3>2, RepoCallEnds DEF RepoInv, RepoTyped, RepoIdentity!AnswersTrue
    <2>2. CASE RepoIdentity!AnswerFreshness(p)
      <3>1. /\ answer' = [call |-> "compare", request |-> process[p].call, status |-> process[p].status,
                         commit |-> process[p].commit]
            /\ process[p].step = "compared"
        BY <1>3, <2>2 DEF RepoIdentity!AnswerFreshness, RepoIdentity!Tell, RepoIdentity!Refuse, RepoIdentity!Continue
      <3>2. /\ answer'.call = "compare" /\ Manifest[answer'.commit] = answer'.request.expected
            /\ (answer'.status = "current") <=> (answer'.request.candidate \in Ancestors[answer'.commit])
        BY <3>1 DEF RepoInv, Observed, RepoIdentity!CallOK
      <3> QED
        BY <1>1, <3>2, RepoCallEnds DEF RepoInv, RepoTyped, RepoIdentity!AnswersTrue
    <2> QED
      BY <2>1, <2>2
  <1> QED
    BY <1>2, <1>3

LEMMA NextRepo ==
  ASSUME RepoIdentity!RepoConstants, RepoInv, [RepoIdentity!Next]_RepoIdentity!vars
  PROVE  RepoInv'
  <1>1. CASE UNCHANGED RepoIdentity!vars
    BY <1>1 DEF RepoIdentity!vars, RepoInv, RepoTyped, RepoIdentity!AnswersTrue
  <1>2. ASSUME NEW p \in RepoIdentity!Process,
               \/ RepoIdentity!Die(p) \/ RepoIdentity!FindManifest(p) \/ RepoIdentity!LinkManifest(p)
               \/ RepoIdentity!ReadBack(p) \/ RepoIdentity!ConfirmManifest(p) \/ RepoIdentity!ReadIdentity(p)
               \/ RepoIdentity!LoadIdentity(p) \/ RepoIdentity!PinCommit(p) \/ RepoIdentity!CompareCommitted(p)
               \/ RepoIdentity!ReadHead(p) \/ RepoIdentity!CheckProject(p) \/ RepoIdentity!CompareHead(p)
               \/ RepoIdentity!AnswerFreshness(p)
        PROVE  RepoInv'
    BY <1>2, ReadersKeep, LinkKeeps, ConfirmKeeps, ObserveKeeps, AnswerKeepsTrue
  <1>3. ASSUME NEW p \in Creator, NEW i \in Identity, RepoIdentity!VerifyRoot(p, i) PROVE RepoInv'
    BY <1>3, VerifyRootKeeps DEF RepoIdentity!Process, RepoIdentity!Calls
  <1>4. ASSUME NEW p \in Reader, RepoIdentity!VerifyRoot(p, "load") PROVE RepoInv'
    BY <1>4, VerifyRootKeeps DEF RepoIdentity!Process, RepoIdentity!RepoConstants, RepoIdentity!Calls
  <1>5. ASSUME NEW p \in Evaluator, NEW c \in Commit, NEW i \in Identity,
               RepoIdentity!VerifyRoot(p, [candidate |-> c, expected |-> i])
        PROVE  RepoInv'
    BY <1>5, VerifyRootKeeps DEF RepoIdentity!Process, RepoIdentity!RepoConstants, RepoIdentity!Calls
  <1> QED
    BY <1>1, <1>2, <1>3, <1>4, <1>5, OthersKeep DEF RepoIdentity!Next

(***************************************************************************)
(* Until somebody edits the manifest, every creator that succeeded on a    *)
(* checkout asked for the identity that is in it, however many raced       *)
(* (create_repo_identity_manifest); a loaded identity is what its commit   *)
(* holds, and a freshness answer compares commits of the expected project  *)
(* (load_repo_identity, compare_commit_to_head), though HEAD, the          *)
(* manifest and the checkout at the path move between any two reads.       *)
(***************************************************************************)
THEOREM IdentitiesStayTrue ==
  ASSUME RepoIdentity!RepoConstants
  PROVE  RepoIdentity!Spec => [](RepoIdentity!TypeOK /\ RepoIdentity!AnswersTrue)
  <1>1. RepoIdentity!Init => RepoInv
    <2> SUFFICES ASSUME RepoIdentity!Init PROVE RepoInv
      OBVIOUS
    <2>1. working \in [Directory -> RepoIdentity!WorkingType]
      BY DEF RepoIdentity!Init, RepoIdentity!WorkingType, RepoIdentity!RepoConstants
    <2>2. process \in [RepoIdentity!Process -> RepoCallType] /\ \A p \in RepoIdentity!Process : Observed(p, process[p])
      BY RepoIdle DEF RepoIdentity!Init
    <2> QED
      BY <2>1, <2>2 DEF RepoIdentity!Init, RepoInv, RepoTyped, RepoIdentity!AnswersTrue
  <1>2. RepoInv => RepoIdentity!TypeOK /\ RepoIdentity!AnswersTrue
    BY DEF RepoInv, RepoTyped, RepoCallType, Observed, RepoIdentity!TypeOK
  <1> QED
    BY <1>1, <1>2, NextRepo, PTL DEF RepoIdentity!Spec

-----------------------------------------------------------------------------
(***************************************************************************)
(* Imports: the records of a ledger                                        *)
(***************************************************************************)

LEMMA SameCardinality == \A S : Imports!Cardinality(S) = Cardinality(S)
  BY DEF Imports!Cardinality, Cardinality

LEMMA LatestExists ==
  ASSUME NEW n \in Nat, NEW S \in SUBSET (1 .. n), S # {}
  PROVE  \E m \in S : \A k \in S : k <= m
  <1> DEFINE More == {pair \in Nat \X Nat : pair[1] < pair[2]}
             Mirror == {n - k : k \in S}
  <1>1. IsWellFoundedOn(More, Nat)
    BY NatLessThanWellFounded DEF OpToRel
  <1>2. Mirror \in SUBSET Nat /\ Mirror # {}
    <2>1. \A k \in S : n - k \in Nat
      OBVIOUS
    <2> QED
      BY <2>1
  <1>3. PICK d \in Mirror : \A e \in Mirror : ~ (<<e, d>> \in More)
    <2> HIDE DEF More, Mirror
    <2> QED
      BY <1>1, <1>2, WFMin
  <1>4. PICK m \in S : d = n - m
    OBVIOUS
  <1>5. ASSUME NEW k \in S PROVE k <= m
    <2>1. n - k \in Mirror /\ n - k \in Nat /\ n - m \in Nat
      OBVIOUS
    <2>2. ~ (n - k < n - m)
      BY <1>3, <1>4, <2>1
    <2> QED
      BY <2>2
  <1> QED
    BY <1>5

\* Where the entry at i stood before.
Before(text, i) == {j \in 1 .. i - 1 : text[j] = text[i]}

LEMMA BeforeFinite ==
  ASSUME NEW text, NEW i \in Nat \ {0}
  PROVE  /\ IsFiniteSet(Before(text, i)) /\ Cardinality(Before(text, i)) \in 0 .. i - 1
         /\ Imports!Occurrence(text, i) = Cardinality(Before(text, i))
  <1>1. IsFiniteSet(1 .. i - 1) /\ Cardinality(1 .. i - 1) = i - 1
    BY FS_Interval
  <1>2. Before(text, i) \subseteq 1 .. i - 1
    BY DEF Before
  <1>3. /\ IsFiniteSet(Before(text, i)) /\ Cardinality(Before(text, i)) <= i - 1
        /\ Cardinality(Before(text, i)) \in Nat
    BY <1>1, <1>2, FS_Subset, FS_CardinalityType
  <1> QED
    BY <1>3, SameCardinality DEF Imports!Occurrence, Before

\* An occurrence that is not the first has the one before it earlier in the ledger.
LEMMA OccurrenceBefore ==
  ASSUME NEW text, NEW i \in Nat \ {0}, Imports!Occurrence(text, i) # 0
  PROVE  \E j \in 1 .. i - 1 :
           text[j] = text[i] /\ Imports!Occurrence(text, j) = Imports!Occurrence(text, i) - 1
  <1>1. Before(text, i) # {} /\ Before(text, i) \in SUBSET (1 .. i - 1) /\ i - 1 \in Nat
    BY BeforeFinite, FS_EmptySet DEF Before
  <1>2. PICK j \in Before(text, i) : \A k \in Before(text, i) : k <= j
    BY <1>1, LatestExists
  <1>3. j \in 1 .. i - 1 /\ j \in Nat \ {0} /\ text[j] = text[i]
    BY <1>2 DEF Before
  <1>4. Before(text, i) = Before(text, j) \cup {j} /\ j \notin Before(text, j)
    BY <1>2, <1>3 DEF Before
  <1>5. Cardinality(Before(text, i)) = Cardinality(Before(text, j)) + 1
    <2>1. IsFiniteSet(Before(text, j))
      BY <1>3, BeforeFinite
    <2> QED
      BY <1>4, <2>1, FS_AddElement
  <1> QED
    BY <1>3, <1>5, BeforeFinite

\* Two places of one entry are two occurrences.
LEMMA OccurrencesDiffer ==
  ASSUME NEW text, NEW i \in Nat \ {0}, NEW j \in 1 .. i - 1, text[j] = text[i]
  PROVE  Imports!Occurrence(text, j) # Imports!Occurrence(text, i)
  <1>1. j \in Nat \ {0} /\ j \notin Before(text, j) /\ Before(text, j) \cup {j} \subseteq Before(text, i)
    BY DEF Before
  <1>2. /\ Cardinality(Before(text, j) \cup {j}) = Cardinality(Before(text, j)) + 1
        /\ Cardinality(Before(text, j) \cup {j}) <= Cardinality(Before(text, i))
    BY <1>1, BeforeFinite, FS_AddElement, FS_Subset
  <1> QED
    BY <1>1, <1>2, BeforeFinite

LEMMA RecordsListed ==
  ASSUME Imports!ImportConstants, NEW text \in Logs, Imports!Parses(text)
  PROVE  Imports!Records(text) \in Imports!Listing
  <1> DEFINE R == Imports!Records(text)
  <1>1. /\ text \in Seq(LedgerEntry \cup {Refused}) /\ Len(text) \in 1 .. MaxEntries
        /\ \A i \in 1 .. Len(text) : text[i] \in LedgerEntry
    BY DEF Imports!ImportConstants, Imports!Parses
  <1>2. R = [i \in 1 .. Len(text) |-> <<text[i], Imports!Occurrence(text, i)>>]
    BY <1>1 DEF Imports!Records
  <1>3. \A i \in 1 .. Len(text) : Imports!Occurrence(text, i) \in 0 .. MaxEntries - 1
    <2> SUFFICES ASSUME NEW i \in 1 .. Len(text) PROVE Imports!Occurrence(text, i) \in 0 .. MaxEntries - 1
      OBVIOUS
    <2>1. Imports!Occurrence(text, i) \in 0 .. i - 1
      BY <1>1, BeforeFinite
    <2> QED
      BY <1>1, <2>1 DEF Imports!ImportConstants
  <1>4. R \in Seq(Imports!Record) /\ Len(R) = Len(text)
    <2>1. \A i \in 1 .. Len(text) : R[i] \in Imports!Record
      BY <1>1, <1>2, <1>3 DEF Imports!Record
    <2> HIDE DEF R
    <2>2. R \in [1 .. Len(text) -> Imports!Record] /\ Len(text) \in Nat
      BY <1>1, <1>2, <2>1
    <2> QED
      BY <2>2, SeqDef, LenProperties
  <1>5. ASSUME NEW i \in 1 .. Len(R), NEW j \in 1 .. Len(R), R[i] = R[j] PROVE i = j
    <2>1. /\ text[i] = text[j] /\ Imports!Occurrence(text, i) = Imports!Occurrence(text, j)
          /\ i \in 1 .. Len(text) /\ j \in 1 .. Len(text)
      BY <1>2, <1>4, <1>5
    <2>2. ~ (i < j) /\ ~ (j < i)
      BY <1>1, <2>1, OccurrencesDiffer
    <2> QED
      BY <1>1, <2>1, <2>2
  <1>6. ASSUME NEW i \in 1 .. Len(R), R[i][2] > 0
        PROVE  \E j \in 1 .. i - 1 : R[j] = Imports!Previous(R[i])
    <2>1. R[i] = <<text[i], Imports!Occurrence(text, i)>> /\ i \in 1 .. Len(text)
      BY <1>2, <1>4
    <2>2. PICK j \in 1 .. i - 1 :
            text[j] = text[i] /\ Imports!Occurrence(text, j) = Imports!Occurrence(text, i) - 1
      BY <1>1, <1>6, <2>1, OccurrenceBefore
    <2>3. R[j] = <<text[j], Imports!Occurrence(text, j)>>
      BY <1>1, <1>2, <2>1, <2>2
    <2> QED
      BY <2>1, <2>2, <2>3 DEF Imports!Previous
  <1>7. R # <<>>
    BY <1>1, <1>4
  <1> QED
    BY <1>4, <1>5, <1>6, <1>7 DEF Imports!Listing

-----------------------------------------------------------------------------
(***************************************************************************)
(* Imports: the inductive invariant                                        *)
(***************************************************************************)
\* What the import q knows of the i-th of its records, which nobody else
\* writes; f is its file and c how often it was reported as created.
PlaceOK(q, i, f, c) ==
  /\ q.step = "preflight" /\ i <= Len(q.expected) => (q.expected[i] = "created" <=> f = "absent")
  /\ q.step = "write" /\ i <= Len(q.written) => f = "record" /\ (q.expected[i] = "created" => c = 0)
  /\ q.step = "write" /\ i > Len(q.written) => (q.expected[i] = "created" <=> f = "absent")

HolderOK(q, names, cr, tch) ==
  \A i \in 1 .. Len(q.records) :
    q.records[i] \in Imports!Record \ tch => PlaceOK(q, i, names[q.records[i]], cr[q.records[i]])

RecordOK(r, names, cr, answered, refused, tch) ==
  /\ names[r] \in {"absent", "record"}
  /\ cr[r] <= 1
  /\ names[r] = "absent" => cr[r] = 0
  /\ r \in answered => names[r] = "record"
  /\ r \notin refused
  /\ names[r] = "record" /\ r[2] > 0 => names[Imports!Previous(r)] = "record" \/ Imports!Previous(r) \in tch

RecordsOK(names, cr, answered, refused, tch) ==
  \A r \in Imports!Record \ tch : RecordOK(r, names, cr, answered, refused, tch)

LedgerInv ==
  /\ log \in Logs
  /\ imported \in [Imports!Record -> {"absent", "record", "other"}]
  /\ credit \in [Imports!Record -> Nat]
  /\ DOMAIN importer = Importer
  /\ \A p \in Importer :
       /\ Imports!ImporterOK(importer[p])
       /\ Imports!Holding(importer[p]) => lock = p /\ HolderOK(importer[p], imported, credit, handled)
  /\ RecordsOK(imported, credit, reported, collided, handled)

OutputOK(out, answered) ==
  \/ answered = {} /\ out = [is |-> "absent"]
  \/ \E q \in Imports!Granted : answered = {Imports!Bundle(q)} /\ out = Imports!Bundle(q)

BundleInv ==
  /\ DOMAIN bundler = Bundler
  /\ \A p \in Bundler : Imports!WriterOK(bundler[p])
  /\ Imports!Output \notin handled => OutputOK(output, claims)
  /\ output \in [is : {"absent", "foreign", "empty"}] \cup Imports!Bundles
  /\ claims \subseteq Imports!Bundles

ImportInv == LedgerInv /\ BundleInv

-----------------------------------------------------------------------------
(***************************************************************************)
(* Imports: the ledger                                                     *)
(***************************************************************************)
LEMMA StageFields ==
  ASSUME NEW q, Imports!ImporterOK(q)
  PROVE  /\ q.step \in {"idle", "read", "preflight", "write"}
         /\ q.step = "read" => q.records \in Imports!Listing
         /\ q.step = "preflight" =>
              q.records \in Imports!Listing /\ q.expected \in Imports!Expected /\ Len(q.expected) < Len(q.records)
         /\ q.step = "write" =>
              /\ q.records \in Imports!Listing /\ q.expected \in Imports!Expected /\ q.written \in Seq(Imports!Record)
              /\ Len(q.expected) = Len(q.records) /\ Len(q.written) < Len(q.records)
  BY DEF Imports!ImporterOK, Imports!Idle, Imports!ReadingType, Imports!LookingType, Imports!WritingType

LEMMA PlaceOfList ==
  ASSUME NEW R \in Imports!Listing
  PROVE  /\ Len(R) \in Nat /\ Len(R) > 0
         /\ \A i \in 1 .. Len(R) : R[i] \in Imports!Record
         /\ \A i, j \in 1 .. Len(R) : R[i] = R[j] => i = j
         /\ \A i \in 1 .. Len(R) : R[i][2] > 0 => \E j \in 1 .. i - 1 : R[j] = Imports!Previous(R[i])
  <1>1. R \in Seq(Imports!Record) /\ R # <<>>
    BY DEF Imports!Listing
  <1>2. Len(R) \in Nat /\ Len(R) > 0 /\ \A i \in 1 .. Len(R) : R[i] \in Imports!Record
    BY <1>1, EmptySeq, ElementOfSeq, LenProperties
  <1> QED
    BY <1>2 DEF Imports!Listing

LEMMA TouchedMore ==
  ASSUME NEW more, handled \subseteq more,
         NEW names, NEW cr, NEW answered, NEW refused,
         RecordsOK(names, cr, answered, refused, handled)
  PROVE  RecordsOK(names, cr, answered, refused, more)
  BY DEF RecordsOK, RecordOK

LEMMA HeldMore ==
  ASSUME NEW more, handled \subseteq more, NEW q, NEW names, NEW cr, HolderOK(q, names, cr, handled)
  PROVE  HolderOK(q, names, cr, more)
  BY DEF HolderOK

\* An import that moves on leaves the others where they were.
LEMMA ImporterMoves ==
  ASSUME LedgerInv, NEW p \in Importer, NEW s,
         importer' = [importer EXCEPT ![p] = s],
         Imports!ImporterOK(s), Imports!Holding(s) => lock' = p /\ HolderOK(s, imported', credit', handled),
         UNCHANGED <<log, handled>>,
         imported' \in [Imports!Record -> {"absent", "record", "other"}],
         credit' \in [Imports!Record -> Nat],
         RecordsOK(imported', credit', reported', collided', handled),
         \A q \in Importer \ {p} : Imports!Holding(importer[q]) =>
           lock' = q /\ HolderOK(importer[q], imported', credit', handled)
  PROVE  LedgerInv'
  <1>1. DOMAIN importer' = Importer /\ importer'[p] = s /\ \A q \in Importer \ {p} : importer'[q] = importer[q]
    BY DEF LedgerInv
  <1>2. ASSUME NEW q \in Importer
        PROVE  /\ Imports!ImporterOK(importer'[q])
               /\ Imports!Holding(importer'[q]) => lock' = q /\ HolderOK(importer'[q], imported', credit', handled)
    BY <1>1 DEF LedgerInv
  <1> QED
    BY <1>1, <1>2 DEF LedgerInv

\* Nobody but p holds the lock that p holds or that is free.
LEMMA OthersHold ==
  ASSUME LedgerInv, Imports!ImportConstants, NEW p \in Importer, Imports!Release(p), UNCHANGED <<imported, credit>>
  PROVE  \A q \in Importer \ {p} : Imports!Holding(importer[q]) =>
           lock' = q /\ HolderOK(importer[q], imported', credit', handled)
  BY DEF LedgerInv, Imports!Release

LEMMA ReadLedgerKeeps ==
  ASSUME Imports!ImportConstants, LedgerInv, NEW p \in Importer, NEW dry, Imports!ReadLedger(p, dry)
  PROVE  LedgerInv'
  <1>1. UNCHANGED <<log, imported, lock, handled, credit, reported, collided>>
    BY DEF Imports!ReadLedger
  <1>2. CASE importer' = [importer EXCEPT ![p] = [step |-> "read", records |-> Imports!Records(log)]]
             /\ Imports!Parses(log)
    <2> DEFINE s == [step |-> "read", records |-> Imports!Records(log)]
    <2>1. Imports!Records(log) \in Imports!Listing
      BY <1>2, RecordsListed DEF LedgerInv
    <2>2. Imports!ImporterOK(s) /\ ~ Imports!Holding(s)
      BY <2>1 DEF Imports!ImporterOK, Imports!ReadingType, Imports!Holding
    <2> HIDE DEF s
    <2> QED
      BY <1>1, <1>2, <2>2, ImporterMoves DEF LedgerInv, s
  <1>3. CASE UNCHANGED importer
    BY <1>1, <1>3 DEF LedgerInv
  <1> QED
    BY <1>2, <1>3 DEF Imports!ReadLedger, Imports!Step

LEMMA TakeLockKeeps ==
  ASSUME Imports!ImportConstants, LedgerInv, NEW p \in Importer, Imports!TakeLock(p)
  PROVE  LedgerInv'
  <1> DEFINE s == [step |-> "preflight", records |-> importer[p].records, expected |-> <<>>]
  <1>1. /\ UNCHANGED <<log, imported, handled, credit, reported, collided>> /\ lock = Nobody /\ lock' = p
        /\ importer' = [importer EXCEPT ![p] = s] /\ importer[p].step = "read"
    BY DEF Imports!TakeLock, Imports!Step, Imports!LockFree
  <1>2. importer[p].records \in Imports!Listing /\ Len(importer[p].records) \in Nat /\ Len(importer[p].records) > 0
    BY <1>1, StageFields, PlaceOfList DEF LedgerInv
  <1>3. <<>> \in Imports!Expected /\ Len(<<>>) = 0
    BY EmptySeq DEF Imports!Expected
  <1>4. Imports!ImporterOK(s) /\ HolderOK(s, imported', credit', handled)
    BY <1>2, <1>3 DEF Imports!ImporterOK, Imports!LookingType, HolderOK, PlaceOK
  <1>5. \A q \in Importer : ~ Imports!Holding(importer[q])
    BY <1>1 DEF LedgerInv, Imports!ImportConstants
  <1> HIDE DEF s
  <1> QED
    BY <1>1, <1>4, <1>5, ImporterMoves DEF LedgerInv

LEMMA IdleKept ==
  ASSUME TRUE
  PROVE  Imports!ImporterOK(Imports!Idle) /\ ~ Imports!Holding(Imports!Idle)
  BY DEF Imports!ImporterOK, Imports!Idle, Imports!Holding

LEMMA ImporterDiesKeeps ==
  ASSUME Imports!ImportConstants, LedgerInv, NEW p \in Importer, Imports!ImporterDies(p)
  PROVE  LedgerInv'
  <1>1. /\ UNCHANGED <<log, imported, handled, credit, reported, collided>>
        /\ importer' = [importer EXCEPT ![p] = Imports!Idle] /\ Imports!Release(p)
    BY DEF Imports!ImporterDies, Imports!Step
  <1> QED
    BY <1>1, OthersHold, IdleKept, ImporterMoves DEF LedgerInv

LEMMA PreflightStep ==
  ASSUME Imports!ImportConstants, LedgerInv, NEW p \in Importer, Imports!Preflight(p)
  PROVE  LedgerInv'
  <1> DEFINE q == importer[p]
             R == q.records
             n == Len(q.expected) + 1
             r == R[n]
             all == Append(q.expected, Imports!Disposition(r))
             s == IF Len(all) = Len(R)
                  THEN [step |-> "write", records |-> R, expected |-> all, written |-> <<>>]
                  ELSE [q EXCEPT !.expected = all]
  <1>1. /\ q.step = "preflight" /\ UNCHANGED <<log, imported, handled, credit, reported>>
        /\ IF imported[r] = "other"
           THEN Imports!Collide(p, r)
           ELSE importer' = [importer EXCEPT ![p] = s] /\ UNCHANGED <<lock, collided>>
    BY DEF Imports!Preflight, Imports!Step, Imports!Target
  <1>2. /\ Imports!ImporterOK(q) /\ lock = p /\ HolderOK(q, imported, credit, handled)
        /\ RecordsOK(imported, credit, reported, collided, handled)
    BY <1>1 DEF LedgerInv, Imports!Holding
  <1>3. /\ R \in Imports!Listing /\ q.expected \in Imports!Expected /\ Len(q.expected) < Len(R)
        /\ q \in Imports!LookingType
    BY <1>1, <1>2, StageFields DEF Imports!ImporterOK, Imports!Idle, Imports!ReadingType, Imports!WritingType
  <1>4. Len(q.expected) \in Nat /\ Len(R) \in Nat /\ n \in 1 .. Len(R) /\ r \in Imports!Record
    <2>1. Len(q.expected) \in Nat
      BY <1>3, LenProperties DEF Imports!Expected
    <2>2. Len(R) \in Nat /\ \A i \in 1 .. Len(R) : R[i] \in Imports!Record
      BY <1>3, PlaceOfList
    <2> QED
      BY <1>3, <2>1, <2>2
  <1>5. CASE imported[r] = "other"
    <2>1. r \in handled
      BY <1>2, <1>4, <1>5 DEF RecordsOK, RecordOK
    <2>2. /\ importer' = [importer EXCEPT ![p] = Imports!Idle] /\ Imports!Release(p)
          /\ collided' = collided \cup {r}
      BY <1>1, <1>5 DEF Imports!Collide, Imports!Step
    <2>3. RecordsOK(imported', credit', reported', collided', handled)
      BY <1>1, <1>2, <2>1, <2>2 DEF RecordsOK, RecordOK
    <2> QED
      BY <1>1, <2>2, <2>3, OthersHold, IdleKept, ImporterMoves DEF LedgerInv
  <1>6. CASE imported[r] # "other"
    <2>1. /\ all \in Imports!Expected /\ Len(all) = n
          /\ \A i \in 1 .. Len(q.expected) : all[i] = q.expected[i]
          /\ all[n] = Imports!Disposition(r)
      <3>1. Imports!Disposition(r) \in {"created", "duplicate"}
        BY DEF Imports!Disposition
      <3> QED
        BY <1>3, <1>4, <3>1, AppendProperties DEF Imports!Expected
    <2>2. ASSUME NEW i \in 1 .. n, R[i] \notin handled
          PROVE  all[i] = "created" <=> imported[R[i]] = "absent"
      <3>1. CASE i = n
        BY <2>1, <3>1 DEF Imports!Disposition
      <3>2. CASE i # n
        <4>1. i \in 1 .. Len(q.expected) /\ i \in 1 .. Len(R) /\ R[i] \in Imports!Record
          BY <1>3, <1>4, <3>2, PlaceOfList
        <4>2. PlaceOK(q, i, imported[R[i]], credit[R[i]])
          BY <1>2, <2>2, <4>1 DEF HolderOK
        <4> QED
          BY <1>1, <2>1, <4>1, <4>2 DEF PlaceOK
      <3> QED
        BY <3>1, <3>2
    <2>3. s.step \in {"preflight", "write"} /\ s.records = R /\ Imports!ImporterOK(s)
      <3>1. CASE Len(all) = Len(R)
        <4>1. s = [step |-> "write", records |-> R, expected |-> all, written |-> <<>>]
          BY <3>1
        <4>2. <<>> \in Seq(Imports!Record) /\ Len(<<>>) = 0
          BY EmptySeq
        <4> HIDE DEF s, all, R
        <4> QED
          BY <1>3, <1>4, <2>1, <3>1, <4>1, <4>2 DEF Imports!ImporterOK, Imports!WritingType
      <3>2. CASE Len(all) # Len(R)
        <4>1. s = [q EXCEPT !.expected = all]
          BY <3>2
        <4>2. q.step = "preflight" /\ q = [step |-> q.step, records |-> q.records, expected |-> q.expected]
          BY <1>1, <1>3 DEF Imports!LookingType
        <4>3. s = [step |-> "preflight", records |-> R, expected |-> all]
          BY <4>1, <4>2
        <4> HIDE DEF s, all, R
        <4> QED
          BY <1>3, <1>4, <2>1, <3>2, <4>3 DEF Imports!ImporterOK, Imports!LookingType
      <3> QED
        BY <3>1, <3>2
    <2>4. s.expected = all /\ (s.step = "write" => n = Len(R) /\ s.written = <<>>)
      <3>1. q = [step |-> q.step, records |-> q.records, expected |-> q.expected] /\ q.step # "write"
        BY <1>1, <1>3 DEF Imports!LookingType
      <3> HIDE DEF all
      <3> QED
        BY <2>1, <3>1
    <2> HIDE DEF s, all, R
    <2>5. HolderOK(s, imported', credit', handled)
      <3> SUFFICES ASSUME NEW i \in 1 .. Len(R), R[i] \in Imports!Record \ handled
                   PROVE  PlaceOK(s, i, imported[R[i]], credit[R[i]])
        BY <1>1, <2>3 DEF HolderOK
      <3>1. CASE s.step = "preflight"
        BY <1>4, <2>1, <2>2, <2>4, <3>1 DEF PlaceOK
      <3>2. CASE s.step = "write"
        <4>1. Len(<<>>) = 0 /\ i \in 1 .. n
          BY <2>4, <3>2, EmptySeq
        <4> QED
          BY <1>4, <2>2, <2>4, <3>2, <4>1 DEF PlaceOK
      <3> QED
        BY <2>3, <3>1, <3>2
    <2>6. \A z \in Importer \ {p} : ~ Imports!Holding(importer[z])
      BY <1>2 DEF LedgerInv
    <2>7. importer' = [importer EXCEPT ![p] = s] /\ UNCHANGED <<lock, collided>>
      BY <1>1, <1>6 DEF s, all, R
    <2> QED
      BY <1>1, <1>2, <2>3, <2>5, <2>6, <2>7, ImporterMoves DEF LedgerInv
  <1> QED
    BY <1>5, <1>6

\* What writing a record, or finding it, does to the names.
LEMMA WrittenFiles ==
  ASSUME LedgerInv, NEW r \in Imports!Record,
         imported' = IF imported[r] = "absent" THEN [imported EXCEPT ![r] = "record"] ELSE imported
  PROVE  /\ imported' \in [Imports!Record -> {"absent", "record", "other"}]
         /\ \A x \in Imports!Record : x # r => imported'[x] = imported[x]
         /\ imported[r] # "other" => imported'[r] = "record"
         /\ \A x \in Imports!Record : imported[x] = "record" => imported'[x] = "record"
         /\ \A x \in Imports!Record : imported'[x] = "absent" => imported[x] = "absent"
  <1>1. imported \in [Imports!Record -> {"absent", "record", "other"}]
    BY DEF LedgerInv
  <1>2. CASE imported[r] = "absent"
    BY <1>1, <1>2
  <1>3. CASE imported[r] # "absent"
    BY <1>1, <1>3
  <1> QED
    BY <1>2, <1>3

\* A record has its predecessors' names.
LEMMA PreviousRecord ==
  ASSUME Imports!ImportConstants, NEW r \in Imports!Record, r[2] > 0
  PROVE  Imports!Previous(r) \in Imports!Record
  BY DEF Imports!ImportConstants, Imports!Record, Imports!Previous

LEMMA WriteRecordKeeps ==
  ASSUME Imports!ImportConstants, LedgerInv, NEW p \in Importer, Imports!WriteRecord(p)
  PROVE  LedgerInv'
  <1> DEFINE q == importer[p]
             R == q.records
             E == q.expected
             n == Len(q.written) + 1
             r == R[n]
             s == [q EXCEPT !.written = Append(@, r)]
  <1>1. /\ q.step = "write" /\ UNCHANGED <<log, handled>>
        /\ imported' = IF imported[r] = "absent" THEN [imported EXCEPT ![r] = "record"] ELSE imported
        /\ IF imported[r] = "other" \/ Imports!Disposition(r) # E[n]
           THEN Imports!Collide(p, r) /\ UNCHANGED <<credit, reported>>
           ELSE IF n = Len(R)
                THEN Imports!Report(p) /\ UNCHANGED collided
                ELSE importer' = [importer EXCEPT ![p] = s] /\ UNCHANGED <<lock, credit, reported, collided>>
    BY DEF Imports!WriteRecord, Imports!Step, Imports!Target
  <1>2. /\ Imports!ImporterOK(q) /\ lock = p /\ HolderOK(q, imported, credit, handled)
        /\ RecordsOK(imported, credit, reported, collided, handled)
        /\ credit \in [Imports!Record -> Nat]
    BY <1>1 DEF LedgerInv, Imports!Holding
  <1>3. /\ R \in Imports!Listing /\ E \in Imports!Expected /\ Len(E) = Len(R) /\ Len(q.written) < Len(R)
        /\ q \in Imports!WritingType /\ q.written \in Seq(Imports!Record)
    BY <1>1, <1>2, StageFields DEF Imports!ImporterOK, Imports!Idle, Imports!ReadingType, Imports!LookingType
  <1>4. Len(q.written) \in Nat /\ Len(R) \in Nat /\ n \in 1 .. Len(R) /\ r \in Imports!Record
    <2>1. Len(q.written) \in Nat
      BY <1>3, LenProperties
    <2>2. Len(R) \in Nat /\ \A i \in 1 .. Len(R) : R[i] \in Imports!Record
      BY <1>3, PlaceOfList
    <2> QED
      BY <1>3, <2>1, <2>2
  <1>5. /\ imported' \in [Imports!Record -> {"absent", "record", "other"}]
        /\ \A x \in Imports!Record : x # r => imported'[x] = imported[x]
        /\ imported[r] # "other" => imported'[r] = "record"
        /\ \A x \in Imports!Record : imported[x] = "record" => imported'[x] = "record"
        /\ \A x \in Imports!Record : imported'[x] = "absent" => imported[x] = "absent"
    BY <1>1, <1>4, WrittenFiles
  <1>6. \A z \in Importer \ {p} : ~ Imports!Holding(importer[z])
    BY <1>2 DEF LedgerInv
  <1>7. ASSUME NEW i \in 1 .. Len(R), R[i] \notin handled
        PROVE  /\ R[i] \in Imports!Record
               /\ i < n => imported[R[i]] = "record" /\ (E[i] = "created" => credit[R[i]] = 0)
               /\ i >= n => (E[i] = "created" <=> imported[R[i]] = "absent")
    <2>1. R[i] \in Imports!Record
      BY <1>3, PlaceOfList
    <2>2. PlaceOK(q, i, imported[R[i]], credit[R[i]])
      BY <1>2, <1>7, <2>1 DEF HolderOK
    <2> QED
      BY <1>1, <1>4, <2>1, <2>2 DEF PlaceOK
  <1>8. CASE imported[r] = "other" \/ Imports!Disposition(r) # E[n]
    <2>1. r \in handled
      <3>1. SUFFICES ASSUME r \notin handled PROVE FALSE
        OBVIOUS
      <3>2. imported[r] \in {"absent", "record"}
        BY <1>2, <1>4, <3>1 DEF RecordsOK, RecordOK
      <3>3. E[n] = "created" <=> imported[r] = "absent"
        <4>1. n \in 1 .. Len(R) /\ n >= n /\ R[n] \notin handled
          BY <1>4, <3>1
        <4> HIDE DEF n, E, R
        <4> QED
          BY <1>7, <4>1
      <3>4. E[n] \in {"created", "duplicate"}
        BY <1>3, <1>4, ElementOfSeq DEF Imports!Expected
      <3> QED
        BY <1>8, <3>2, <3>3, <3>4 DEF Imports!Disposition
    <2>2. /\ importer' = [importer EXCEPT ![p] = Imports!Idle] /\ UNCHANGED <<credit, reported>>
          /\ collided' = collided \cup {r}
      BY <1>1, <1>8 DEF Imports!Collide, Imports!Step
    <2>3. RecordsOK(imported', credit', reported', collided', handled)
      <3> SUFFICES ASSUME NEW x \in Imports!Record \ handled
                   PROVE  RecordOK(x, imported', credit', reported', collided', handled)
        BY DEF RecordsOK
      <3>1. RecordOK(x, imported, credit, reported, collided, handled) /\ x # r
        BY <1>2, <2>1 DEF RecordsOK
      <3>2. x[2] > 0 => Imports!Previous(x) \in Imports!Record
        BY PreviousRecord
      <3> QED
        BY <1>5, <2>2, <3>1, <3>2 DEF RecordOK
    <2> QED
      BY <1>1, <1>2, <1>5, <1>6, <2>2, <2>3, IdleKept, ImporterMoves DEF LedgerInv
  <1>9. ASSUME imported[r] # "other"
        PROVE  /\ \A i \in 1 .. n : R[i] \notin handled =>
                    imported'[R[i]] = "record" /\ (E[i] = "created" => credit[R[i]] = 0)
               /\ \A i \in 1 .. Len(R) : i > n /\ R[i] \notin handled =>
                    (E[i] = "created" <=> imported'[R[i]] = "absent")
               /\ RecordsOK(imported', credit, reported, collided, handled)
    <2>1. ASSUME NEW i \in 1 .. n, R[i] \notin handled
          PROVE  imported'[R[i]] = "record" /\ (E[i] = "created" => credit[R[i]] = 0)
      <3>1. i \in 1 .. Len(R)
        BY <1>4
      <3>2. CASE i = n
        <4>1. E[n] = "created" => credit[r] = 0
          BY <1>2, <1>4, <1>7, <2>1, <3>2 DEF RecordsOK, RecordOK
        <4> QED
          BY <1>5, <1>9, <3>2, <4>1
      <3>3. CASE i # n
        BY <1>4, <1>5, <1>7, <2>1, <3>1, <3>3
      <3> QED
        BY <3>2, <3>3
    <2>2. ASSUME NEW i \in 1 .. Len(R), i > n, R[i] \notin handled
          PROVE  E[i] = "created" <=> imported'[R[i]] = "absent"
      <3>1. R[i] # r /\ R[i] \in Imports!Record
        BY <1>3, <1>4, <2>2, PlaceOfList
      <3> QED
        BY <1>4, <1>5, <1>7, <2>2, <3>1
    <2>3. ASSUME NEW x \in Imports!Record \ handled
          PROVE  RecordOK(x, imported', credit, reported, collided, handled)
      <3>1. RecordOK(x, imported, credit, reported, collided, handled)
        BY <1>2 DEF RecordsOK
      <3>2. imported'[x] = "record" /\ x[2] > 0 =>
              imported'[Imports!Previous(x)] = "record" \/ Imports!Previous(x) \in handled
        <4>1. SUFFICES ASSUME x[2] > 0, imported'[x] = "record", Imports!Previous(x) \notin handled
                       PROVE  imported'[Imports!Previous(x)] = "record"
          OBVIOUS
        <4>2. Imports!Previous(x) \in Imports!Record
          BY <4>1, PreviousRecord
        <4>3. CASE imported[x] = "record"
          BY <1>5, <3>1, <4>1, <4>2, <4>3 DEF RecordOK
        <4>4. CASE imported[x] # "record"
          <5>1. x = r
            BY <1>5, <4>1, <4>4
          <5>2. PICK j \in 1 .. n - 1 : R[j] = Imports!Previous(r)
            BY <1>3, <1>4, <4>1, <5>1, PlaceOfList
          <5> QED
            BY <1>4, <2>1, <4>1, <5>1, <5>2
        <4> QED
          BY <4>3, <4>4
      <3> QED
        BY <1>5, <1>9, <3>1, <3>2 DEF RecordOK
    <2> QED
      BY <2>1, <2>2, <2>3 DEF RecordsOK
  <1>10. CASE imported[r] # "other" /\ Imports!Disposition(r) = E[n] /\ n = Len(R)
    <2>1. /\ importer' = [importer EXCEPT ![p] = Imports!Idle] /\ UNCHANGED collided
          /\ credit' = [x \in Imports!Record |-> credit[x] + (IF x \in Imports!Created(p) THEN 1 ELSE 0)]
          /\ reported' = reported \cup {R[i] : i \in DOMAIN R}
      BY <1>1, <1>10 DEF Imports!Report, Imports!Step
    <2>2. credit' \in [Imports!Record -> Nat]
      BY <1>2, <2>1
    <2>3. DOMAIN R = 1 .. n /\ DOMAIN E = 1 .. n
      BY <1>3, <1>10, LenProperties DEF Imports!Listing, Imports!Expected
    <2>4. ASSUME NEW x \in Imports!Record \ handled
          PROVE  RecordOK(x, imported', credit', reported', collided', handled)
      <3>1. RecordOK(x, imported', credit, reported, collided, handled) /\ credit[x] \in Nat
        BY <1>2, <1>9, <1>10 DEF RecordsOK
      <3>2. x \in {R[i] : i \in DOMAIN R} => imported'[x] = "record"
        BY <1>9, <1>10, <2>3
      <3>3. CASE x \in Imports!Created(p)
        <4>1. PICK i \in 1 .. n : E[i] = "created" /\ x = R[i]
          BY <2>3, <3>3 DEF Imports!Created
        <4>2. credit[x] = 0 /\ imported'[x] = "record"
          BY <1>9, <1>10, <4>1
        <4>3. credit'[x] = 1
          BY <2>1, <3>3, <4>2
        <4> QED
          BY <2>1, <3>1, <4>2, <4>3 DEF RecordOK
      <3>4. CASE x \notin Imports!Created(p)
        <4>1. credit'[x] = credit[x]
          BY <2>1, <3>1, <3>4
        <4> QED
          BY <2>1, <3>1, <3>2, <4>1 DEF RecordOK
      <3> QED
        BY <3>3, <3>4
    <2>5. RecordsOK(imported', credit', reported', collided', handled)
      BY <2>4 DEF RecordsOK
    <2> QED
      BY <1>1, <1>5, <1>6, <2>1, <2>2, <2>5, IdleKept, ImporterMoves
  <1>11. CASE imported[r] # "other" /\ Imports!Disposition(r) = E[n] /\ n # Len(R)
    <2>1. importer' = [importer EXCEPT ![p] = s] /\ UNCHANGED <<lock, credit, reported, collided>>
      BY <1>1, <1>11
    <2>2. Append(q.written, r) \in Seq(Imports!Record) /\ Len(Append(q.written, r)) = n
      BY <1>3, <1>4, AppendProperties
    <2>3. s = [step |-> "write", records |-> R, expected |-> E, written |-> Append(q.written, r)]
      <3>1. /\ q = [step |-> q.step, records |-> q.records, expected |-> q.expected, written |-> q.written]
            /\ q.step = "write"
        BY <1>1, <1>3 DEF Imports!WritingType
      <3> QED
        BY <3>1
    <2> HIDE DEF s, R, E
    <2>4. Imports!ImporterOK(s)
      BY <1>3, <1>4, <1>11, <2>2, <2>3 DEF Imports!ImporterOK, Imports!WritingType
    <2>5. HolderOK(s, imported', credit', handled)
      <3>1. s.step = "write" /\ s.records = R /\ s.expected = E /\ Len(s.written) = n
        BY <2>2, <2>3
      <3> SUFFICES ASSUME NEW i \in 1 .. Len(R), R[i] \notin handled
                   PROVE  PlaceOK(s, i, imported'[R[i]], credit[R[i]])
        BY <2>1, <3>1 DEF HolderOK
      <3>2. i <= n => i \in 1 .. n
        BY <1>4
      <3> QED
        BY <1>4, <1>9, <1>11, <3>1, <3>2 DEF PlaceOK
    <2> QED
      BY <1>1, <1>2, <1>5, <1>6, <1>9, <1>11, <2>1, <2>4, <2>5, ImporterMoves
  <1> QED
    BY <1>8, <1>10, <1>11

\* The owner edits the ledger, or touches a file or the output directory.
LEMMA LedgerOwnerKeeps ==
  ASSUME Imports!ImportConstants, LedgerInv,
         \/ \E text \in Logs : Imports!EditLog(text)
         \/ \E r \in Imports!Record, bytes \in {"absent", "record", "other"} : Imports!TouchFile(r, bytes)
         \/ \E what \in {"foreign", "empty"} : Imports!TouchOutput(what)
  PROVE  LedgerInv'
  <1>1. CASE \E text \in Logs : Imports!EditLog(text)
    BY <1>1 DEF Imports!EditLog, LedgerInv
  <1>2. CASE \E what \in {"foreign", "empty"} : Imports!TouchOutput(what)
    <2>1. UNCHANGED <<log, imported, lock, importer, credit, reported, collided>> /\ handled \subseteq handled'
      BY <1>2 DEF Imports!TouchOutput, Imports!Touching, Imports!ledger
    <2>2. RecordsOK(imported', credit', reported', collided', handled')
      BY <2>1, TouchedMore DEF LedgerInv
    <2>3. \A p \in Importer : Imports!Holding(importer[p]) => HolderOK(importer[p], imported', credit', handled')
      BY <2>1, HeldMore DEF LedgerInv
    <2> QED
      BY <2>1, <2>2, <2>3 DEF LedgerInv
  <1>3. ASSUME NEW r \in Imports!Record, NEW bytes \in {"absent", "record", "other"},
               Imports!TouchFile(r, bytes)
        PROVE  LedgerInv'
    <2>1. /\ UNCHANGED <<log, lock, importer, credit, reported, collided>> /\ handled' = handled \cup {r}
          /\ imported' = [imported EXCEPT ![r] = bytes]
      BY <1>3 DEF Imports!TouchFile, Imports!Touching
    <2>2. /\ imported' \in [Imports!Record -> {"absent", "record", "other"}]
          /\ \A x \in Imports!Record : x # r => imported'[x] = imported[x]
      BY <2>1 DEF LedgerInv
    <2>3. ASSUME NEW x \in Imports!Record \ handled'
          PROVE  RecordOK(x, imported', credit', reported', collided', handled')
      <3>1. RecordOK(x, imported, credit, reported, collided, handled) /\ x # r
        BY <2>1 DEF LedgerInv, RecordsOK
      <3>2. x[2] > 0 => Imports!Previous(x) \in Imports!Record
        BY PreviousRecord
      <3>3. imported'[x] = imported[x]
        BY <2>2, <3>1
      <3>4. imported'[x] = "record" /\ x[2] > 0 =>
              imported'[Imports!Previous(x)] = "record" \/ Imports!Previous(x) \in handled'
        BY <2>1, <2>2, <3>1, <3>2, <3>3 DEF RecordOK
      <3> QED
        BY <2>1, <3>1, <3>3, <3>4 DEF RecordOK
    <2>4. ASSUME NEW p \in Importer, Imports!Holding(importer[p])
          PROVE  HolderOK(importer[p], imported', credit', handled')
      <3>1. HolderOK(importer[p], imported, credit, handled)
        BY <2>4 DEF LedgerInv
      <3> SUFFICES ASSUME NEW i \in 1 .. Len(importer[p].records),
                          importer[p].records[i] \in Imports!Record \ handled'
                   PROVE  PlaceOK(importer[p], i, imported'[importer[p].records[i]], credit'[importer[p].records[i]])
        BY DEF HolderOK
      <3>2. importer[p].records[i] \in Imports!Record \ handled /\ importer[p].records[i] # r
        BY <2>1
      <3> QED
        BY <2>1, <2>2, <3>1, <3>2 DEF HolderOK
    <2>5. RecordsOK(imported', credit', reported', collided', handled')
      BY <2>3 DEF RecordsOK
    <2> QED
      BY <2>1, <2>2, <2>4, <2>5 DEF LedgerInv
  <1> QED
    BY <1>1, <1>2, <1>3

-----------------------------------------------------------------------------
(***************************************************************************)
(* Imports: the bundle                                                     *)
(***************************************************************************)
LEMMA BundlerStages ==
  ASSUME NEW w, Imports!WriterOK(w)
  PROVE  /\ w.step = "pending" => \E q \in Imports!Granted : w.request = q
         /\ w.step \in {"filled", "looked"} =>
              \E q \in Imports!Granted :
                w = [step |-> w.step, request |-> q, records |-> Imports!Specs(q.task),
                     receipt |-> Imports!Receipt(q.task, q.policy)]
  BY DEF Imports!WriterOK, Imports!Idle

\* A bundle that moves on.
LEMMA BundlerMoves ==
  ASSUME BundleInv, NEW p \in Bundler, NEW w, bundler' = [bundler EXCEPT ![p] = w], Imports!WriterOK(w),
         UNCHANGED handled, Imports!Output \notin handled => OutputOK(output', claims'),
         output' \in [is : {"absent", "foreign", "empty"}] \cup Imports!Bundles,
         claims' \subseteq Imports!Bundles
  PROVE  BundleInv'
  <1>1. DOMAIN bundler' = Bundler /\ bundler'[p] = w /\ \A q \in Bundler \ {p} : bundler'[q] = bundler[q]
    BY DEF BundleInv
  <1>2. \A q \in Bundler : Imports!WriterOK(bundler'[q])
    BY <1>1 DEF BundleInv
  <1> QED
    BY <1>1, <1>2 DEF BundleInv

LEMMA BundlerKeeps ==
  ASSUME BundleInv, NEW p \in Bundler,
         \/ \E request \in BundlePolicies : Imports!BeginBundle(p, request)
         \/ Imports!FillBundle(p)
         \/ Imports!RefuseExisting(p)
         \/ Imports!LookAgain(p)
         \/ Imports!RenameBundle(p)
         \/ Imports!WriterDies(p)
  PROVE  BundleInv'
  <1>1. /\ Imports!WriterOK(bundler[p]) /\ (Imports!Output \notin handled => OutputOK(output, claims))
        /\ Imports!WriterOK(Imports!Idle)
        /\ output \in [is : {"absent", "foreign", "empty"}] \cup Imports!Bundles /\ claims \subseteq Imports!Bundles
    BY DEF BundleInv, Imports!WriterOK
  <1>2. ASSUME NEW request \in BundlePolicies, Imports!BeginBundle(p, request)
        PROVE  BundleInv'
    <2> DEFINE w == [step |-> "pending", request |-> request]
    <2>1. Imports!WriterOK(w)
      BY <1>2 DEF Imports!WriterOK, Imports!BeginBundle, Imports!Granted
    <2>2. bundler' = [bundler EXCEPT ![p] = w] /\ UNCHANGED <<handled, output, claims>>
      BY <1>2 DEF Imports!BeginBundle, Imports!Work
    <2> HIDE DEF w
    <2> QED
      BY <1>1, <2>1, <2>2, BundlerMoves
  <1>3. CASE Imports!FillBundle(p)
    <2> DEFINE w == [step |-> "filled", request |-> bundler[p].request,
                     records |-> Imports!Specs(bundler[p].request.task),
                     receipt |-> Imports!Receipt(bundler[p].request.task, bundler[p].request.policy)]
    <2>1. PICK q \in Imports!Granted : bundler[p].request = q
      BY <1>1, <1>3, BundlerStages DEF Imports!FillBundle
    <2>2. Imports!WriterOK(w)
      BY <2>1 DEF Imports!WriterOK
    <2>3. bundler' = [bundler EXCEPT ![p] = w] /\ UNCHANGED <<handled, output, claims>>
      BY <1>3 DEF Imports!FillBundle, Imports!Work
    <2> HIDE DEF w
    <2> QED
      BY <1>1, <2>2, <2>3, BundlerMoves
  <1>4. CASE Imports!RefuseExisting(p) \/ Imports!WriterDies(p)
    <2>1. bundler' = [bundler EXCEPT ![p] = Imports!Idle] /\ UNCHANGED <<handled, output, claims>>
      BY <1>4 DEF Imports!RefuseExisting, Imports!WriterDies, Imports!Work
    <2> QED
      BY <1>1, <2>1, BundlerMoves
  <1>5. CASE Imports!LookAgain(p)
    <2> DEFINE w == [bundler[p] EXCEPT !.step = "looked"]
    <2>1. PICK q \in Imports!Granted :
            bundler[p] = [step |-> bundler[p].step, request |-> q, records |-> Imports!Specs(q.task),
                          receipt |-> Imports!Receipt(q.task, q.policy)]
      BY <1>1, <1>5, BundlerStages DEF Imports!LookAgain
    <2>2. w = [step |-> "looked", request |-> q, records |-> Imports!Specs(q.task),
               receipt |-> Imports!Receipt(q.task, q.policy)]
      BY <2>1
    <2>3. bundler' = [bundler EXCEPT ![p] = w] /\ UNCHANGED <<handled, output, claims>>
      BY <1>5 DEF Imports!LookAgain, Imports!Work
    <2> HIDE DEF w
    <2>4. Imports!WriterOK(w)
      BY <2>2 DEF Imports!WriterOK
    <2> QED
      BY <1>1, <2>3, <2>4, BundlerMoves
  <1>6. CASE Imports!RenameBundle(p)
    <2> DEFINE b == [is |-> "bundle", records |-> bundler[p].records, receipt |-> bundler[p].receipt]
    <2>1. /\ IF output.is \in {"absent", "empty"}
             THEN output' = b /\ claims' = claims \cup {b}
             ELSE UNCHANGED <<output, claims>>
          /\ bundler' = [bundler EXCEPT ![p] = Imports!Idle] /\ UNCHANGED handled
      BY <1>6 DEF Imports!RenameBundle, Imports!Work
    <2>2. PICK q \in Imports!Granted :
            bundler[p] = [step |-> bundler[p].step, request |-> q, records |-> Imports!Specs(q.task),
                          receipt |-> Imports!Receipt(q.task, q.policy)]
      BY <1>1, <1>6, BundlerStages DEF Imports!RenameBundle
    <2>3. b = Imports!Bundle(q) /\ b \in Imports!Bundles
      BY <2>2 DEF Imports!Bundle, Imports!Bundles
    <2> HIDE DEF b
    <2>4. ASSUME Imports!Output \notin handled PROVE OutputOK(output', claims')
      <3>1. CASE claims = {} /\ output = [is |-> "absent"]
        BY <2>1, <2>3, <3>1 DEF OutputOK
      <3>2. CASE \E other \in Imports!Granted : claims = {Imports!Bundle(other)} /\ output = Imports!Bundle(other)
        <4>1. output.is = "bundle"
          BY <3>2 DEF Imports!Bundle
        <4> QED
          BY <2>1, <3>2, <4>1 DEF OutputOK
      <3> QED
        BY <1>1, <2>4, <3>1, <3>2 DEF OutputOK
    <2>5. /\ output' \in [is : {"absent", "foreign", "empty"}] \cup Imports!Bundles
          /\ claims' \subseteq Imports!Bundles
      BY <1>1, <2>1, <2>3
    <2> QED
      BY <1>1, <2>1, <2>4, <2>5, BundlerMoves
  <1> QED
    BY <1>2, <1>3, <1>4, <1>5, <1>6

LEMMA BundleHonest ==
  ASSUME NEW q \in Imports!Granted
  PROVE  /\ Imports!Bundle(q).records = Imports!Bundle(q).receipt.admitted
         /\ Imports!Sanitized(Imports!Bundle(q).receipt) = Imports!Bundle(q).receipt.counts
         /\ \E z \in BundlePolicies : Imports!Admitted(z) /\ Imports!Bundle(q).records = Imports!Specs(z.task)
                               /\ Imports!Bundle(q).receipt.task = z.policy.selected
  <1> DEFINE Kinds == {"decision", "research", "workstream", "question"}
             counts == [kind \in Kinds |-> Imports!Cardinality({r \in Imports!Specs(q.task) : r[1] = kind})]
  <1>1. Imports!Receipt(q.task, q.policy) =
          [task |-> q.task.id, admitted |-> Imports!Specs(q.task), counts |-> counts]
    BY DEF Imports!Receipt
  <1>2. DOMAIN counts = Kinds
    OBVIOUS
  <1>3. q.task.id = q.policy.selected
    BY DEF Imports!Granted, Imports!Admitted, Imports!Verdict, Imports!Selected
  <1> HIDE DEF counts, Kinds
  <1>4. /\ Imports!Bundle(q).records = Imports!Specs(q.task)
        /\ Imports!Bundle(q).receipt = [task |-> q.task.id, admitted |-> Imports!Specs(q.task), counts |-> counts]
    BY <1>1 DEF Imports!Bundle
  <1>5. /\ Imports!Bundle(q).receipt.task = q.task.id /\ Imports!Bundle(q).receipt.admitted = Imports!Specs(q.task)
        /\ Imports!Bundle(q).receipt.counts = counts
    BY <1>4
  <1>6. Imports!Sanitized(Imports!Bundle(q).receipt) = counts
    BY <1>2, <1>5 DEF Imports!Sanitized, counts, Kinds
  <1> QED
    BY <1>3, <1>4, <1>5, <1>6 DEF Imports!Granted

-----------------------------------------------------------------------------
(***************************************************************************)
(* Imports: the theorem                                                    *)
(***************************************************************************)
LEMMA ImportInitially ==
  ASSUME Imports!ImportConstants, Imports!Init
  PROVE  ImportInv
  <1>1. LedgerInv
    <2>1. imported = [r \in Imports!Record |-> "absent"] /\ credit = [r \in Imports!Record |-> 0]
      BY DEF Imports!Init
    <2>2. RecordsOK(imported, credit, reported, collided, handled)
      BY <2>1 DEF Imports!Init, RecordsOK, RecordOK
    <2>3. importer = [p \in Importer |-> Imports!Idle] /\ log \in Logs
      BY DEF Imports!Init
    <2> QED
      BY <2>1, <2>2, <2>3, IdleKept DEF LedgerInv
  <1>2. BundleInv
    BY DEF Imports!Init, BundleInv, Imports!WriterOK, OutputOK
  <1> QED
    BY <1>1, <1>2 DEF ImportInv

LEMMA ImportStep ==
  ASSUME Imports!ImportConstants, ImportInv, [Imports!Next]_(Imports!vars)
  PROVE  ImportInv'
  <1> USE DEF ImportInv
  <1>1. CASE UNCHANGED Imports!vars
    BY <1>1 DEF Imports!vars, LedgerInv, BundleInv
  <1>2. CASE \/ \E text \in Logs : Imports!EditLog(text)
             \/ \E r \in Imports!Record, bytes \in {"absent", "record", "other"} : Imports!TouchFile(r, bytes)
             \/ \E what \in {"foreign", "empty"} : Imports!TouchOutput(what)
    <2>1. LedgerInv'
      BY <1>2, LedgerOwnerKeeps
    <2>2. UNCHANGED <<bundler, claims>> /\ handled \subseteq handled'
      BY <1>2 DEF Imports!EditLog, Imports!TouchFile, Imports!TouchOutput, Imports!Touching, Imports!bundles
    <2>3. /\ UNCHANGED output \/ Imports!Output \in handled'
          /\ UNCHANGED output \/ output' \in [is : {"absent", "foreign", "empty"}]
      BY <1>2 DEF Imports!EditLog, Imports!TouchFile, Imports!TouchOutput, Imports!Touching, Imports!bundles
    <2> QED
      BY <2>1, <2>2, <2>3 DEF BundleInv
  <1>3. ASSUME NEW p \in Importer,
               \/ \E dry \in BOOLEAN : Imports!ReadLedger(p, dry)
               \/ Imports!TakeLock(p)
               \/ Imports!Preflight(p)
               \/ Imports!WriteRecord(p)
               \/ Imports!ImporterDies(p)
        PROVE  ImportInv'
    <2>1. LedgerInv'
      BY <1>3, ReadLedgerKeeps, TakeLockKeeps, PreflightStep, WriteRecordKeeps, ImporterDiesKeeps
    <2>2. UNCHANGED <<handled, output, bundler, claims>>
      BY <1>3 DEF Imports!ReadLedger, Imports!TakeLock, Imports!Preflight, Imports!WriteRecord,
                  Imports!ImporterDies, Imports!bundles
    <2> QED
      BY <2>1, <2>2 DEF BundleInv
  <1>4. ASSUME NEW p \in Bundler,
               \/ \E request \in BundlePolicies : Imports!BeginBundle(p, request)
               \/ Imports!FillBundle(p)
               \/ Imports!RefuseExisting(p)
               \/ Imports!LookAgain(p)
               \/ Imports!RenameBundle(p)
               \/ Imports!WriterDies(p)
        PROVE  ImportInv'
    <2>1. BundleInv'
      BY <1>4, BundlerKeeps
    <2>2. UNCHANGED <<log, imported, lock, importer, credit, reported, collided, handled>>
      BY <1>4 DEF Imports!BeginBundle, Imports!FillBundle, Imports!RefuseExisting, Imports!LookAgain,
                  Imports!RenameBundle, Imports!WriterDies, Imports!ledger
    <2> QED
      BY <2>1, <2>2 DEF LedgerInv
  <1> QED
    BY <1>1, <1>2, <1>3, <1>4 DEF Imports!Next

LEMMA ImportInvSuffices ==
  ASSUME Imports!ImportConstants, ImportInv
  PROVE  Imports!ImportsConverge
  <1>1. ASSUME NEW r \in Imports!Record \ handled
        PROVE  /\ credit[r] <= 1
               /\ r \in reported => imported[r] = "record"
               /\ r \notin collided
               /\ imported[r] = "record" /\ r[2] > 0 =>
                    imported[<<r[1], r[2] - 1>>] = "record" \/ <<r[1], r[2] - 1>> \in handled
    BY DEF ImportInv, LedgerInv, RecordsOK, RecordOK, Imports!Previous
  <1>2. ASSUME Imports!Output \notin handled
        PROVE  /\ Imports!Cardinality(claims) <= 1
               /\ \A b \in claims :
                    /\ output = b
                    /\ b.records = b.receipt.admitted /\ Imports!Sanitized(b.receipt) = b.receipt.counts
                    /\ \E q \in BundlePolicies : /\ Imports!Admitted(q) /\ b.records = Imports!Specs(q.task)
                                           /\ b.receipt.task = q.policy.selected
    <2>1. OutputOK(output, claims)
      BY <1>2 DEF ImportInv, BundleInv
    <2>2. CASE claims = {}
      BY <2>2, FS_EmptySet, SameCardinality
    <2>3. CASE \E q \in Imports!Granted : claims = {Imports!Bundle(q)} /\ output = Imports!Bundle(q)
      <3>1. PICK q \in Imports!Granted : claims = {Imports!Bundle(q)} /\ output = Imports!Bundle(q)
        BY <2>3
      <3>2. Imports!Cardinality(claims) = 1
        BY <3>1, FS_Singleton, SameCardinality
      <3> QED
        BY <3>1, <3>2, BundleHonest
    <2> QED
      BY <2>1, <2>2, <2>3 DEF OutputOK
  <1> QED
    BY <1>1, <1>2 DEF Imports!ImportsConverge

-----------------------------------------------------------------------------
(***************************************************************************)
(* Imports: types                                                          *)
(***************************************************************************)
ActiveIn(imps) == {p \in Importer : imps[p] # Imports!Idle}

\* Every import that was begun is still going on, was credited once at most, or
\* came to nothing.
ImportTyped ==
  /\ lock \in Importer \cup {Nobody}
  /\ edits \in 0 .. MaxLogEdits /\ imports \in 0 .. MaxImports
  /\ reported \subseteq Imports!Record /\ collided \subseteq Imports!Record
  /\ IsFiniteSet(ActiveIn(importer))
  /\ \A r \in Imports!Record : credit[r] + Cardinality(ActiveIn(importer)) <= imports

LEMMA ActiveCounted ==
  ASSUME LedgerInv, NEW p \in Importer, NEW s, importer' = [importer EXCEPT ![p] = s],
         IsFiniteSet(ActiveIn(importer))
  PROVE  /\ Cardinality(ActiveIn(importer)) \in Nat
         /\ IsFiniteSet(ActiveIn(importer')) /\ Cardinality(ActiveIn(importer')) \in Nat
         /\ importer[p] # Imports!Idle /\ s = Imports!Idle =>
              Cardinality(ActiveIn(importer')) = Cardinality(ActiveIn(importer)) - 1
         /\ importer[p] # Imports!Idle /\ s # Imports!Idle =>
              Cardinality(ActiveIn(importer')) = Cardinality(ActiveIn(importer))
         /\ importer[p] = Imports!Idle =>
              Cardinality(ActiveIn(importer')) <= Cardinality(ActiveIn(importer)) + 1
  <1> DEFINE A == ActiveIn(importer)
             B == ActiveIn(importer')
  <1>1. DOMAIN importer = Importer
    BY DEF LedgerInv
  <1>2. importer'[p] = s /\ \A q \in Importer \ {p} : importer'[q] = importer[q]
    BY <1>1
  <1>3. /\ s = Imports!Idle => B = A \ {p}
        /\ s # Imports!Idle => B = A \cup {p}
        /\ p \in A <=> importer[p] # Imports!Idle
    BY <1>2 DEF ActiveIn
  <1> HIDE DEF A, B
  <1>4. IsFiniteSet(A)
    BY DEF A
  <1>5. Cardinality(A) \in Nat
    BY <1>4, FS_CardinalityType
  <1>6. CASE s = Imports!Idle
    <2>1. IsFiniteSet(B) /\ Cardinality(B) = IF p \in A THEN Cardinality(A) - 1 ELSE Cardinality(A)
      BY <1>3, <1>4, <1>6, FS_RemoveElement
    <2>2. Cardinality(B) \in Nat
      BY <2>1, FS_CardinalityType
    <2> QED
      BY <1>3, <1>5, <1>6, <2>1, <2>2 DEF A, B
  <1>7. CASE s # Imports!Idle
    <2>1. IsFiniteSet(B) /\ Cardinality(B) = IF p \in A THEN Cardinality(A) ELSE Cardinality(A) + 1
      BY <1>3, <1>4, <1>7, FS_AddElement
    <2>2. Cardinality(B) \in Nat
      BY <2>1, FS_CardinalityType
    <2> QED
      BY <1>3, <1>5, <1>7, <2>1, <2>2 DEF A, B
  <1> QED
    BY <1>6, <1>7

\* An import that is going on moves on or ends.
LEMMA ImportMovesTyped ==
  ASSUME LedgerInv, ImportTyped, NEW p \in Importer, NEW s, importer[p] # Imports!Idle,
         importer' = [importer EXCEPT ![p] = s],
         UNCHANGED <<edits, imports>>,
         lock' \in Importer \cup {Nobody},
         reported' \subseteq Imports!Record, collided' \subseteq Imports!Record,
         \/ s # Imports!Idle /\ credit' = credit
         \/ s = Imports!Idle /\ \A r \in Imports!Record : credit'[r] \in {credit[r], credit[r] + 1}
  PROVE  ImportTyped'
  <1> DEFINE n == Cardinality(ActiveIn(importer))
             m == Cardinality(ActiveIn(importer'))
  <1>1. /\ IsFiniteSet(ActiveIn(importer')) /\ n \in Nat /\ m \in Nat
        /\ s = Imports!Idle => m = n - 1
        /\ s # Imports!Idle => m = n
    BY ActiveCounted DEF ImportTyped
  <1>2. ASSUME NEW r \in Imports!Record PROVE credit'[r] + m <= imports
    <2>1. credit[r] \in Nat /\ credit[r] + n <= imports /\ imports \in Nat
      BY DEF LedgerInv, ImportTyped
    <2> HIDE DEF n, m
    <2> QED
      BY <1>1, <2>1
  <1> QED
    BY <1>1, <1>2 DEF ImportTyped

LEMMA ImporterTyped ==
  ASSUME Imports!ImportConstants, LedgerInv, ImportTyped, NEW p \in Importer,
         \/ Imports!TakeLock(p)
         \/ Imports!Preflight(p)
         \/ Imports!WriteRecord(p)
         \/ Imports!ImporterDies(p)
  PROVE  ImportTyped'
  <1> DEFINE q == importer[p]
             Released == lock' = IF lock = p THEN Nobody ELSE lock
  <1>1. Released \/ lock' \in {p, lock} => lock' \in Importer \cup {Nobody}
    BY DEF ImportTyped
  <1>2. q # Imports!Idle /\ UNCHANGED <<edits, imports>>
    BY DEF Imports!TakeLock, Imports!Preflight, Imports!WriteRecord, Imports!ImporterDies, Imports!Idle
  <1>3. reported \subseteq Imports!Record /\ collided \subseteq Imports!Record
        /\ \A r \in Imports!Record : credit[r] \in Nat
    BY DEF ImportTyped, LedgerInv
  <1>4. q.step \in {"preflight", "write"} =>
          \A i \in 1 .. Len(q.records) : q.records[i] \in Imports!Record
    BY StageFields, PlaceOfList DEF LedgerInv
  <1>5. CASE Imports!TakeLock(p)
    <2>1. \E s : /\ s.step = "preflight" /\ importer' = [importer EXCEPT ![p] = s]
                 /\ UNCHANGED <<reported, collided, credit>> /\ lock' = p
      BY <1>5 DEF Imports!TakeLock, Imports!Step
    <2> QED
      BY <1>1, <1>2, <1>3, <2>1, ImportMovesTyped DEF Imports!Idle
  <1>6. CASE Imports!Preflight(p)
    <2> DEFINE r == q.records[Len(q.expected) + 1]
               all == Append(q.expected, Imports!Disposition(r))
    <2>1. q.step = "preflight" /\ r \in Imports!Record
      <3>1. /\ q.step = "preflight" /\ q.expected \in Imports!Expected /\ q.records \in Imports!Listing
            /\ Len(q.expected) < Len(q.records)
        BY <1>6, StageFields DEF Imports!Preflight, LedgerInv
      <3>2. Len(q.expected) \in Nat /\ Len(q.records) \in Nat
        BY <3>1, LenProperties, PlaceOfList DEF Imports!Expected
      <3>3. Len(q.expected) + 1 \in 1 .. Len(q.records)
        BY <3>1, <3>2
      <3> QED
        BY <1>4, <3>1, <3>3
    <2>2. CASE imported[r] = "other"
      <3>1. /\ importer' = [importer EXCEPT ![p] = Imports!Idle] /\ Released
            /\ collided' = collided \cup {r} /\ UNCHANGED <<reported, credit>>
        BY <1>6, <2>2 DEF Imports!Preflight, Imports!Collide, Imports!Step, Imports!Release, Imports!Target
      <3> QED
        BY <1>1, <1>2, <1>3, <2>1, <3>1, ImportMovesTyped
    <2>3. CASE imported[r] # "other"
      <3> DEFINE s == IF Len(all) = Len(q.records)
                      THEN [step |-> "write", records |-> q.records, expected |-> all, written |-> <<>>]
                      ELSE [q EXCEPT !.expected = all]
      <3>1. importer' = [importer EXCEPT ![p] = s] /\ UNCHANGED <<lock, collided, reported, credit>>
        BY <1>6, <2>3 DEF Imports!Preflight, Imports!Step, Imports!Target
      <3>2. s # Imports!Idle
        <4>1. q = [step |-> "preflight", records |-> q.records, expected |-> q.expected]
          BY <2>1 DEF LedgerInv, Imports!ImporterOK, Imports!Idle, Imports!ReadingType, Imports!LookingType, Imports!WritingType
        <4>2. s.step \in {"write", "preflight"}
          BY <4>1
        <4> QED
          BY <4>2 DEF Imports!Idle
      <3> HIDE DEF s
      <3> QED
        BY <1>1, <1>2, <1>3, <3>1, <3>2, ImportMovesTyped
    <2> QED
      BY <2>2, <2>3
  <1>7. CASE Imports!WriteRecord(p)
    <2> DEFINE r == q.records[Len(q.written) + 1]
    <2>1. q.step = "write" /\ r \in Imports!Record
      <3>1. /\ q.step = "write" /\ q.written \in Seq(Imports!Record) /\ q.records \in Imports!Listing
            /\ Len(q.written) < Len(q.records)
        BY <1>7, StageFields DEF Imports!WriteRecord, LedgerInv
      <3>2. Len(q.written) \in Nat /\ Len(q.records) \in Nat
        BY <3>1, LenProperties, PlaceOfList
      <3>3. Len(q.written) + 1 \in 1 .. Len(q.records)
        BY <3>1, <3>2
      <3> QED
        BY <1>4, <3>1, <3>3
    <2>2. CASE Imports!Collide(p, r) /\ UNCHANGED <<credit, reported>>
      <3>1. /\ importer' = [importer EXCEPT ![p] = Imports!Idle] /\ Released
            /\ collided' = collided \cup {r} /\ UNCHANGED <<reported, credit>>
        BY <2>2 DEF Imports!Collide, Imports!Step, Imports!Release
      <3> QED
        BY <1>1, <1>2, <1>3, <2>1, <3>1, ImportMovesTyped
    <2>3. CASE Imports!Report(p) /\ UNCHANGED collided
      <3>1. /\ importer' = [importer EXCEPT ![p] = Imports!Idle] /\ Released /\ UNCHANGED collided
            /\ reported' = reported \cup {q.records[i] : i \in DOMAIN q.records}
            /\ credit' = [x \in Imports!Record |-> credit[x] + (IF x \in Imports!Created(p) THEN 1 ELSE 0)]
        BY <2>3 DEF Imports!Report, Imports!Step, Imports!Release
      <3>2. \A x \in Imports!Record : credit'[x] \in {credit[x], credit[x] + 1}
        <4> SUFFICES ASSUME NEW x \in Imports!Record PROVE credit'[x] \in {credit[x], credit[x] + 1}
          OBVIOUS
        <4>1. credit'[x] = credit[x] + (IF x \in Imports!Created(p) THEN 1 ELSE 0) /\ credit[x] \in Nat
          BY <1>3, <3>1
        <4> QED
          BY <4>1
      <3>3. reported' \subseteq Imports!Record
        <4>1. q.records \in Seq(Imports!Record)
          BY <2>1, StageFields DEF LedgerInv, Imports!Listing
        <4>2. DOMAIN q.records = 1 .. Len(q.records)
          BY <4>1, LenProperties
        <4> QED
          BY <1>3, <1>4, <2>1, <3>1, <4>2
      <3> QED
        BY <1>1, <1>2, <1>3, <3>1, <3>2, <3>3, ImportMovesTyped
    <2>4. CASE /\ importer' = [importer EXCEPT ![p] = [q EXCEPT !.written = Append(@, r)]]
               /\ UNCHANGED <<lock, credit, reported, collided>>
      <3> DEFINE s == [q EXCEPT !.written = Append(@, r)]
      <3>1. s # Imports!Idle
        <4>1. q = [step |-> "write", records |-> q.records, expected |-> q.expected, written |-> q.written]
          BY <2>1 DEF LedgerInv, Imports!ImporterOK, Imports!Idle, Imports!ReadingType, Imports!LookingType, Imports!WritingType
        <4>2. s.step = "write"
          BY <4>1
        <4> QED
          BY <4>2 DEF Imports!Idle
      <3>2. importer' = [importer EXCEPT ![p] = s]
        BY <2>4
      <3> HIDE DEF s
      <3> QED
        BY <1>1, <1>2, <1>3, <2>4, <3>1, <3>2, ImportMovesTyped
    <2> QED
      BY <1>7, <2>2, <2>3, <2>4 DEF Imports!WriteRecord, Imports!Target, Imports!Step
  <1>8. CASE Imports!ImporterDies(p)
    <2>1. /\ importer' = [importer EXCEPT ![p] = Imports!Idle] /\ Released
          /\ UNCHANGED <<reported, collided, credit>>
      BY <1>8 DEF Imports!ImporterDies, Imports!Step, Imports!Release
    <2> QED
      BY <1>1, <1>2, <1>3, <2>1, ImportMovesTyped
  <1> QED
    BY <1>5, <1>6, <1>7, <1>8

LEMMA ReadLedgerTyped ==
  ASSUME Imports!ImportConstants, LedgerInv, ImportTyped, NEW p \in Importer, NEW dry,
         Imports!ReadLedger(p, dry)
  PROVE  ImportTyped'
  <1>1. /\ importer[p] = Imports!Idle /\ imports < MaxImports /\ imports' = imports + 1
        /\ UNCHANGED <<lock, edits, credit, reported, collided>>
        /\ importer' = importer \/ \E s : importer' = [importer EXCEPT ![p] = s]
    BY DEF Imports!ReadLedger, Imports!Step
  <1> DEFINE n == Cardinality(ActiveIn(importer))
             m == Cardinality(ActiveIn(importer'))
  <1>2. IsFiniteSet(ActiveIn(importer')) /\ n \in Nat /\ m \in Nat /\ m <= n + 1
    <2>1. CASE importer' = importer
      <3>1. IsFiniteSet(ActiveIn(importer)) /\ n \in Nat
        BY FS_CardinalityType DEF ImportTyped
      <3>2. ActiveIn(importer') = ActiveIn(importer)
        BY <2>1
      <3> HIDE DEF n
      <3>3. m = n
        BY <3>2 DEF n
      <3> HIDE DEF m
      <3>4. m <= n + 1
        BY <3>1, <3>3
      <3> QED
        BY <3>1, <3>2, <3>3, <3>4
    <2>2. CASE \E s : importer' = [importer EXCEPT ![p] = s]
      BY <1>1, <2>2, ActiveCounted DEF ImportTyped
    <2> QED
      BY <1>1, <2>1, <2>2
  <1>3. imports \in 0 .. MaxImports /\ MaxImports \in Nat
    BY DEF ImportTyped, Imports!ImportConstants
  <1>4. ASSUME NEW r \in Imports!Record PROVE credit'[r] + m <= imports'
    <2>1. credit[r] \in Nat /\ credit[r] + n <= imports
      BY DEF LedgerInv, ImportTyped
    <2> HIDE DEF n, m
    <2> QED
      BY <1>1, <1>2, <1>3, <2>1
  <1>5. imports' \in 0 .. MaxImports
    BY <1>1, <1>3
  <1> QED
    BY <1>1, <1>2, <1>4, <1>5 DEF ImportTyped

LEMMA ImportTypedStep ==
  ASSUME Imports!ImportConstants, ImportInv, ImportTyped, [Imports!Next]_(Imports!vars)
  PROVE  ImportTyped'
  <1>1. LedgerInv
    BY DEF ImportInv
  <1>2. CASE UNCHANGED <<lock, importer, edits, imports, credit, reported, collided>>
    BY <1>2 DEF ImportTyped
  <1>3. ASSUME NEW text \in Logs, Imports!EditLog(text) PROVE ImportTyped'
    <2>1. /\ edits < MaxLogEdits /\ edits' = edits + 1
          /\ UNCHANGED <<lock, importer, imports, credit, reported, collided>>
      BY <1>3 DEF Imports!EditLog
    <2>2. edits' \in 0 .. MaxLogEdits
      BY <2>1 DEF ImportTyped, Imports!ImportConstants
    <2> QED
      BY <2>1, <2>2 DEF ImportTyped
  <1>4. ASSUME NEW p \in Importer,
               \/ \E dry \in BOOLEAN : Imports!ReadLedger(p, dry)
               \/ Imports!TakeLock(p)
               \/ Imports!Preflight(p)
               \/ Imports!WriteRecord(p)
               \/ Imports!ImporterDies(p)
        PROVE  ImportTyped'
    BY <1>1, <1>4, ReadLedgerTyped, ImporterTyped
  <1>5. CASE \/ UNCHANGED Imports!vars
             \/ \E r \in Imports!Record, bytes \in {"absent", "record", "other"} : Imports!TouchFile(r, bytes)
             \/ \E what \in {"foreign", "empty"} : Imports!TouchOutput(what)
             \/ \E p \in Bundler :
                  \/ \E request \in BundlePolicies : Imports!BeginBundle(p, request)
                  \/ Imports!FillBundle(p)
                  \/ Imports!RefuseExisting(p)
                  \/ Imports!LookAgain(p)
                  \/ Imports!RenameBundle(p)
                  \/ Imports!WriterDies(p)
    <2>1. UNCHANGED <<lock, importer, edits, imports, credit, reported, collided>>
      BY <1>5 DEF Imports!vars, Imports!TouchFile, Imports!TouchOutput, Imports!BeginBundle,
                  Imports!FillBundle, Imports!RefuseExisting, Imports!LookAgain, Imports!RenameBundle,
                  Imports!WriterDies, Imports!ledger
    <2> QED
      BY <1>2, <2>1
  <1> QED
    BY <1>3, <1>4, <1>5 DEF Imports!Next

LEMMA ImportTypesHold ==
  ASSUME Imports!ImportConstants, ImportInv, ImportTyped
  PROVE  Imports!TypeOK
  <1>1. credit \in [Imports!Record -> 0 .. MaxImports]
    <2>1. ASSUME NEW r \in Imports!Record PROVE credit[r] \in 0 .. MaxImports
      <3>1. Cardinality(ActiveIn(importer)) \in Nat
        BY FS_CardinalityType DEF ImportTyped
      <3>2. /\ credit[r] \in Nat /\ imports \in 0 .. MaxImports
            /\ credit[r] + Cardinality(ActiveIn(importer)) <= imports
        BY DEF ImportInv, LedgerInv, ImportTyped
      <3>3. MaxImports \in Nat
        BY DEF Imports!ImportConstants
      <3> QED
        BY <3>1, <3>2, <3>3
    <2> QED
      BY <2>1 DEF ImportInv, LedgerInv
  <1>2. \A p \in Importer :
          Imports!ImporterOK(importer[p]) /\ (Imports!Holding(importer[p]) => lock = p)
    BY DEF ImportInv, LedgerInv
  <1>3. /\ \A p \in Bundler : Imports!WriterOK(bundler[p])
        /\ output \in [is : {"absent", "foreign", "empty"}] \cup Imports!Bundles
        /\ claims \subseteq Imports!Bundles
    BY DEF ImportInv, BundleInv
  <1> QED
    BY <1>1, <1>2, <1>3 DEF ImportInv, LedgerInv, ImportTyped, Imports!TypeOK

\* Imports converge, for any ledgers, importers and writers, however often they
\* are repeated, raced, interrupted or run over an edited ledger: apart from what
\* the owner touched, import_session_ledger reports a record as created once at
\* most, a reported record is there, no record makes an import refuse, none
\* stands without the earlier occurrences of its entry, and the one bundle that
\* write_import_bundle claims is the whole of one granted selection. The variables
\* keep their types: no record is credited to more imports than were begun.
THEOREM ImportsStayConvergent ==
  ASSUME Imports!ImportConstants
  PROVE  Imports!Spec => [](Imports!TypeOK /\ Imports!ImportsConverge)
  <1>1. Imports!Init => ImportInv /\ ImportTyped
    <2> SUFFICES ASSUME Imports!Init PROVE ImportInv /\ ImportTyped
      OBVIOUS
    <2>1. ImportInv
      BY ImportInitially
    <2>2. ActiveIn(importer) = {}
      BY DEF Imports!Init, ActiveIn
    <2>3. IsFiniteSet(ActiveIn(importer)) /\ Cardinality(ActiveIn(importer)) = 0
      BY <2>2, FS_EmptySet
    <2>4. \A r \in Imports!Record : credit[r] = 0
      BY DEF Imports!Init
    <2> QED
      BY <2>1, <2>3, <2>4 DEF ImportTyped, Imports!Init, Imports!ImportConstants
  <1>2. ImportInv /\ ImportTyped /\ [Imports!Next]_(Imports!vars) => ImportInv' /\ ImportTyped'
    BY ImportStep, ImportTypedStep
  <1>3. ImportInv /\ ImportTyped => Imports!TypeOK /\ Imports!ImportsConverge
    BY ImportInvSuffices, ImportTypesHold
  <1> QED
    BY <1>1, <1>2, <1>3, PTL DEF Imports!Spec

-----------------------------------------------------------------------------
(***************************************************************************)
(* Release: the inductive invariant                                        *)
(***************************************************************************)

ReleaseTyped ==
  /\ DOMAIN staged = Release!Assets
  /\ preparer \in [Preparer -> Release!Preparing]
  /\ prepared \subseteq Release!Preparations
  /\ tag \in Release!Tags \cup {Missing}
  /\ checkout \in [commit : ReleaseCommit, detached : BOOLEAN]
  /\ signers \in Signers
  /\ steps \in 0 .. MaxChanges

\* One candidate lies in an output nobody touched; a name where an old file
\* lies is one where a file came back.
StagedOK ==
  /\ ~touched /\ prepared # {} =>
       \E p \in Release!Preparations : prepared = {p} /\ staged = Release!AssetsOf(p)
  /\ \A n \in Release!Assets : staged[n] \in past[n] => n \in returned

Replayed == {"archive", "notes"}

SignedFor(t, m) == t.signer = Owner /\ t.manifest = m /\ t.commit = m.commit

\* The asset a verification v began with is still there, or was replaced.
StillOrEarlier(v, n, asset, old) == asset = v.initial[n] \/ v.initial[n] \in old

\* How far a verification v has come.
VerifierOK(v, now, old, back) ==
  \/ v = Release!Idle
  \/ v \in [step : {"pinned"}, manifest : Release!Manifests, tag : Release!Tags, signers : Signers]
  \/ /\ v \in [step : {"identified"}, manifest : Release!Manifests, tag : Release!Tags, signers : Signers]
     /\ SignedFor(v.tag, v.manifest)
  \/ /\ v = [step |-> v.step, manifest |-> v.manifest, tag |-> v.tag, signers |-> v.signers,
             initial |-> v.initial, todo |-> v.todo]
     /\ v.step \in {"replaying", "final"} /\ v.manifest \in Release!Manifests
     /\ SignedFor(v.tag, v.manifest)
     /\ \A n \in Release!Artifacts :
          /\ v.initial[n] = Release!Listed(v.manifest)[n]
          /\ StillOrEarlier(v, n, now[n], old[n])
     /\ \A n \in Replayed \ v.todo : StillOrEarlier(v, n, <<n, v.manifest.commit>>, old[n])
     /\ v.step = "final" /\ back = {} =>
          \A n \in Replayed : v.initial[n] = <<n, v.manifest.commit>>

\* What a receipt r says, with the names where a file came back.
ReceiptOK(r, back) ==
  /\ r.manifest \in Release!Manifests
  /\ SignedFor(r.tag, r.manifest)
  /\ r.assets["SHA256SUMS"] = Release!SumsOf(r.manifest)
  /\ back = {} => \A n \in Replayed : r.assets[n] = <<n, r.manifest.commit>>

AttesterOK(a) ==
  \/ a = Release!Idle
  \/ /\ a = [step |-> "comparing", commit |-> a.commit, receipt |-> a.receipt, subjects |-> a.subjects]
     /\ a.subjects \subseteq Release!SubjectsOf(a.commit)

ReportTrue(r) ==
  r # Missing =>
    r.subjects = Release!SubjectsOf(r.commit) /\ r.receipt.manifest = Release!ManifestOf(r.commit)

ReleaseInv ==
  /\ ReleaseTyped
  /\ StagedOK
  /\ VerifierOK(verifier, staged, past, returned)
  /\ \A r \in verified : ReceiptOK(r, returned)
  /\ AttesterOK(attester)
  /\ ReportTrue(report)

-----------------------------------------------------------------------------
\* Whatever files take the place of those staged, what a verification began with
\* is noted, and so is every file that comes back.
LEMMA RestageKeeps ==
  ASSUME Release!ReleaseConstants, ReleaseInv, NEW new, DOMAIN new = Release!Assets,
         Release!Restage(new), UNCHANGED <<verifier, verified>>
  PROVE  /\ DOMAIN staged' = Release!Assets
         /\ \A n \in Release!Assets : staged'[n] \in past'[n] => n \in returned'
         /\ VerifierOK(verifier', staged', past', returned')
         /\ \A r \in verified' : ReceiptOK(r, returned')
  <1>1. /\ staged' = new
        /\ past' = [n \in Release!Assets |-> past[n] \cup ({staged[n]} \ {new[n], Missing})]
        /\ returned' = returned \cup {n \in Release!Assets : new[n] # staged[n] /\ new[n] \in past[n]}
    BY DEF Release!Restage
  <1>2. ASSUME NEW n \in Release!Assets, staged'[n] \in past'[n] PROVE n \in returned'
    BY <1>1, <1>2 DEF ReleaseInv, StagedOK
  <1>3. \A n \in Release!Assets : past[n] \subseteq past'[n]
    BY <1>1
  <1>4. returned' = {} => returned = {}
    BY <1>1
  <1>5. \A r \in verified' : ReceiptOK(r, returned')
    BY <1>4 DEF ReleaseInv, ReceiptOK
  <1>6. VerifierOK(verifier', staged', past', returned')
    <2>1. CASE ~(verifier.step \in {"replaying", "final"})
      BY <2>1 DEF ReleaseInv, VerifierOK
    <2>2. CASE verifier.step \in {"replaying", "final"}
      <3>1. /\ verifier = [step |-> verifier.step, manifest |-> verifier.manifest, tag |-> verifier.tag,
                          signers |-> verifier.signers, initial |-> verifier.initial, todo |-> verifier.todo]
            /\ verifier.manifest \in Release!Manifests /\ SignedFor(verifier.tag, verifier.manifest)
            /\ \A n \in Release!Artifacts :
                 /\ verifier.initial[n] = Release!Listed(verifier.manifest)[n]
                 /\ StillOrEarlier(verifier, n, staged[n], past[n])
            /\ \A n \in Replayed \ verifier.todo :
                 StillOrEarlier(verifier, n, <<n, verifier.manifest.commit>>, past[n])
            /\ verifier.step = "final" /\ returned = {} =>
                 \A n \in Replayed : verifier.initial[n] = <<n, verifier.manifest.commit>>
        BY <2>2 DEF ReleaseInv, VerifierOK, Release!Idle
      <3>2. ASSUME NEW n \in Release!Artifacts
            PROVE  StillOrEarlier(verifier, n, staged'[n], past'[n])
        <4>1. n \in Release!Assets /\ verifier.initial[n] # Missing
          BY <3>1 DEF Release!ReleaseConstants, Release!Assets
        <4> QED
          BY <1>1, <3>1, <4>1 DEF StillOrEarlier
      <3>3. ASSUME NEW n \in Replayed \ verifier.todo
            PROVE  StillOrEarlier(verifier, n, <<n, verifier.manifest.commit>>, past'[n])
        <4>1. n \in Release!Assets
          BY DEF Replayed, Release!Assets, Release!Artifacts
        <4> QED
          BY <1>3, <3>1, <4>1 DEF StillOrEarlier
      <3> QED
        BY <2>2, <1>4, <3>1, <3>2, <3>3 DEF VerifierOK
    <2> QED
      BY <2>1, <2>2
  <1> QED
    BY <1>1, <1>2, <1>5, <1>6

\* Others edit the staged files, or the owner empties the output.
LEMMA RestagingKeeps ==
  ASSUME Release!ReleaseConstants, ReleaseInv,
         \/ \E n \in Release!Assets : \E bytes \in Release!StageBytes(n) : Release!EditStaged(n, bytes)
         \/ Release!Clear
  PROVE  ReleaseInv'
  <1>1. PICK new : /\ Release!Restage(new) /\ DOMAIN new = Release!Assets
                   /\ touched' = TRUE \/ (prepared' = {} /\ touched' = touched)
                   /\ prepared' \in {prepared, {}}
    <2>1. CASE Release!Clear
      BY <2>1 DEF Release!Clear, Release!NoFiles
    <2>2. ASSUME NEW n \in Release!Assets, NEW bytes, Release!EditStaged(n, bytes)
          PROVE  /\ Release!Restage([staged EXCEPT ![n] = bytes])
                 /\ DOMAIN [staged EXCEPT ![n] = bytes] = Release!Assets
                 /\ touched' = TRUE /\ prepared' = prepared
      BY <2>2 DEF Release!EditStaged, ReleaseInv, ReleaseTyped
    <2> QED
      BY <2>1, <2>2
  <1>2. /\ UNCHANGED <<preparer, tag, checkout, signers, verifier, verified, published, attester, report>>
        /\ steps < MaxChanges /\ steps' = steps + 1
    BY DEF Release!EditStaged, Release!Clear, Release!Changing, Release!repository
  <1>3. /\ DOMAIN staged' = Release!Assets
        /\ \A n \in Release!Assets : staged'[n] \in past'[n] => n \in returned'
        /\ VerifierOK(verifier', staged', past', returned')
        /\ \A r \in verified' : ReceiptOK(r, returned')
    BY <1>1, <1>2, RestageKeeps
  <1>4. ReleaseTyped'
    BY <1>1, <1>2, <1>3 DEF ReleaseInv, ReleaseTyped, Release!ReleaseConstants
  <1>5. StagedOK'
    BY <1>1, <1>3 DEF StagedOK
  <1> QED
    BY <1>2, <1>3, <1>4, <1>5 DEF ReleaseInv

\* Tags, HEAD, the signers and what is published may change at any time.
LEMMA OwnerKeeps ==
  ASSUME Release!ReleaseConstants, ReleaseInv,
         \/ \E key \in UNION Signers : Release!SignTag(key)
         \/ \E h \in [commit : ReleaseCommit, detached : BOOLEAN] : Release!Checkout(h)
         \/ \E s \in Signers : Release!EditSigners(s)
         \/ \E r \in verified : Release!Publish(r)
         \/ \E n \in Release!Assets : \E bytes \in {Other, Missing} : Release!EditPublished(n, bytes)
  PROVE  ReleaseInv'
  <1>1. UNCHANGED <<staged, preparer, prepared, verifier, verified, attester, report, past, returned, touched>>
    BY DEF Release!SignTag, Release!Checkout, Release!EditSigners, Release!Publish, Release!EditPublished,
           Release!history, Release!repository
  <1>2. steps' \in 0 .. MaxChanges
    BY DEF Release!SignTag, Release!Checkout, Release!EditSigners, Release!Publish, Release!EditPublished,
           Release!Changing, Release!history, Release!repository, ReleaseInv, ReleaseTyped, Release!ReleaseConstants
  <1>3. tag' \in Release!Tags \cup {Missing}
    <2>1. ASSUME NEW key \in UNION Signers, Release!SignTag(key)
          PROVE  tag' \in Release!Tags
      <3>1. PICK m \in Release!Manifests : staged["release-manifest.json"] = <<"manifest", m>>
        BY <2>1 DEF Release!SignTag, Release!IsManifest
      <3>2. tag' = [commit |-> checkout.commit, manifest |-> m, signer |-> key]
        BY <2>1, <3>1 DEF Release!SignTag
      <3>3. checkout.commit \in ReleaseCommit
        BY DEF ReleaseInv, ReleaseTyped
      <3> QED
        BY <3>2, <3>3 DEF Release!Tags
    <2>2. tag \in Release!Tags \cup {Missing}
      BY DEF ReleaseInv, ReleaseTyped
    <2> QED
      BY <2>1, <2>2 DEF Release!Checkout, Release!EditSigners, Release!Publish, Release!EditPublished,
           Release!repository
  <1>4. checkout' \in [commit : ReleaseCommit, detached : BOOLEAN] /\ signers' \in Signers
    BY DEF Release!SignTag, Release!Checkout, Release!EditSigners, Release!Publish, Release!EditPublished,
           Release!repository, ReleaseInv, ReleaseTyped
  <1> QED
    BY <1>1, <1>2, <1>3, <1>4 DEF ReleaseInv, ReleaseTyped, StagedOK

LEMMA PreparersKeep ==
  ASSUME Release!ReleaseConstants, ReleaseInv, NEW p \in Preparer,
         \/ \E preparation \in Release!Preparations : Release!Prepare(p, preparation)
         \/ Release!PublishOutput(p)
         \/ Release!PreparerDies(p)
  PROVE  ReleaseInv'
  <1>1. UNCHANGED <<tag, checkout, signers, verifier, verified, published, attester, report, steps, touched>>
    BY DEF Release!Prepare, Release!PublishOutput, Release!PreparerDies, Release!repository, Release!history
  <1>2. preparer' \in [Preparer -> Release!Preparing]
    <2>1. Release!Idle \in Release!Preparing /\ preparer \in [Preparer -> Release!Preparing]
      BY DEF Release!Preparing, ReleaseInv, ReleaseTyped
    <2>2. \A preparation \in Release!Preparations :
            [step |-> "staged", preparation |-> preparation] \in Release!Preparing
      BY DEF Release!Preparing
    <2> QED
      BY <2>1, <2>2 DEF Release!Prepare, Release!PublishOutput, Release!PreparerDies
  <1>3. CASE UNCHANGED <<staged, prepared, past, returned>>
    BY <1>1, <1>2, <1>3 DEF ReleaseInv, ReleaseTyped, StagedOK
  <1>4. CASE ~UNCHANGED <<staged, prepared, past, returned>>
    <2>1. Release!PublishOutput(p) /\ staged = Release!NoFiles
      BY <1>4 DEF Release!Prepare, Release!PublishOutput, Release!PreparerDies, Release!history
    <2> DEFINE new == Release!AssetsOf(preparer[p].preparation)
    <2>2. Release!Restage(new) /\ prepared' = prepared \cup {preparer[p].preparation}
      BY <2>1 DEF Release!PublishOutput
    <2>3. preparer[p].preparation \in Release!Preparations
      BY <2>1 DEF Release!PublishOutput, ReleaseInv, ReleaseTyped, Release!Preparing, Release!Idle
    <2>4. DOMAIN new = Release!Assets
      BY DEF Release!AssetsOf, Release!Prepared, Release!Previewed
    <2> HIDE DEF new
    <2>5. /\ staged' = new
          /\ DOMAIN staged' = Release!Assets
          /\ \A n \in Release!Assets : staged'[n] \in past'[n] => n \in returned'
          /\ VerifierOK(verifier', staged', past', returned')
          /\ \A r \in verified' : ReceiptOK(r, returned')
      BY <1>1, <2>2, <2>4, RestageKeeps DEF Release!Restage
    <2>6. ~touched => prepared = {}
      <3> SUFFICES ASSUME ~touched, prepared # {} PROVE FALSE
        OBVIOUS
      <3>1. PICK q \in Release!Preparations : Release!NoFiles = Release!AssetsOf(q)
        BY <2>1 DEF ReleaseInv, StagedOK
      <3>2. Release!NoFiles["preparation-receipt.json"] = Missing
        BY DEF Release!NoFiles, Release!Assets
      <3> QED
        BY <3>1, <3>2 DEF Release!ReleaseConstants
    <2>7. StagedOK'
      BY <1>1, <2>2, <2>3, <2>5, <2>6 DEF StagedOK, new
    <2>8. ReleaseTyped'
      BY <1>1, <1>2, <2>2, <2>3, <2>5 DEF ReleaseInv, ReleaseTyped
    <2> QED
      BY <1>1, <2>5, <2>7, <2>8 DEF ReleaseInv
  <1> QED
    BY <1>3, <1>4

-----------------------------------------------------------------------------
\* A verification that gives no receipt.
LEMMA VerifierMoves ==
  ASSUME ReleaseInv, Release!VerifierOnly, UNCHANGED verified,
         VerifierOK(verifier', staged, past, returned)
  PROVE  ReleaseInv'
  BY DEF Release!VerifierOnly, Release!repository, Release!history, ReleaseInv, ReleaseTyped, StagedOK

LEMMA RefuseMoves ==
  ASSUME ReleaseInv, Release!VerifierOnly, Release!Refuse
  PROVE  ReleaseInv'
  BY VerifierMoves DEF Release!Refuse, Release!Proceed, VerifierOK

LEMMA BeginVerifyKeeps ==
  ASSUME Release!ReleaseConstants, ReleaseInv, Release!BeginVerify
  PROVE  ReleaseInv'
  <1>1. PICK m \in Release!Manifests : staged["release-manifest.json"] = <<"manifest", m>>
    BY DEF Release!BeginVerify, Release!IsManifest
  <1>2. /\ verifier' = [step |-> "pinned", manifest |-> m, tag |-> tag, signers |-> signers]
        /\ tag # Missing /\ UNCHANGED verified /\ Release!VerifierOnly
    BY <1>1 DEF Release!BeginVerify, Release!Proceed
  <1>3. tag \in Release!Tags /\ signers \in Signers
    BY <1>2 DEF ReleaseInv, ReleaseTyped
  <1>4. VerifierOK(verifier', staged, past, returned)
    BY <1>2, <1>3 DEF VerifierOK
  <1> QED
    BY <1>2, <1>4, VerifierMoves

LEMMA CheckTagKeeps ==
  ASSUME Release!ReleaseConstants, ReleaseInv, Release!CheckTag
  PROVE  ReleaseInv'
  <1>1. verifier \in [step : {"pinned"}, manifest : Release!Manifests, tag : Release!Tags, signers : Signers]
    BY DEF Release!CheckTag, ReleaseInv, VerifierOK, Release!Idle
  <1>2. CASE Release!Refuse
    BY <1>2, RefuseMoves DEF Release!CheckTag
  <1>3. CASE ~Release!Refuse
    <2> DEFINE v == [verifier EXCEPT !.step = "identified"]
    <2>1. /\ verifier' = v /\ UNCHANGED verified /\ Release!VerifierOnly
          /\ SignedFor(verifier.tag, verifier.manifest)
      BY <1>3 DEF Release!CheckTag, Release!Proceed, Release!SignedByOwner, Release!TrailerBinds,
                  Release!TagOfHead, SignedFor
    <2>2. /\ v \in [step : {"identified"}, manifest : Release!Manifests, tag : Release!Tags, signers : Signers]
          /\ v.tag = verifier.tag /\ v.manifest = verifier.manifest
      BY <1>1
    <2> HIDE DEF v
    <2>3. VerifierOK(verifier', staged, past, returned)
      BY <2>1, <2>2 DEF VerifierOK
    <2> QED
      BY <2>1, <2>3, VerifierMoves
  <1> QED
    BY <1>2, <1>3

LEMMA SnapshotAssetsKeeps ==
  ASSUME Release!ReleaseConstants, ReleaseInv, Release!SnapshotAssets
  PROVE  ReleaseInv'
  <1>1. /\ verifier \in [step : {"identified"}, manifest : Release!Manifests, tag : Release!Tags, signers : Signers]
        /\ SignedFor(verifier.tag, verifier.manifest)
    BY DEF Release!SnapshotAssets, ReleaseInv, VerifierOK, Release!Idle
  <1>2. CASE Release!Refuse
    BY <1>2, RefuseMoves DEF Release!SnapshotAssets
  <1>3. CASE ~Release!Refuse
    <2> DEFINE v == [step |-> "replaying", manifest |-> verifier.manifest, tag |-> verifier.tag,
                     signers |-> verifier.signers, initial |-> Release!Snapshot, todo |-> {"archive", "notes"}]
    <2>1. /\ verifier' = v /\ UNCHANGED verified /\ Release!VerifierOnly
          /\ \A n \in Release!Artifacts : Release!Snapshot[n] = Release!Listed(verifier.manifest)[n]
      BY <1>3 DEF Release!SnapshotAssets, Release!Proceed
    <2>2. \A n \in Release!Artifacts : Release!Snapshot[n] = staged[n]
      BY DEF Release!Snapshot
    <2>3. VerifierOK(v, staged, past, returned)
      BY <1>1, <2>1, <2>2 DEF VerifierOK, StillOrEarlier, Replayed
    <2> QED
      BY <2>1, <2>3, VerifierMoves
  <1> QED
    BY <1>2, <1>3

\* A verification that is replaying, with what it found so far.
LEMMA ReplayingFacts ==
  ASSUME ReleaseInv, verifier.step \in {"replaying", "final"}
  PROVE  /\ verifier = [step |-> verifier.step, manifest |-> verifier.manifest, tag |-> verifier.tag,
                        signers |-> verifier.signers, initial |-> verifier.initial, todo |-> verifier.todo]
         /\ verifier.manifest \in Release!Manifests
         /\ SignedFor(verifier.tag, verifier.manifest)
         /\ \A n \in Release!Artifacts :
              /\ verifier.initial[n] = Release!Listed(verifier.manifest)[n]
              /\ StillOrEarlier(verifier, n, staged[n], past[n])
         /\ \A n \in Replayed \ verifier.todo :
              StillOrEarlier(verifier, n, <<n, verifier.manifest.commit>>, past[n])
         /\ verifier.step = "final" /\ returned = {} =>
              \A n \in Replayed : verifier.initial[n] = <<n, verifier.manifest.commit>>
  BY DEF ReleaseInv, VerifierOK, Release!Idle

LEMMA ReplayAssetKeeps ==
  ASSUME Release!ReleaseConstants, ReleaseInv, NEW n \in {"archive", "notes"}, Release!ReplayAsset(n)
  PROVE  ReleaseInv'
  <1>1. CASE Release!Refuse
    BY <1>1, RefuseMoves DEF Release!ReplayAsset
  <1>2. CASE ~Release!Refuse
    <2> DEFINE left == verifier.todo \ {n}
               v == [verifier EXCEPT !.todo = left]
    <2>1. /\ verifier.step = "replaying" /\ verifier' = v /\ UNCHANGED verified /\ Release!VerifierOnly
          /\ staged[n] = <<n, verifier.tag.commit>>
      BY <1>2 DEF Release!ReplayAsset, Release!Proceed, Release!Reproduced
    <2>2. /\ v = [step |-> "replaying", manifest |-> verifier.manifest, tag |-> verifier.tag,
                  signers |-> verifier.signers, initial |-> verifier.initial, todo |-> left]
      <3> HIDE DEF left
      <3> QED
        BY <2>1, ReplayingFacts
    <2> HIDE DEF v
    <2>3. StillOrEarlier(verifier, n, <<n, verifier.manifest.commit>>, past[n])
      <3>1. n \in Release!Artifacts /\ verifier.tag.commit = verifier.manifest.commit
        BY <2>1, ReplayingFacts DEF Release!Artifacts, SignedFor
      <3> QED
        BY <2>1, <3>1, ReplayingFacts
    <2>4. VerifierOK(v, staged, past, returned)
      BY <2>1, <2>2, <2>3, ReplayingFacts DEF VerifierOK, StillOrEarlier
    <2> QED
      BY <2>1, <2>4, VerifierMoves
  <1> QED
    BY <1>1, <1>2

\* If the second snapshot is the first and no file came back, none was replaced.
LEMMA SnapshotAgainKeeps ==
  ASSUME Release!ReleaseConstants, ReleaseInv, Release!SnapshotAgain
  PROVE  ReleaseInv'
  <1>1. CASE Release!Refuse
    BY <1>1, RefuseMoves DEF Release!SnapshotAgain
  <1>2. CASE ~Release!Refuse
    <2> DEFINE v == [verifier EXCEPT !.step = "final"]
    <2>1. /\ verifier.step = "replaying" /\ verifier.todo = {} /\ verifier' = v
          /\ UNCHANGED verified /\ Release!VerifierOnly /\ Release!Snapshot = verifier.initial
      BY <1>2 DEF Release!SnapshotAgain, Release!Proceed, Release!SnapshotStands
    <2>2. v = [step |-> "final", manifest |-> verifier.manifest, tag |-> verifier.tag,
               signers |-> verifier.signers, initial |-> verifier.initial, todo |-> verifier.todo]
      BY <2>1, ReplayingFacts
    <2> HIDE DEF v
    <2>3. ASSUME returned = {}, NEW n \in Replayed
          PROVE  verifier.initial[n] = <<n, verifier.manifest.commit>>
      <3>1. n \in Release!Artifacts /\ n \in Release!Assets
        BY DEF Replayed, Release!Artifacts, Release!Assets
      <3>2. staged[n] = verifier.initial[n]
        BY <2>1, <3>1 DEF Release!Snapshot
      <3>3. staged[n] \notin past[n]
        BY <2>3, <3>1 DEF ReleaseInv, StagedOK
      <3>4. StillOrEarlier(verifier, n, <<n, verifier.manifest.commit>>, past[n])
        BY <2>1, ReplayingFacts
      <3> QED
        BY <3>2, <3>3, <3>4 DEF StillOrEarlier
    <2>4. VerifierOK(v, staged, past, returned)
      BY <2>1, <2>2, <2>3, ReplayingFacts DEF VerifierOK, StillOrEarlier
    <2> QED
      BY <2>1, <2>4, VerifierMoves
  <1> QED
    BY <1>1, <1>2

LEMMA GiveReceiptKeeps ==
  ASSUME Release!ReleaseConstants, ReleaseInv, Release!GiveReceipt
  PROVE  ReleaseInv'
  <1> DEFINE r == [manifest |-> verifier.manifest, tag |-> verifier.tag, assets |-> verifier.initial]
  <1>1. /\ verifier.step = "final" /\ verifier' = Release!Idle /\ Release!VerifierOnly
        /\ verified' \subseteq verified \cup {r}
    BY DEF Release!GiveReceipt
  <1>2. ReceiptOK(r, returned)
    <2>1. "SHA256SUMS" \in Release!Artifacts
          /\ Release!Listed(verifier.manifest)["SHA256SUMS"] = Release!SumsOf(verifier.manifest)
      BY DEF Release!Artifacts, Release!Listed
    <2> QED
      BY <1>1, <2>1, ReplayingFacts DEF ReceiptOK
  <1> HIDE DEF r
  <1>3. \A s \in verified' : ReceiptOK(s, returned)
    BY <1>1, <1>2 DEF ReleaseInv
  <1>4. VerifierOK(verifier', staged, past, returned)
    BY <1>1 DEF VerifierOK
  <1> QED
    BY <1>1, <1>3, <1>4 DEF Release!VerifierOnly, Release!repository, Release!history,
       ReleaseInv, ReleaseTyped, StagedOK

-----------------------------------------------------------------------------
LEMMA AttesterKeeps ==
  ASSUME Release!ReleaseConstants, ReleaseInv,
         \/ \E c \in ReleaseCommit, r \in verified : Release!BeginAttestation(c, r)
         \/ \E n \in Release!Assets : Release!CompareSubject(n)
         \/ Release!Attest
  PROVE  ReleaseInv'
  <1>1. Release!AttesterOnly
    BY DEF Release!BeginAttestation, Release!CompareSubject, Release!Attest
  <1>2. AttesterOK(attester') /\ ReportTrue(report')
    <2>1. AttesterOK(attester) /\ ReportTrue(report) /\ AttesterOK(Release!Idle)
      BY DEF ReleaseInv, AttesterOK
    <2>2. ASSUME NEW c \in ReleaseCommit, NEW r, Release!BeginAttestation(c, r)
          PROVE  AttesterOK(attester') /\ ReportTrue(report')
      BY <2>1, <2>2 DEF Release!BeginAttestation, AttesterOK
    <2>3. ASSUME attester.step = "comparing"
          PROVE  /\ attester = [step |-> "comparing", commit |-> attester.commit,
                                receipt |-> attester.receipt, subjects |-> attester.subjects]
                 /\ attester.subjects \subseteq Release!SubjectsOf(attester.commit)
      BY <2>1, <2>3 DEF AttesterOK, Release!Idle
    <2>4. ASSUME NEW n \in Release!Assets, Release!CompareSubject(n)
          PROVE  AttesterOK(attester') /\ ReportTrue(report')
      <3>1. report' = report /\ attester.step = "comparing"
        BY <2>4 DEF Release!CompareSubject
      <3>2. CASE published.files[n] = Release!Prepared(attester.commit)[n]
        <4> DEFINE new == attester.subjects \cup {<<n, published.files[n]>>}
        <4>1. attester' = [step |-> "comparing", commit |-> attester.commit,
                           receipt |-> attester.receipt, subjects |-> new]
          BY <2>3, <2>4, <3>1, <3>2 DEF Release!CompareSubject
        <4>2. new \subseteq Release!SubjectsOf(attester.commit)
          BY <2>3, <3>1, <3>2 DEF Release!SubjectsOf
        <4> HIDE DEF new
        <4> QED
          BY <2>1, <3>1, <4>1, <4>2 DEF AttesterOK
      <3>3. CASE published.files[n] # Release!Prepared(attester.commit)[n]
        BY <2>1, <2>4, <3>1, <3>3 DEF Release!CompareSubject
      <3> QED
        BY <3>2, <3>3
    <2>5. CASE Release!Attest
      <3>1. attester' = Release!Idle /\ attester.step = "comparing" /\ Release!Compared = Release!Assets
        BY <2>5 DEF Release!Attest
      <3>2. attester.subjects = Release!SubjectsOf(attester.commit)
        <4>1. attester.subjects \subseteq Release!SubjectsOf(attester.commit)
          BY <2>3, <3>1
        <4>2. ASSUME NEW n \in Release!Assets
              PROVE  <<n, Release!Prepared(attester.commit)[n]>> \in attester.subjects
          <5>1. PICK s \in attester.subjects : s[1] = n
            BY <3>1 DEF Release!Compared
          <5> QED
            BY <4>1, <5>1 DEF Release!SubjectsOf
        <4> QED
          BY <4>1, <4>2 DEF Release!SubjectsOf
      <3>3. \/ report' = report
            \/ /\ report' = [commit |-> attester.commit, receipt |-> attester.receipt,
                             subjects |-> attester.subjects]
               /\ attester.receipt.manifest = Release!ManifestOf(attester.commit)
        BY <2>5 DEF Release!Attest, Release!ReceiptBound
      <3> QED
        BY <2>1, <3>1, <3>2, <3>3 DEF ReportTrue
    <2> QED
      BY <2>2, <2>4, <2>5
  <1> QED
    BY <1>1, <1>2 DEF Release!AttesterOnly, Release!repository, Release!history,
       ReleaseInv, ReleaseTyped, StagedOK

LEMMA NextRelease ==
  ASSUME Release!ReleaseConstants, ReleaseInv, [Release!Next]_Release!vars
  PROVE  ReleaseInv'
  <1>1. CASE UNCHANGED Release!vars
    BY <1>1 DEF Release!vars, ReleaseInv, ReleaseTyped, StagedOK
  <1>2. CASE Release!Next
    BY <1>2, RestagingKeeps, OwnerKeeps, PreparersKeep, BeginVerifyKeeps, CheckTagKeeps,
       SnapshotAssetsKeeps, ReplayAssetKeeps, SnapshotAgainKeeps, GiveReceiptKeeps, AttesterKeeps
       DEF Release!Next
  <1> QED
    BY <1>1, <1>2

-----------------------------------------------------------------------------
\* What a verification and an attestation hold, and what they leave behind.
ReceiptTyped(r) ==
  r.manifest \in Release!Manifests /\ r.tag \in Release!Tags /\ Release!IsListing(r.assets, r.manifest)

HeldOK ==
  /\ Release!VerifierTyped(verifier)
  /\ \A r \in verified : ReceiptTyped(r)
  /\ published # Missing => DOMAIN published.files = Release!Assets /\ published.receipt \in verified
  /\ Release!AttesterTyped(attester)
  /\ report # Missing => report.commit \in ReleaseCommit /\ report.receipt \in verified

LEMMA VerifierStepHeld ==
  ASSUME ReleaseInv, HeldOK,
         \/ Release!BeginVerify
         \/ Release!CheckTag
         \/ Release!SnapshotAssets
         \/ \E n \in {"archive", "notes"} : Release!ReplayAsset(n)
         \/ Release!SnapshotAgain
         \/ Release!GiveReceipt
  PROVE  HeldOK'
  <1>1. UNCHANGED <<published, attester, report>>
    BY DEF Release!BeginVerify, Release!CheckTag, Release!SnapshotAssets, Release!ReplayAsset,
       Release!SnapshotAgain, Release!GiveReceipt, Release!VerifierOnly
  <1>2. /\ verified \subseteq verified' /\ \A r \in verified' : ReceiptTyped(r)
        /\ Release!VerifierTyped(verifier')
    <2>1. Release!VerifierTyped(Release!Idle) /\ Release!VerifierTyped(verifier)
      BY DEF Release!VerifierTyped, HeldOK
    <2>2. CASE Release!Refuse
      BY <2>1, <2>2 DEF Release!Refuse, Release!Proceed, HeldOK
    <2>3. CASE Release!BeginVerify
      <3>1. PICK m \in Release!Manifests : staged["release-manifest.json"] = <<"manifest", m>>
        BY <2>3 DEF Release!BeginVerify, Release!IsManifest
      <3>2. /\ verifier' = [step |-> "pinned", manifest |-> m, tag |-> tag, signers |-> signers]
            /\ tag # Missing /\ UNCHANGED verified
        BY <2>3, <3>1 DEF Release!BeginVerify, Release!Proceed
      <3>3. tag \in Release!Tags /\ signers \in Signers
        BY <3>2 DEF ReleaseInv, ReleaseTyped
      <3> QED
        BY <3>2, <3>3 DEF Release!VerifierTyped, Release!Pinned, HeldOK
    <2>4. CASE Release!CheckTag /\ ~Release!Refuse
      <3> DEFINE v == [verifier EXCEPT !.step = "identified"]
      <3>1. verifier' = v /\ UNCHANGED verified /\ verifier.step = "pinned"
        BY <2>4 DEF Release!CheckTag, Release!Proceed
      <3>2. verifier \in Release!Pinned
        BY <2>1, <3>1 DEF Release!VerifierTyped, Release!Idle
      <3>3. v \in Release!Pinned
        BY <3>2 DEF Release!Pinned
      <3> QED
        BY <3>1, <3>3 DEF Release!VerifierTyped, HeldOK
    <2>5. CASE Release!SnapshotAssets /\ ~Release!Refuse
      <3>1. /\ verifier' = [step |-> "replaying", manifest |-> verifier.manifest, tag |-> verifier.tag,
                            signers |-> verifier.signers, initial |-> Release!Snapshot,
                            todo |-> {"archive", "notes"}]
            /\ UNCHANGED verified /\ verifier.step = "identified"
            /\ \A n \in Release!Artifacts : Release!Snapshot[n] = Release!Listed(verifier.manifest)[n]
        BY <2>5 DEF Release!SnapshotAssets, Release!Proceed
      <3>2. /\ verifier.manifest \in Release!Manifests /\ verifier.tag \in Release!Tags
            /\ verifier.signers \in Signers
        BY <2>1, <3>1 DEF Release!VerifierTyped, Release!Idle, Release!Pinned
      <3>3. Release!IsListing(Release!Snapshot, verifier.manifest)
        BY <3>1 DEF Release!IsListing, Release!Snapshot
      <3> QED
        BY <3>1, <3>2, <3>3 DEF Release!VerifierTyped, HeldOK
    <2>6. ASSUME NEW v, verifier.step \in {"replaying", "final"}, v.step \in {"replaying", "final"},
                 v.manifest = verifier.manifest, v.tag = verifier.tag, v.signers = verifier.signers,
                 v.initial = verifier.initial, v.todo \subseteq verifier.todo
          PROVE  Release!VerifierTyped(v)
      BY <2>1, <2>6 DEF Release!VerifierTyped, Release!Idle, Release!Pinned
    <2>7. ASSUME NEW n \in {"archive", "notes"}, Release!ReplayAsset(n), ~Release!Refuse
          PROVE  UNCHANGED verified /\ Release!VerifierTyped(verifier')
      <3> DEFINE left == verifier.todo \ {n}
                 v == [step |-> "replaying", manifest |-> verifier.manifest, tag |-> verifier.tag,
                       signers |-> verifier.signers, initial |-> verifier.initial, todo |-> left]
      <3>1. /\ verifier.step = "replaying" /\ verifier' = [verifier EXCEPT !.todo = left]
            /\ UNCHANGED verified
        BY <2>7 DEF Release!ReplayAsset, Release!Proceed
      <3>2. left \subseteq verifier.todo
        OBVIOUS
      <3>3. verifier' = v
        <4> HIDE DEF left
        <4> QED
          BY <3>1, ReplayingFacts
      <3>4. /\ v.step = "replaying" /\ v.manifest = verifier.manifest /\ v.tag = verifier.tag
            /\ v.signers = verifier.signers /\ v.initial = verifier.initial /\ v.todo = left
        OBVIOUS
      <3> HIDE DEF left, v
      <3>5. Release!VerifierTyped(v)
        BY <2>6, <3>1, <3>2, <3>4
      <3> QED
        BY <3>1, <3>3, <3>5
    <2>8. CASE Release!SnapshotAgain /\ ~Release!Refuse
      <3> DEFINE v == [step |-> "final", manifest |-> verifier.manifest, tag |-> verifier.tag,
                       signers |-> verifier.signers, initial |-> verifier.initial, todo |-> verifier.todo]
      <3>1. /\ verifier.step = "replaying" /\ verifier' = [verifier EXCEPT !.step = "final"]
            /\ UNCHANGED verified
        BY <2>8 DEF Release!SnapshotAgain, Release!Proceed
      <3>2. verifier' = v
        BY <3>1, ReplayingFacts
      <3>3. /\ v.step = "final" /\ v.manifest = verifier.manifest /\ v.tag = verifier.tag
            /\ v.signers = verifier.signers /\ v.initial = verifier.initial /\ v.todo = verifier.todo
        OBVIOUS
      <3> HIDE DEF v
      <3>4. Release!VerifierTyped(v)
        BY <2>6, <3>1, <3>3
      <3> QED
        BY <3>1, <3>2, <3>4 DEF HeldOK
    <2>9. CASE Release!GiveReceipt
      <3> DEFINE r == [manifest |-> verifier.manifest, tag |-> verifier.tag, assets |-> verifier.initial]
      <3>1. /\ verifier.step = "final" /\ verifier' = Release!Idle
            /\ verified' \in {verified, verified \cup {r}}
        BY <2>9 DEF Release!GiveReceipt
      <3>2. ReceiptTyped(r)
        BY <2>1, <3>1 DEF Release!VerifierTyped, Release!Idle, Release!Pinned, ReceiptTyped
      <3> HIDE DEF r
      <3> QED
        BY <2>1, <3>1, <3>2 DEF HeldOK
    <2> QED
      BY <2>2, <2>3, <2>4, <2>5, <2>7, <2>8, <2>9 DEF HeldOK
  <1> QED
    BY <1>1, <1>2 DEF HeldOK, Release!AttesterTyped

LEMMA AttesterStepHeld ==
  ASSUME ReleaseInv, HeldOK,
         \/ \E c \in ReleaseCommit, r \in verified : Release!BeginAttestation(c, r)
         \/ \E n \in Release!Assets : Release!CompareSubject(n)
         \/ Release!Attest
  PROVE  HeldOK'
  <1>1. UNCHANGED <<published, verifier, verified>>
    BY DEF Release!BeginAttestation, Release!CompareSubject, Release!Attest, Release!AttesterOnly
  <1>2. /\ Release!AttesterTyped(attester')
        /\ report' # Missing => report'.commit \in ReleaseCommit /\ report'.receipt \in verified
    <2>1. Release!AttesterTyped(attester) /\ Release!AttesterTyped(Release!Idle)
      BY DEF Release!AttesterTyped, HeldOK
    <2>2. attester.step = "comparing" =>
            /\ attester.commit \in ReleaseCommit /\ attester.receipt \in verified
            /\ attester.subjects \subseteq Release!SubjectsOf(attester.commit)
            /\ attester = [step |-> "comparing", commit |-> attester.commit,
                           receipt |-> attester.receipt, subjects |-> attester.subjects]
      BY <2>1 DEF Release!AttesterTyped, Release!Idle, ReleaseInv, AttesterOK
    <2>3. ASSUME NEW c \in ReleaseCommit, NEW r \in verified, Release!BeginAttestation(c, r)
          PROVE  Release!AttesterTyped(attester') /\ UNCHANGED report
      BY <2>3 DEF Release!BeginAttestation, Release!AttesterTyped
    <2>4. ASSUME NEW n \in Release!Assets, Release!CompareSubject(n)
          PROVE  Release!AttesterTyped(attester') /\ UNCHANGED report
      <3>1. report' = report /\ attester.step = "comparing"
        BY <2>4 DEF Release!CompareSubject
      <3>2. CASE published.files[n] = Release!Prepared(attester.commit)[n]
        <4> DEFINE new == attester.subjects \cup {<<n, published.files[n]>>}
        <4>1. attester' = [step |-> "comparing", commit |-> attester.commit,
                           receipt |-> attester.receipt, subjects |-> new]
          BY <2>2, <2>4, <3>1, <3>2 DEF Release!CompareSubject
        <4>2. new \subseteq Release!SubjectsOf(attester.commit)
          BY <2>2, <3>1, <3>2 DEF Release!SubjectsOf
        <4> HIDE DEF new
        <4> QED
          BY <2>2, <3>1, <4>1, <4>2 DEF Release!AttesterTyped
      <3>3. CASE published.files[n] # Release!Prepared(attester.commit)[n]
        BY <2>1, <2>4, <3>1, <3>3 DEF Release!CompareSubject
      <3> QED
        BY <3>2, <3>3
    <2>5. CASE Release!Attest
      BY <2>1, <2>2, <2>5 DEF Release!Attest, HeldOK
    <2> QED
      BY <2>3, <2>4, <2>5 DEF HeldOK
  <1> QED
    BY <1>1, <1>2 DEF HeldOK, Release!AttesterTyped

LEMMA HeldStep ==
  ASSUME Release!ReleaseConstants, ReleaseInv, HeldOK, [Release!Next]_Release!vars
  PROVE  HeldOK'
  <1>1. CASE UNCHANGED <<verifier, verified, published, attester, report>>
    BY <1>1 DEF HeldOK, Release!AttesterTyped
  <1>2. ASSUME NEW r \in verified, Release!Publish(r) PROVE HeldOK'
    <2>1. DOMAIN staged = Release!Assets
      BY DEF ReleaseInv, ReleaseTyped
    <2> QED
      BY <1>2, <2>1 DEF Release!Publish, HeldOK, Release!AttesterTyped
  <1>3. ASSUME NEW n \in Release!Assets, NEW bytes, Release!EditPublished(n, bytes) PROVE HeldOK'
    <2>1. /\ published # Missing /\ published' = [published EXCEPT !.files[n] = bytes]
          /\ UNCHANGED <<verifier, verified, attester, report>>
      BY <1>3 DEF Release!EditPublished
    <2>2. DOMAIN published'.files = Release!Assets /\ published'.receipt = published.receipt
      BY <2>1 DEF HeldOK
    <2> QED
      BY <2>1, <2>2 DEF HeldOK, Release!AttesterTyped
  <1>4. CASE \/ \E n \in Release!Assets : \E bytes \in Release!StageBytes(n) : Release!EditStaged(n, bytes)
             \/ Release!Clear
             \/ \E key \in UNION Signers : Release!SignTag(key)
             \/ \E h \in [commit : ReleaseCommit, detached : BOOLEAN] : Release!Checkout(h)
             \/ \E s \in Signers : Release!EditSigners(s)
             \/ \E p \in Preparer :
                  \/ \E preparation \in Release!Preparations : Release!Prepare(p, preparation)
                  \/ Release!PublishOutput(p)
                  \/ Release!PreparerDies(p)
    BY <1>1, <1>4 DEF Release!EditStaged, Release!Clear, Release!SignTag, Release!Checkout,
       Release!EditSigners, Release!Prepare, Release!PublishOutput, Release!PreparerDies
  <1>5. CASE Release!Next
    BY <1>2, <1>3, <1>4, <1>5, VerifierStepHeld, AttesterStepHeld DEF Release!Next
  <1> QED
    BY <1>1, <1>5 DEF Release!vars

(***************************************************************************)
(* However often files, tag, HEAD and signers change during a verification *)
(* (verify_checked_out_release_candidate), a receipt names a manifest the  *)
(* owner signed for its own commit, and assets that commit reproduces,     *)
(* unless a staged file was replaced and came back; an attestation         *)
(* (verify_release_attestation_subjects) is of what its commit makes; and  *)
(* two preparations never mix in one output.                               *)
(***************************************************************************)
THEOREM ReleasesStayBound ==
  ASSUME Release!ReleaseConstants
  PROVE  Release!Spec => [](Release!TypeOK /\ Release!ReleaseBound)
  <1>1. Release!Init => ReleaseInv /\ HeldOK
    <2> SUFFICES ASSUME Release!Init PROVE ReleaseInv /\ HeldOK
      OBVIOUS
    <2>1. DOMAIN staged = Release!Assets
      BY DEF Release!Init, Release!NoFiles, Release!HandStaged, Release!Prepared
    <2>2. ReleaseTyped
      <3>1. preparer \in [Preparer -> Release!Preparing]
        BY DEF Release!Init, Release!Preparing
      <3>2. steps \in 0 .. MaxChanges
        BY DEF Release!Init, Release!ReleaseConstants
      <3>3. checkout \in [commit : ReleaseCommit, detached : BOOLEAN]
        BY DEF Release!Init
      <3> QED
        BY <2>1, <3>1, <3>2, <3>3 DEF Release!Init, ReleaseTyped
    <2>3. StagedOK /\ VerifierOK(verifier, staged, past, returned) /\ AttesterOK(attester)
      BY DEF Release!Init, StagedOK, VerifierOK, AttesterOK
    <2>4. HeldOK
      BY DEF Release!Init, HeldOK, Release!VerifierTyped, Release!AttesterTyped
    <2> QED
      BY <2>2, <2>3, <2>4 DEF Release!Init, ReleaseInv, ReportTrue
  <1>2. ReleaseInv /\ HeldOK => Release!TypeOK /\ Release!ReleaseBound
    <2> SUFFICES ASSUME ReleaseInv, HeldOK PROVE Release!TypeOK /\ Release!ReleaseBound
      OBVIOUS
    <2>1. Release!TypeOK
      BY DEF Release!TypeOK, ReleaseInv, ReleaseTyped, HeldOK, ReceiptTyped
    <2>2. ASSUME ~touched, prepared # {}
          PROVE  Release!Cardinality(prepared) = 1 /\ \A p \in prepared : staged = Release!AssetsOf(p)
      <3>1. PICK p \in Release!Preparations : prepared = {p} /\ staged = Release!AssetsOf(p)
        BY <2>2 DEF ReleaseInv, StagedOK
      <3> QED
        BY <3>1, FS_Singleton DEF Cardinality, Release!Cardinality
    <2>3. ASSUME returned = {}, NEW r \in verified
          PROVE  /\ r.tag.signer = Owner /\ r.tag.manifest = r.manifest /\ r.tag.commit = r.manifest.commit
                 /\ \A n \in {"archive", "notes"} : r.assets[n] = <<n, r.manifest.commit>>
                 /\ r.assets["SHA256SUMS"] = Release!SumsOf(r.manifest)
      BY <2>3 DEF ReleaseInv, ReceiptOK, SignedFor, Replayed
    <2>4. report # Missing =>
            /\ report.subjects = Release!SubjectsOf(report.commit)
            /\ report.receipt.manifest = Release!ManifestOf(report.commit)
      BY DEF ReleaseInv, ReportTrue, Release!SubjectsOf
    <2> QED
      BY <2>1, <2>2, <2>3, <2>4 DEF Release!ReleaseBound
  <1> QED
    BY <1>1, <1>2, NextRelease, HeldStep, PTL DEF Release!Spec

-----------------------------------------------------------------------------
(***************************************************************************)
(* Custody: the inductive invariant                                        *)
(***************************************************************************)

\* A migration carries no authorization over.
CustodyInv ==
  /\ custodian \subseteq Custody!SourceFields
  /\ transport \in Custody!Configurations
  /\ fills \in 0 .. MaxFills
  /\ endpoint \in Custody!Endpoints \cup {Nothing}
  /\ endpoint # Nothing /\ endpoint.by = "migration" => "write" \notin endpoint.filled
  /\ preflight \in Custody!Receipts \cup {Nothing}
  /\ Custody!ReadyByOwner

LEMMA ConfigurationKind ==
  ASSUME NEW a \in Custody!Configurations
  PROVE  a.kind \in Custody!Kinds
  BY DEF Custody!Configurations

LEMMA DocumentFields == \A fields \in Custody!Documents : fields \subseteq Custody!EndpointFields
  BY DEF Custody!Documents, Custody!NearlyAll

LEMMA PreflightKeeps ==
  ASSUME CustodyInv, Custody!Preflight
  PROVE  CustodyInv'
  <1>1. /\ endpoint # Nothing /\ Custody!ValidEndpoint(endpoint.filled)
        /\ Custody!ValidAdapter(transport.kind, transport.filled)
        /\ Custody!Agree(endpoint.filled, transport)
        /\ preflight' = [outcome |-> Custody!Outcome(endpoint.filled), endpoint |-> endpoint,
                         adapter |-> transport]
        /\ UNCHANGED <<custodian, endpoint, transport, fills>>
    BY DEF Custody!Preflight
  <1>2. /\ transport \in Custody!Configurations /\ transport.kind \in Custody!Kinds
        /\ endpoint \in Custody!Endpoints /\ endpoint.by \in {"migration", "owner"}
        /\ endpoint.by = "migration" => "write" \notin endpoint.filled
    BY <1>1, ConfigurationKind DEF CustodyInv, Custody!Endpoints
  <1>3. ASSUME preflight'.outcome = "ready-for-owner-authorized-write"
        PROVE  /\ preflight'.endpoint.by = "owner"
               /\ preflight'.adapter.filled = Custody!AdapterFields(preflight'.adapter.kind)
               /\ "write" \in preflight'.adapter.filled
               /\ Custody!EndpointFields \ {"fallback"} \subseteq preflight'.endpoint.filled
               /\ preflight'.adapter.kind = "sftp-v2" => "fallback" \in preflight'.endpoint.filled
    <2>1. "write" \in endpoint.filled
      BY <1>1, <1>3 DEF Custody!Outcome
    <2>2. endpoint.by = "owner" /\ Custody!EndpointFields \ {"fallback"} \subseteq endpoint.filled
      BY <1>1, <1>2, <2>1 DEF Custody!ValidEndpoint
    <2>3. <<"write", "write">> \in Custody!Bindings(transport.kind)
      BY DEF Custody!Bindings
    <2>4. "write" \in transport.filled
      BY <1>1, <2>1, <2>3 DEF Custody!Agree
    <2>5. transport.filled = Custody!AdapterFields(transport.kind)
      BY <1>1, <2>4 DEF Custody!ValidAdapter
    <2>6. ASSUME transport.kind = "sftp-v2" PROVE "fallback" \in endpoint.filled
      <3>1. <<"fallback", "account">> \in Custody!Bindings(transport.kind)
        BY <2>6 DEF Custody!Bindings
      <3>2. "account" \in transport.filled
        BY <2>5, <2>6 DEF Custody!AdapterFields
      <3> QED
        BY <1>1, <3>1, <3>2 DEF Custody!Agree
    <2> QED
      BY <1>1, <2>2, <2>4, <2>5, <2>6
  <1>4. preflight' \in Custody!Receipts
    BY <1>1, <1>2 DEF Custody!Receipts, Custody!Outcome
  <1> QED
    BY <1>1, <1>2, <1>3, <1>4 DEF CustodyInv, Custody!ReadyByOwner

LEMMA NextCustody ==
  ASSUME Custody!CustodyConstants, CustodyInv, [Custody!Next]_Custody!vars
  PROVE  CustodyInv'
  <1>1. CASE UNCHANGED Custody!vars
    BY <1>1 DEF Custody!vars, CustodyInv, Custody!ReadyByOwner
  <1>2. CASE Custody!Migrate
    <2>1. /\ endpoint' = [by |-> "migration", filled |-> Custody!Migrated(custodian)]
          /\ UNCHANGED <<custodian, transport, preflight, fills>>
      BY <1>2 DEF Custody!Migrate
    <2>2. Custody!Migrated(custodian) \in SUBSET Custody!EndpointFields
          /\ "write" \notin Custody!Migrated(custodian)
      BY DEF Custody!Migrated, Custody!EndpointFields
    <2>3. endpoint' \in Custody!Endpoints
      BY <2>1, <2>2 DEF Custody!Endpoints
    <2> QED
      BY <2>1, <2>2, <2>3 DEF CustodyInv, Custody!ReadyByOwner
  <1>3. ASSUME NEW fields \in Custody!Documents, Custody!EditEndpoint(fields) PROVE CustodyInv'
    BY <1>3, DocumentFields DEF Custody!EditEndpoint, CustodyInv, Custody!Endpoints, Custody!CustodyConstants, Custody!ReadyByOwner
  <1>4. ASSUME NEW c \in Custody!Configurations, Custody!EditAdapter(c) PROVE CustodyInv'
    BY <1>4 DEF Custody!EditAdapter, CustodyInv, Custody!CustodyConstants, Custody!ReadyByOwner
  <1> QED
    BY <1>1, <1>2, <1>3, <1>4, PreflightKeeps DEF Custody!Next

(***************************************************************************)
(* Whatever is migrated and edited, and in whatever order, an endpoint is  *)
(* ready for a write (remote preflight of custody.py) only by documents    *)
(* the owner wrote and that authorize it twice, and with everything the    *)
(* transport uses configured in both.                                      *)
(***************************************************************************)
THEOREM OnlyOwnerReadies ==
  ASSUME Custody!CustodyConstants
  PROVE  Custody!Spec => [](Custody!TypeOK /\ Custody!ReadyByOwner)
  <1>1. Custody!Init => CustodyInv
    <2> SUFFICES ASSUME Custody!Init PROVE CustodyInv
      OBVIOUS
    <2>1. transport \in Custody!Configurations
      <3>1. PICK k \in Custody!Kinds : transport = [kind |-> k, filled |-> {}]
        BY DEF Custody!Init
      <3>2. {} \in Custody!Fillings(k)
        BY DEF Custody!Fillings, Custody!NearlyAll
      <3> QED
        BY <3>1, <3>2 DEF Custody!Configurations
    <2> QED
      BY <2>1 DEF Custody!Init, CustodyInv, Custody!CustodyConstants, Custody!ReadyByOwner
  <1>2. CustodyInv => Custody!TypeOK /\ Custody!ReadyByOwner
    BY DEF CustodyInv, Custody!TypeOK
  <1> QED
    BY <1>1, <1>2, NextCustody, PTL DEF Custody!Spec

-----------------------------------------------------------------------------
(***************************************************************************)
(* The composition                                                         *)
(***************************************************************************)
LEMMA PartStays == [StoresNext]_storesVars => part' = part
  BY DEF StoresNext, storesVars, ButScan, ButVault, ButRepo, ButImports, ButAdapters, ButArchive,
         ButRelease, ButRetention, ButCustody

\* WritesConverge for the vaults and the imports of the composition.
THEOREM WritesStayConvergent ==
  ASSUME StoresConstants
  PROVE  StoresSpec => []WritesConverge
  <1> DEFINE Taking == part = "vault"
             Importing == part = "imports"
  <1>1. /\ StoresInit /\ Taking => VaultStore!Init
        /\ StoresInit /\ Importing => Imports!Init
    BY DEF StoresInit
  <1>2. [StoresNext]_storesVars /\ Taking => [VaultStore!Next]_(VaultStore!vars) /\ Taking'
    BY PartStays DEF StoresNext, storesVars, vaultVars, VaultStore!vars
  <1>3. [StoresNext]_storesVars /\ Importing => [Imports!Next]_(Imports!vars) /\ Importing'
    BY PartStays DEF StoresNext, storesVars, importVars, Imports!vars
  <1>4. [StoresNext]_storesVars =>
          /\ ~Taking => ~Taking'
          /\ ~Importing => ~Importing'
    BY PartStays
  <1>5. VaultStore!Spec => []VaultStore!IntakesAgree
    BY IntakesNeverDisagree DEF StoresConstants
  <1>6. Imports!Spec => [](Imports!TypeOK /\ Imports!ImportsConverge)
    BY ImportsStayConvergent DEF StoresConstants
  <1>7. WritesConverge <=>
          /\ Taking => VaultStore!IntakesAgree
          /\ Importing => Imports!ImportsConverge
    BY DEF WritesConverge
  <1> HIDE DEF Taking, Importing
  <1> QED
    BY <1>1, <1>2, <1>3, <1>4, <1>5, <1>6, <1>7, PTL
       DEF StoresSpec, VaultStore!Spec, Imports!Spec

\* RestoredAsReceipted for the vaults and the custody documents of the
\* composition.
THEOREM RestoresAndEndpointsStayHonest ==
  ASSUME StoresConstants
  PROVE  StoresSpec => []RestoredAsReceipted
  <1> DEFINE Backing == part = "vault"
             Moving == part = "custody"
  <1>1. /\ StoresInit /\ Backing => VaultStore!Init
        /\ StoresInit /\ Moving => Custody!Init
    BY DEF StoresInit
  <1>2. [StoresNext]_storesVars /\ Backing => [VaultStore!Next]_(VaultStore!vars) /\ Backing'
    BY PartStays DEF StoresNext, storesVars, vaultVars, VaultStore!vars
  <1>3. [StoresNext]_storesVars /\ Moving => [Custody!Next]_(Custody!vars) /\ Moving'
    BY PartStays DEF StoresNext, storesVars, lifecycleVars, custodyVars, Custody!vars
  <1>4. [StoresNext]_storesVars =>
          /\ ~Backing => ~Backing'
          /\ ~Moving => ~Moving'
    BY PartStays
  <1>5. VaultStore!Spec => []VaultStore!RestoredAsReceipted
    BY RestoresReceipted DEF StoresConstants
  <1>6. Custody!Spec => []Custody!ReadyByOwner
    BY OnlyOwnerReadies DEF StoresConstants
  <1>7. RestoredAsReceipted <=>
          /\ Backing => VaultStore!RestoredAsReceipted
          /\ Moving => Custody!ReadyByOwner
    BY DEF RestoredAsReceipted
  <1> HIDE DEF Backing, Moving
  <1> QED
    BY <1>1, <1>2, <1>3, <1>4, <1>5, <1>6, <1>7, PTL
       DEF StoresSpec, VaultStore!Spec, Custody!Spec

\* AnswersTrue for the repositories of the composition.
THEOREM AnswersStayTrue ==
  ASSUME StoresConstants
  PROVE  StoresSpec => []AnswersTrue
  <1> DEFINE Here == part = "repository"
  <1>1. StoresInit /\ Here => RepoIdentity!Init
    BY DEF StoresInit
  <1>2. [StoresNext]_storesVars /\ Here => [RepoIdentity!Next]_(RepoIdentity!vars) /\ Here'
    BY PartStays DEF StoresNext, storesVars, repoVars, RepoIdentity!vars
  <1>3. [StoresNext]_storesVars /\ ~Here => ~Here'
    BY PartStays
  <1>4. RepoIdentity!Spec => []RepoIdentity!AnswersTrue
    BY IdentitiesStayTrue DEF StoresConstants
  <1>5. AnswersTrue <=> (Here => RepoIdentity!AnswersTrue)
    BY DEF AnswersTrue
  <1> HIDE DEF Here
  <1> QED
    BY <1>1, <1>2, <1>3, <1>4, <1>5, PTL DEF StoresSpec, RepoIdentity!Spec

\* ReleaseBound for the releases of the composition.
THEOREM ReleaseStaysBound ==
  ASSUME StoresConstants
  PROVE  StoresSpec => []ReleaseBound
  <1> DEFINE Here == part = "release"
  <1>1. StoresInit /\ Here => Release!Init
    BY DEF StoresInit
  <1>2. [StoresNext]_storesVars /\ Here => [Release!Next]_(Release!vars) /\ Here'
    BY PartStays DEF StoresNext, storesVars, releaseVars, Release!vars
  <1>3. [StoresNext]_storesVars /\ ~Here => ~Here'
    BY PartStays
  <1>4. Release!Spec => []Release!ReleaseBound
    BY ReleasesStayBound DEF StoresConstants
  <1>5. ReleaseBound <=> (Here => Release!ReleaseBound)
    BY DEF ReleaseBound
  <1> HIDE DEF Here
  <1> QED
    BY <1>1, <1>2, <1>3, <1>4, <1>5, PTL DEF StoresSpec, Release!Spec
=============================================================================
