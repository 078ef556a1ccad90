--------------------------- MODULE ImmutableStore ---------------------------
(***************************************************************************)
(* How one coordination file is installed: _write_immutable for a record,  *)
(* receipt or retained label, _write_atomic for the configuration, the     *)
(* success marker and the pending envelope (coordination_sync.py, the      *)
(* POSIX branches).  CoordinationSync treats each of them as one step, as  *)
(* AtomicFiles describes it; here it is the sequence of system calls other *)
(* processes, a dying process and a power failure can interleave with.     *)
(*                                                                         *)
(* A directory entry is visible at once and durable only after the         *)
(* directory is synced; a file's bytes are whole only after they are       *)
(* written and survive a power failure only after the file is synced.      *)
(***************************************************************************)
EXTENDS Naturals

CONSTANTS
  Writer,      \* processes
  Immutable,   \* paths written by _write_immutable
  Slot,        \* paths written by _write_atomic
  Data,        \* contents
  None,        \* no file
  MaxFailures  \* bound on power failures

Path == Immutable \cup Slot

ASSUME StoreAssumption ==
  /\ Immutable \cap Slot = {}
  /\ None \notin Data
  /\ MaxFailures \in Nat

VARIABLES
  visible,   \* visible[p]: the file a path names now, or None
  durable,   \* durable[p]: the file it names after a power failure
  writer,    \* writer[w]: the call a process is executing
  told,      \* history: outcomes _write_immutable has returned
  failures   \* history: power failures so far

vars == <<visible, durable, writer, told, failures>>

File == [data : Data, whole : BOOLEAN, synced : BOOLEAN]

\* No file differs from every file.
ASSUME NoFileAssumption == None \notin File

Idle == [pc |-> "idle", path |-> None, temp |-> None, outcome |-> None]

Started(d) == [data |-> d, whole |-> FALSE, synced |-> FALSE]

Goto(w, s) == writer' = [writer EXCEPT ![w] = s]

Same(f, g) == f.data = g.data /\ f.whole = g.whole

Whole(d) == [data |-> d, whole |-> TRUE, synced |-> TRUE]

Report(p, d, outcome) == [path |-> p, data |-> d, outcome |-> outcome]

-----------------------------------------------------------------------------
\* The path exists before anything is written: "found" is the duplicate that
\* returns without syncing the directory.
FoundExisting(w, p, d) ==
  /\ writer[w].pc = "idle"
  /\ p \in Immutable
  /\ visible[p] # None
  /\ told' = told \cup
       {Report(p, d, IF Same(visible[p], Whole(d)) THEN "found" ELSE "collision")}
  /\ UNCHANGED <<visible, durable, writer, failures>>

OpenTemporary(w, p, d) ==
  /\ writer[w].pc = "idle"
  /\ p \in Immutable => visible[p] = None
  /\ Goto(w, [Idle EXCEPT !.pc = "fill", !.path = p, !.temp = Started(d)])
  /\ UNCHANGED <<visible, durable, told, failures>>

FillWithoutSync(w) ==
  /\ writer[w].pc = "fill"
  /\ Goto(w, [writer[w] EXCEPT !.pc = "install", !.temp.whole = TRUE])
  /\ UNCHANGED <<visible, durable, told, failures>>

FillTemporary(w) ==
  /\ writer[w].pc = "fill"
  /\ Goto(w, [writer[w] EXCEPT !.pc = "sync", !.temp.whole = TRUE])
  /\ UNCHANGED <<visible, durable, told, failures>>

SyncTemporary(w) ==
  /\ writer[w].pc = "sync"
  /\ Goto(w, [writer[w] EXCEPT !.pc = "install", !.temp.synced = TRUE])
  /\ UNCHANGED <<visible, durable, told, failures>>

Install(w, outcome) ==
  /\ visible' = [visible EXCEPT ![writer[w].path] = writer[w].temp]
  /\ Goto(w, [writer[w] EXCEPT !.pc = "syncdir", !.outcome = outcome])
  /\ UNCHANGED <<durable, told, failures>>

LinkReplaces(w) ==
  /\ writer[w].pc = "install"
  /\ writer[w].path \in Immutable
  /\ Install(w, "created")

\* link(2) creates the path, and fails if it exists ...
Link(w) ==
  /\ writer[w].pc = "install"
  /\ writer[w].path \in Immutable
  /\ visible[writer[w].path] = None
  /\ Install(w, "created")

LinkExistsUnreported(w) ==
  /\ writer[w].pc = "install"
  /\ writer[w].path \in Immutable
  /\ visible[writer[w].path] # None
  /\ Goto(w, [writer[w] EXCEPT !.pc = "syncdir"])
  /\ UNCHANGED <<visible, durable, told, failures>>

\* ... and then the existing file is compared, whoever wrote it.
LinkExists(w) ==
  LET p == writer[w].path
  IN  /\ writer[w].pc = "install"
      /\ p \in Immutable
      /\ visible[p] # None
      /\ Goto(w, [writer[w] EXCEPT !.pc = "syncdir",
                    !.outcome = IF Same(visible[p], writer[w].temp)
                                THEN "duplicate" ELSE "collision"])
      /\ UNCHANGED <<visible, durable, told, failures>>

\* rename(2) replaces whatever the path names.
Replace(w) ==
  /\ writer[w].pc = "install"
  /\ writer[w].path \in Slot
  /\ Install(w, "replaced")

\* The path's directory is synced, and only then is the outcome returned.
Return(w) ==
  LET p == writer[w].path
  IN  /\ writer[w].pc = "syncdir"
      /\ durable' = [durable EXCEPT ![p] = visible[p]]
      /\ told' = told \cup {Report(p, writer[w].temp.data, writer[w].outcome)}
      /\ Goto(w, Idle)
      /\ UNCHANGED <<visible, failures>>

\* A process dies; an orphaned temporary file is no record to any reader.
Die(w) ==
  /\ writer[w].pc # "idle"
  /\ Goto(w, Idle)
  /\ UNCHANGED <<visible, durable, told, failures>>

AfterPowerFailure(f) ==
  IF f = None THEN None ELSE [f EXCEPT !.whole = f.whole /\ f.synced]

\* Every process dies, and any set of entries not yet durable is lost.
PowerFailure ==
  /\ failures < MaxFailures
  /\ \E survive \in SUBSET Path :
       visible' = [p \in Path |-> AfterPowerFailure(IF p \in survive THEN visible[p]
                                                    ELSE durable[p])]
  /\ durable' = visible'
  /\ writer' = [w \in Writer |-> Idle]
  /\ failures' = failures + 1
  /\ UNCHANGED told

Init ==
  /\ visible = [p \in Path |-> None]
  /\ durable = [p \in Path |-> None]
  /\ writer = [w \in Writer |-> Idle]
  /\ told = {}
  /\ failures = 0

Next ==
  \/ \E w \in Writer :
       \/ \E p \in Path, d \in Data : FoundExisting(w, p, d) \/ OpenTemporary(w, p, d)
       \/ FillTemporary(w)
       \/ SyncTemporary(w)
       \/ Link(w)
       \/ LinkExists(w)
       \/ Replace(w)
       \/ Return(w)
       \/ Die(w)
  \/ PowerFailure

Spec == Init /\ [][Next]_vars
-----------------------------------------------------------------------------
Outcomes == {"created", "duplicate", "found", "collision", "replaced"}

CallType ==
  [pc : {"idle", "fill", "sync", "install", "syncdir"}, path : Path \cup {None},
   temp : File \cup {None}, outcome : Outcomes \cup {None}]

\* Every variable keeps its type: a call under way has its path and temporary
\* file, and one that has installed it knows what to report.
TypeOK ==
  /\ visible \in [Path -> File \cup {None}]
  /\ durable \in [Path -> File \cup {None}]
  /\ writer \in [Writer -> CallType]
  /\ \A w \in Writer :
       /\ writer[w].pc # "idle" => writer[w].path \in Path /\ writer[w].temp \in File
       /\ writer[w].pc = "syncdir" => writer[w].outcome \in Outcomes
  /\ told \subseteq [path : Path, data : Data, outcome : Outcomes]
  /\ failures \in 0 .. MaxFailures

\* No reader ever opens a partly written file under a final name, whatever
\* else is being installed there and wherever a process or the power failed.
ReadersSeeWhole ==
  \A p \in Path : visible[p] # None => visible[p].whole

\* Bytes a caller was told are stored stay stored, under racing writers of
\* the same path and across power failures; the duplicate found before any
\* write promises it only until the power fails.
ToldIsStored ==
  \A t \in told :
    \/ t.outcome \in {"created", "duplicate"}
    \/ t.outcome = "found" /\ failures = 0
    => visible[t.path] # None /\ visible[t.path].data = t.data

\* To its callers an installation is one step: with a file read as its bytes,
\* and a partly written one as no content at all, the calls implement
\* AtomicFiles, however they interleave, die or lose the power.
ReadAs(f) == IF f = None THEN None ELSE IF f.whole THEN f.data ELSE f

Atomic == INSTANCE AtomicFiles
            WITH shown <- [p \in Path |-> ReadAs(visible[p])],
                 kept <- [p \in Path |-> ReadAs(durable[p])],
                 answers <- told

ImplementsAtomicFiles == Atomic!Spec
=============================================================================
