----------------------------- MODULE Onboarding -----------------------------
(***************************************************************************)
(* Onboarding one project into one vault over a local hub (onboard_project *)
(* in coordination_onboarding.py, with recover_matching_sync_result and    *)
(* the hooks of sync in coordination_sync.py): an attempt is retained, a   *)
(* sync checkpoint, and a publication; a rejected attempt and one made     *)
(* obsolete by policy are archived.  Processes die between any two files,  *)
(* policy advances between the lookup of the binding and its use, and      *)
(* users pull into the same vault with plain commands.                     *)
(*                                                                         *)
(* Push, pull and apply are steps here; CoordinationSync has their detail. *)
(* Every plain command and every command of a client that is not Steady is *)
(* a disturbance and has a time of its own, later than all before it.      *)
(***************************************************************************)
EXTENDS Naturals, FiniteSets

CONSTANTS
  Client,           \* processes
  Steady,           \* clients whose users repeat the command for ever
  Label,            \* exact AccessLabel revisions
  Record,           \* coordination records
  Written,          \* records users may have written into the vault
  Requires,         \* Requires[r]: records the hub must hold to admit r
  MaxDisturbances,  \* bound on crashes, policy changes, deliveries, other commands
  None

VARIABLES
  config,           \* hub-config.json: the session's label and the generation
  hub,              \* records the hub stores
  local,            \* canonical records of the vault
  receipts,         \* receipts of the vault's projections
  marker,           \* the receipt last-successful.json names
  pending,          \* pending-submission-outcomes.json
  attempt,          \* <project>.attempt.json
  checkpoint,       \* <project>.sync.json
  failedAttempts,   \* failed/<project>/*/attempt.json
  failedSyncs,      \* failed/<project>/*/sync.json
  staleAttempts,    \* stale/<project>/*/attempt.json
  publication,      \* the publication transaction <project>.json
  outputs,          \* outputs written: link, pack, Markdown, receipt in order
  onboardingLock, principalLock,
  client,           \* client[c]: the command a process executes
  disturbances

hubVars == <<config, hub>>
vaultVars == <<local, receipts, marker, pending>>
activeVars == <<attempt, checkpoint>>
archiveVars == <<failedAttempts, failedSyncs, staleAttempts>>
outputVars == <<publication, outputs>>
lockVars == <<onboardingLock, principalLock>>
vars == <<hubVars, vaultVars, activeVars, archiveVars, outputVars, lockVars,
          client, disturbances>>

ASSUME OnboardingAssumption ==
  /\ Steady \subseteq Client
  /\ Written \subseteq Record
  /\ Requires \in [Record -> SUBSET Record]
  /\ MaxDisturbances \in Nat
  /\ None \notin Client
  /\ IsFiniteSet(Record)

OutputCount == 4

\* attempt, checkpoint: as the process has them in memory.
Idle == [pc |-> "idle", registration |-> None, time |-> 0, pairs |-> 0,
         attempt |-> None, checkpoint |-> None, resume |-> FALSE,
         recovered |-> FALSE, rejected |-> FALSE, outcomes |-> {}, written |-> 0]

At(c, pc) == client[c].pc = pc

Goto(c, s) == client' = [client EXCEPT ![c] = s]

Release(lock, c) == IF lock = c THEN None ELSE lock

Finish(c) ==
  /\ Goto(c, Idle)
  /\ onboardingLock' = Release(onboardingLock, c)
  /\ principalLock' = Release(principalLock, c)

\* A typed failure or a result: the command ends and changes no file.
End(c) ==
  /\ Finish(c)
  /\ UNCHANGED <<hubVars, vaultVars, activeVars, archiveVars, outputVars, disturbances>>

Disturb ==
  /\ disturbances < MaxDisturbances
  /\ disturbances' = disturbances + 1

\* The time of a steady user's command, and of a command that disturbs it: time
\* passes with every disturbance and every attempt reported as failed.
Now == 2 * (disturbances + Cardinality(failedAttempts))
Between == Now + 1

Admissible == \A r \in local : Requires[r] \subseteq hub

-----------------------------------------------------------------------------
(***************************************************************************)
(* Up to the sync                                                          *)
(***************************************************************************)

\* The binding is looked up before the wait for the onboarding lock.  Users told
\* of a failed attempt correct the prerequisite before they repeat the command.
Begin(c) ==
  LET t == IF c \in Steady THEN Now ELSE Between
  IN  /\ At(c, "idle")
      /\ principalLock = None
      /\ failedAttempts # {} => Admissible
      /\ Goto(c, [Idle EXCEPT !.pc = "wait", !.registration = config, !.time = t])
      /\ UNCHANGED <<hubVars, vaultVars, activeVars, archiveVars, outputVars, lockVars>>
      /\ IF c \in Steady THEN UNCHANGED disturbances ELSE Disturb

LockIgnored(c) == TRUE

LockFree(c) == onboardingLock = None

Enter(c) ==
  /\ At(c, "wait")
  /\ LockFree(c)
  /\ onboardingLock' = c
  /\ Goto(c, [client[c] EXCEPT !.pc = "survey", !.pairs = Cardinality(local)])
  /\ UNCHANGED <<hubVars, vaultVars, activeVars, archiveVars, outputVars,
                 principalLock, disturbances>>

Scope(a, registration) ==
  IF a.label # registration.label \/ a.generation > registration.generation
  THEN "conflict"
  ELSE IF a.generation < registration.generation THEN "stale" ELSE "current"

\* Once both files of a failed pair are archived its retirement can be finished.
Archived(a) == a \in failedAttempts /\ \E k \in failedSyncs : k.attempt = a

\* The active files contradict the archive or the binding.
Contradictory(registration) ==
  IF Archived(attempt)
  THEN checkpoint # None /\ checkpoint \notin failedSyncs
  ELSE LET scope == Scope(attempt, registration)
       IN  \/ scope = "conflict"
           \/ scope = "stale" /\ checkpoint # None
           \/ scope # "stale" /\ attempt \in staleAttempts

Surveying(c) == At(c, "survey") /\ publication = None

GoOn(c, pc, s) ==
  /\ Goto(c, [s EXCEPT !.pc = pc])
  /\ UNCHANGED <<hubVars, vaultVars, activeVars, failedAttempts, failedSyncs,
                 outputVars, lockVars, disturbances>>

RefuseState(c) ==
  /\ At(c, "survey")
  /\ IF publication # None
     THEN publication.label # client[c].registration.label
     ELSE attempt # None /\ Contradictory(client[c].registration)
  /\ End(c)

ResumePublication(c) ==
  /\ At(c, "survey")
  /\ publication # None
  /\ publication.label = client[c].registration.label
  /\ Goto(c, [client[c] EXCEPT !.pc = "outputs"])
  /\ UNCHANGED <<hubVars, vaultVars, activeVars, archiveVars, outputVars, lockVars,
                 disturbances>>

FinishFailed(c) ==
  /\ Surveying(c)
  /\ attempt # None
  /\ Archived(attempt)
  /\ ~Contradictory(client[c].registration)
  /\ GoOn(c, "unlinkSync", client[c])
  /\ UNCHANGED staleAttempts

RetireStale(c) ==
  /\ Surveying(c)
  /\ attempt # None
  /\ ~Archived(attempt)
  /\ ~Contradictory(client[c].registration)
  /\ Scope(attempt, client[c].registration) = "stale"
  /\ GoOn(c, "unlinkAttempt", [client[c] EXCEPT !.resume = TRUE])
  /\ staleAttempts' = staleAttempts \cup {attempt}

\* No attempt, or a current one whose sync is still to be made or recovered.
Proceed(c) ==
  /\ Surveying(c)
  /\ attempt # None =>
       /\ ~Archived(attempt)
       /\ ~Contradictory(client[c].registration)
       /\ Scope(attempt, client[c].registration) = "current"
  /\ LET retained == IF attempt = None THEN None ELSE checkpoint
     IN  GoOn(c, IF retained = None THEN "bind" ELSE "recover",
                [client[c] EXCEPT !.attempt = attempt, !.checkpoint = retained])
  /\ UNCHANGED staleAttempts

-----------------------------------------------------------------------------
(***************************************************************************)
(* The sync, under the principal lock                                      *)
(***************************************************************************)

AttemptOfBinding(c) ==
  LET s == client[c]
  IN  [label |-> s.registration, time |-> s.time, pairs |-> s.pairs]

\* Its generation is the one that was looked up, not the one now in force.
NewAttempt(c) ==
  LET s == client[c]
  IN  [label |-> s.registration.label, generation |-> s.registration.generation,
       time |-> s.time, pairs |-> s.pairs]

ResumesNever(c) == FALSE

\* An interrupted attempt reconciles what is pending before another push.
Resumes(c) == client[c].resume \/ client[c].attempt # None

Bind(c) ==
  LET a == IF client[c].attempt = None THEN NewAttempt(c) ELSE client[c].attempt
  IN  /\ At(c, "bind")
      /\ principalLock = None
      /\ config.label = client[c].registration.label
      /\ principalLock' = c
      /\ attempt' = a
      /\ Goto(c, [client[c] EXCEPT !.attempt = a,
                    !.pc = IF Resumes(c) /\ pending # None THEN "pull" ELSE "push"])
      /\ UNCHANGED <<hubVars, vaultVars, checkpoint, archiveVars, outputVars,
                     onboardingLock, disturbances>>

RefuseBind(c) ==
  /\ At(c, "bind")
  /\ principalLock # None \/ config.label # client[c].registration.label
  /\ End(c)

Known == UNION {rc.members \cup {o.record : o \in {o \in rc.outcomes : o.admitted}} :
                  rc \in receipts}

Admit(c) ==
  LET candidates == local \ Known
      admitted == {r \in candidates : Requires[r] \subseteq hub}
  IN  /\ At(c, "push")
      /\ pending \in {None, {}}
      /\ hub' = hub \cup admitted
      /\ Goto(c, [client[c] EXCEPT !.pc = "save",
                    !.outcomes = {[record |-> r, admitted |-> r \in admitted] :
                                    r \in candidates}])
      /\ UNCHANGED <<config, vaultVars, activeVars, archiveVars, outputVars, lockVars,
                     disturbances>>

RefusePush(c) ==
  /\ At(c, "push")
  /\ pending \notin {None, {}}
  /\ End(c)

SavePending(c) ==
  /\ At(c, "save")
  /\ pending' = client[c].outcomes
  /\ Goto(c, [client[c] EXCEPT !.pc = "pull", !.outcomes = {}])
  /\ UNCHANGED <<hubVars, local, receipts, marker, activeVars, archiveVars, outputVars,
                 lockVars, disturbances>>

Answer(time) ==
  [label |-> config.label, generation |-> config.generation, time |-> time,
   members |-> hub, outcomes |-> IF pending = None THEN {} ELSE pending]

\* The verified response is retained before it is applied.
RetainCheckpoint(c) ==
  LET k == [attempt |-> client[c].attempt, receipt |-> Answer(client[c].attempt.time)]
  IN  /\ At(c, "pull")
      /\ checkpoint = None
      /\ checkpoint' = k
      /\ Goto(c, [client[c] EXCEPT !.pc = "apply", !.checkpoint = k])
      /\ UNCHANGED <<hubVars, vaultVars, attempt, archiveVars, outputVars, lockVars,
                     disturbances>>

-----------------------------------------------------------------------------
(***************************************************************************)
(* Applying the response, and recovery from the checkpoint                 *)
(***************************************************************************)

SameScope(m, r) == m.label = r.label /\ m.generation = r.generation

Acceptable(r) ==
  marker # None =>
    /\ r.generation >= marker.generation
    /\ r.time >= marker.time
    /\ r.time = marker.time => r = marker
    /\ SameScope(marker, r) => marker.members \subseteq r.members

NothingNew(r) ==
  /\ marker # None
  /\ SameScope(marker, r) /\ marker.members = r.members
  /\ r.outcomes = {}

Receipt(c) == client[c].checkpoint.receipt

RefuseApply(c) ==
  /\ At(c, "apply")
  /\ ~Acceptable(Receipt(c))
  /\ End(c)

\* A response is applied although it brings nothing new, unless in recovery.
ApplyNothing(c) ==
  /\ At(c, "apply")
  /\ Acceptable(Receipt(c))
  /\ client[c].recovered /\ NothingNew(Receipt(c))
  /\ Goto(c, [client[c] EXCEPT !.pc = "consume"])
  /\ UNCHANGED <<hubVars, vaultVars, activeVars, archiveVars, outputVars, lockVars,
                 disturbances>>

PublishReceipt(c) ==
  /\ At(c, "apply")
  /\ Acceptable(Receipt(c))
  /\ ~(client[c].recovered /\ NothingNew(Receipt(c)))
  /\ receipts' = receipts \cup {Receipt(c)}
  /\ Goto(c, [client[c] EXCEPT !.pc = "expose"])
  /\ UNCHANGED <<hubVars, local, marker, pending, activeVars, archiveVars, outputVars,
                 lockVars, disturbances>>

AdvanceMarker(c) ==
  /\ At(c, "expose")
  /\ local' = local \cup Receipt(c).members
  /\ marker' = Receipt(c)
  /\ Goto(c, [client[c] EXCEPT !.pc = "consume"])
  /\ UNCHANGED <<hubVars, receipts, pending, activeVars, archiveVars, outputVars,
                 lockVars, disturbances>>

\* Recovery consumes only an envelope that matches its checkpoint.
Consume(c) ==
  /\ At(c, "consume")
  /\ pending' = IF client[c].recovered /\ pending # Receipt(c).outcomes
                THEN pending ELSE None
  /\ principalLock' = None
  /\ Goto(c, [client[c] EXCEPT !.pc = "judge"])
  /\ UNCHANGED <<hubVars, local, receipts, marker, activeVars, archiveVars, outputVars,
                 onboardingLock, disturbances>>

\* The checkpoint answers the present binding, and no other response has its time.
Recoverable(c) ==
  LET r == Receipt(c)
  IN  /\ config.label = client[c].registration.label
      /\ SameScope(config, r)
      /\ r.time = client[c].attempt.time
      /\ marker # None /\ marker.time = r.time => marker = r

Recover(c) ==
  /\ At(c, "recover")
  /\ principalLock = None
  /\ Recoverable(c)
  /\ principalLock' = c
  /\ Goto(c, [client[c] EXCEPT
                !.recovered = TRUE,
                !.pc = IF marker = None \/ marker.time < Receipt(c).time
                       THEN "apply" ELSE "consume"])
  /\ UNCHANGED <<hubVars, vaultVars, activeVars, archiveVars, outputVars,
                 onboardingLock, disturbances>>

RefuseRecover(c) ==
  /\ At(c, "recover")
  /\ principalLock = None
  /\ ~Recoverable(c)
  /\ End(c)

-----------------------------------------------------------------------------
(***************************************************************************)
(* Retirement of a rejected attempt, publication                           *)
(***************************************************************************)

Rejected(r) == \E o \in r.outcomes : ~o.admitted

RetireFailed(c) ==
  /\ At(c, "judge")
  /\ Rejected(Receipt(c))
  /\ failedAttempts' = failedAttempts \cup {client[c].attempt}
  /\ Goto(c, [client[c] EXCEPT !.pc = "archive", !.rejected = TRUE])
  /\ UNCHANGED <<hubVars, vaultVars, activeVars, failedSyncs, staleAttempts, outputVars,
                 lockVars, disturbances>>

ArchiveAttemptOnly(c) ==
  /\ At(c, "archive")
  /\ Goto(c, [client[c] EXCEPT !.pc = "unlinkSync"])
  /\ UNCHANGED <<hubVars, vaultVars, activeVars, archiveVars, outputVars, lockVars,
                 disturbances>>

ArchiveSync(c) ==
  /\ At(c, "archive")
  /\ failedSyncs' = failedSyncs \cup {client[c].checkpoint}
  /\ Goto(c, [client[c] EXCEPT !.pc = "unlinkSync"])
  /\ UNCHANGED <<hubVars, vaultVars, activeVars, failedAttempts, staleAttempts,
                 outputVars, lockVars, disturbances>>

\* "Checkpoint first is deliberate."
UnlinkSync(c) ==
  /\ At(c, "unlinkSync")
  /\ checkpoint' = None
  /\ Goto(c, [client[c] EXCEPT !.pc = "unlinkAttempt"])
  /\ UNCHANGED <<hubVars, vaultVars, attempt, archiveVars, outputVars, lockVars,
                 disturbances>>

UnlinkAttempt(c) ==
  /\ At(c, "unlinkAttempt")
  /\ attempt' = None
  /\ IF client[c].rejected
     THEN Finish(c)
     ELSE /\ Goto(c, [client[c] EXCEPT !.pc = "bind"])
          /\ UNCHANGED lockVars
  /\ UNCHANGED <<hubVars, vaultVars, checkpoint, archiveVars, outputVars, disturbances>>

Publish(c) ==
  /\ At(c, "judge")
  /\ ~Rejected(Receipt(c))
  /\ publication = None
  /\ publication' = [label |-> client[c].registration.label, receipt |-> Receipt(c),
                     pairs |-> client[c].attempt.pairs]
  /\ Goto(c, [client[c] EXCEPT !.pc = "outputs"])
  /\ UNCHANGED <<hubVars, vaultVars, activeVars, archiveVars, outputs, lockVars,
                 disturbances>>

\* Outputs that exist are written again without effect.
WriteOutput(c) ==
  LET n == client[c].written + 1
  IN  /\ At(c, "outputs")
      /\ n <= OutputCount
      /\ outputs' = IF n > outputs THEN n ELSE outputs
      /\ Goto(c, [client[c] EXCEPT !.written = n])
      /\ UNCHANGED <<hubVars, vaultVars, activeVars, archiveVars, publication, lockVars,
                     disturbances>>

Bootstrapped(c) ==
  /\ At(c, "outputs")
  /\ client[c].written = OutputCount
  /\ End(c)

-----------------------------------------------------------------------------
(***************************************************************************)
(* Disturbances                                                            *)
(***************************************************************************)

Crash(c) ==
  /\ client[c].pc # "idle"
  /\ Disturb
  /\ Finish(c)
  /\ UNCHANGED <<hubVars, vaultVars, activeVars, archiveVars, outputVars>>

\* The administrator advances the policy, with the same or another label.
Reconfigure(l) ==
  /\ Disturb
  /\ principalLock = None
  /\ config' = [label |-> l, generation |-> config.generation + 1]
  /\ UNCHANGED <<hub, vaultVars, activeVars, archiveVars, outputVars, lockVars, client>>

\* Another vault delivers a record to the hub.
Deliver(r) ==
  /\ Disturb
  /\ r \notin hub
  /\ hub' = hub \cup {r}
  /\ UNCHANGED <<config, vaultVars, activeVars, archiveVars, outputVars, lockVars, client>>

\* A plain pull into the same vault.
Pull ==
  LET r == Answer(Between)
  IN  /\ Disturb
      /\ principalLock = None
      /\ Acceptable(r)
      /\ IF NothingNew(r)
         THEN UNCHANGED <<local, receipts, marker>>
         ELSE /\ receipts' = receipts \cup {r}
              /\ local' = local \cup r.members
              /\ marker' = r
      /\ pending' = None
      /\ UNCHANGED <<hubVars, activeVars, archiveVars, outputVars, lockVars, client>>

-----------------------------------------------------------------------------
Init ==
  /\ config \in [label : Label, generation : {0}]
  /\ hub = {}
  /\ local \in SUBSET Written
  /\ receipts = {}
  /\ marker = None /\ pending = None
  /\ attempt = None /\ checkpoint = None
  /\ failedAttempts = {} /\ failedSyncs = {} /\ staleAttempts = {}
  /\ publication = None /\ outputs = 0
  /\ onboardingLock = None /\ principalLock = None
  /\ client = [c \in Client |-> Idle]
  /\ disturbances = 0

Step(c) ==
  \/ Enter(c)
  \/ RefuseState(c) \/ ResumePublication(c)
  \/ FinishFailed(c) \/ RetireStale(c) \/ Proceed(c)
  \/ Bind(c) \/ RefuseBind(c)
  \/ Admit(c) \/ RefusePush(c) \/ SavePending(c) \/ RetainCheckpoint(c)
  \/ RefuseApply(c) \/ ApplyNothing(c) \/ PublishReceipt(c) \/ AdvanceMarker(c)
  \/ Consume(c) \/ Recover(c) \/ RefuseRecover(c)
  \/ RetireFailed(c) \/ ArchiveSync(c) \/ UnlinkSync(c) \/ UnlinkAttempt(c)
  \/ Publish(c) \/ WriteOutput(c) \/ Bootstrapped(c)

Next ==
  \/ \E c \in Client : Begin(c) \/ Step(c) \/ Crash(c)
  \/ \E l \in Label : Reconfigure(l)
  \/ \E r \in Record \ Written : Deliver(r)
  \/ Pull

Spec == Init /\ [][Next]_vars

\* A process keeps running, and steady users repeat the command.
FairSpec ==
  /\ Spec
  /\ \A c \in Client : WF_vars(Step(c))
  /\ \A c \in Steady : SF_vars(Begin(c))

-----------------------------------------------------------------------------
(***************************************************************************)
(* Properties                                                              *)
(***************************************************************************)

Generations == 0 .. MaxDisturbances
BindingType == [label : Label, generation : Generations]
AttemptType == [label : Label, generation : Generations, time : Nat,
                pairs : 0 .. Cardinality(Record)]
OutcomeType == [record : Record, admitted : BOOLEAN]
ReceiptType == [label : Label, generation : Generations, time : Nat,
                members : SUBSET Record, outcomes : SUBSET OutcomeType]
CheckpointType == [attempt : AttemptType, receipt : ReceiptType]
PublicationType == [label : Label, receipt : ReceiptType,
                    pairs : 0 .. Cardinality(Record)]

\* No file differs from every file.
ASSUME NoFileAssumption ==
  None \notin AttemptType \cup CheckpointType \cup ReceiptType \cup PublicationType

\* The files, and who holds the locks.
FilesTyped ==
  /\ config \in BindingType
  /\ hub \subseteq Record /\ local \subseteq Record
  /\ receipts \subseteq ReceiptType
  /\ marker \in ReceiptType \cup {None}
  /\ pending \in (SUBSET OutcomeType) \cup {None}
  /\ attempt \in AttemptType \cup {None}
  /\ checkpoint \in CheckpointType \cup {None}
  /\ failedAttempts \subseteq AttemptType /\ staleAttempts \subseteq AttemptType
  /\ failedSyncs \subseteq CheckpointType
  /\ publication \in PublicationType \cup {None}
  /\ outputs \in 0 .. OutputCount
  /\ onboardingLock \in Client \cup {None} /\ principalLock \in Client \cup {None}
  /\ disturbances \in 0 .. MaxDisturbances

\* The steps that hold the principal lock, that have an answer of the hub, that
\* retire files, and all those between entering and leaving the vault's onboarding.
Synced == {"push", "save", "pull", "apply", "expose", "consume"}
Answered == {"recover", "apply", "expose", "consume", "judge", "archive"}
Retiring == {"unlinkSync", "unlinkAttempt"}
Working == {"bind"} \cup Synced \cup Answered
Inside == Working \cup Retiring \cup {"survey", "outputs"}

CommandType ==
  [pc : Inside \cup {"idle", "wait"}, registration : BindingType \cup {None},
   time : Nat, pairs : 0 .. Cardinality(Record), attempt : AttemptType \cup {None},
   checkpoint : CheckpointType \cup {None}, resume : BOOLEAN, recovered : BOOLEAN,
   rejected : BOOLEAN, outcomes : SUBSET OutcomeType, written : Nat]

\* A command q and the active files: attempt a, checkpoint k, publication p.
FilesOK(q, a, k, p) ==
  /\ q.pc # "idle" => q.registration \in BindingType
  /\ q.pc \in {"wait", "survey"} => q.attempt = None /\ q.rejected = FALSE
  /\ q.pc = "outputs" => p # None
  /\ q.pc \in Working \cup Retiring => p = None
  /\ q.pc \in Working =>
       q.attempt = a /\ (a # None => a.label = q.registration.label)
  /\ q.pc \in (Working \ {"bind"}) \cup Retiring => a # None
  /\ q.pc \in {"bind", "push", "save", "pull", "unlinkAttempt"} => k = None
  /\ q.pc \in Answered => q.checkpoint = k /\ k # None
  /\ q.pc = "archive" => q.rejected = TRUE
  /\ q.pc \in Retiring /\ q.rejected = FALSE => q.attempt = None

\* Every variable keeps its type.  A command holds at each step the locks that
\* step is made under, and has in memory what the active files contain.
TypeOK ==
  /\ FilesTyped
  /\ client \in [Client -> CommandType]
  /\ \A c \in Client :
       /\ client[c].pc \in Inside => onboardingLock = c
       /\ client[c].pc \in Synced => principalLock = c
       /\ FilesOK(client[c], attempt, checkpoint, publication)

\* What is published is backed, wherever processes died and whatever the policy
\* did meanwhile: by the retained attempt and checkpoint, taken under one label,
\* every submission of it admitted and still held by the hub; and no output is
\* there without it.
PublicationBacked ==
  /\ outputs > 0 => publication # None
  /\ publication # None =>
       /\ checkpoint # None
       /\ checkpoint.attempt = attempt
       /\ checkpoint.receipt = publication.receipt
       /\ publication.receipt.label = publication.label
       /\ attempt.label = publication.label
       /\ \A o \in publication.receipt.outcomes : o.admitted /\ o.record \in hub

\* An active attempt or checkpoint disappears only with its exact copy in an
\* archive, a checkpoint always before its attempt: what remains after a crash
\* identifies the archive it has to be finished from.
EvidenceArchived ==
  [][/\ checkpoint # None /\ checkpoint' # checkpoint =>
          /\ checkpoint' = None
          /\ checkpoint \in failedSyncs
          /\ checkpoint.attempt \in failedAttempts
     /\ attempt # None /\ attempt' # attempt =>
          /\ attempt' = None
          /\ checkpoint = None
          /\ attempt \in staleAttempts \/ Archived(attempt)]_vars

\* The hard conflicts the guide names: a changed label, and an attempt a newer
\* policy made obsolete after its sync.
HardConflict ==
  \/ publication # None /\ publication.label # config.label
  \/ /\ publication = None /\ attempt # None
     /\ \/ attempt.label # config.label
        \/ checkpoint # None /\ attempt.generation < config.generation

\* No interruption leaves a state that repeating the command cannot finish, the
\* hard conflicts and missing prerequisites excepted.
OnboardingCompletes ==
  <>[](Admissible /\ ~HardConflict) => <>(outputs = OutputCount)

\* "Remove only the exact pending envelope included in a successful pull": when
\* the envelope disappears, a receipt of the vault reports its outcomes.
EnvelopeReported ==
  [][pending \notin {None, {}} /\ pending' = None =>
       \E rc \in receipts' : rc.outcomes = pending]_vars
=============================================================================
