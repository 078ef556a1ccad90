-------------------------- MODULE Onboarding_proofs --------------------------
(***************************************************************************)
(* Proofs about Onboarding, for any number of processes, labels and        *)
(* records, and for any crashes, policy changes and other commands.        *)
(*                                                                         *)
(* The argument.  The onboarding lock makes the command that holds it the  *)
(* only one to change the attempt, the checkpoint, the archives and the    *)
(* publication, so from one of its steps to the next they are as it left   *)
(* them; the principal lock does the same for the label in force from the  *)
(* binding to the answer.  What a command that died leaves behind is held  *)
(* together by the files alone: a checkpoint never outlives its attempt.   *)
(***************************************************************************)
EXTENDS Onboarding, FiniteSetTheorems, TLAPS

-----------------------------------------------------------------------------
(***************************************************************************)
(* The inductive invariant                                                 *)
(***************************************************************************)
Typed ==
  /\ FilesTyped
  /\ client \in [Client -> CommandType]
  /\ config.generation <= disturbances
  /\ IsFiniteSet(failedAttempts)

\* What a set of outcomes reports as admitted is in the hub H.
Held(outcomes, H) == \A o \in outcomes : o.admitted => o.record \in H

InArchive(a, failed, syncs) == a \in failed /\ \E x \in syncs : x.attempt = a

\* A command that retires a pair, and the archives.
ArchivesOK(q, a, k, failed, syncs, stale) ==
  /\ q.pc = "archive" => a \in failed
  /\ q.pc = "unlinkSync" => InArchive(a, failed, syncs) /\ (k # None => k \in syncs)
  /\ q.pc = "unlinkAttempt" => a \in stale \/ InArchive(a, failed, syncs)

CommandOK(c) ==
  /\ client[c].pc \in Inside => onboardingLock = c
  /\ client[c].pc \in Synced =>
       principalLock = c /\ client[c].registration.label = config.label
  /\ FilesOK(client[c], attempt, checkpoint, publication)
  /\ ArchivesOK(client[c], attempt, checkpoint, failedAttempts, failedSyncs,
                staleAttempts)
  /\ Held(client[c].outcomes, hub)

\* The files alone, whoever is running.
ActiveOK ==
  /\ pending # None => Held(pending, hub)
  /\ checkpoint # None =>
       /\ attempt # None
       /\ checkpoint.attempt = attempt
       /\ checkpoint.receipt.label = attempt.label
       /\ Held(checkpoint.receipt.outcomes, hub)

OnboardingInv ==
  /\ Typed
  /\ \A c \in Client : CommandOK(c)
  /\ ActiveOK
  /\ PublicationBacked

-----------------------------------------------------------------------------
(***************************************************************************)
(* Lemmas                                                                  *)
(***************************************************************************)
LEMMA HeldGrows ==
  ASSUME NEW outcomes, NEW H, NEW G, Held(outcomes, H), H \subseteq G
  PROVE  Held(outcomes, G)
  BY DEF Held

LEMMA IdleOK ==
  /\ Idle \in CommandType /\ Idle.pc = "idle" /\ Idle.outcomes = {}
  /\ \A a, k, p : FilesOK(Idle, a, k, p)
  <1>1. IsFiniteSet(Record)
    BY OnboardingAssumption
  <1>2. Cardinality(Record) \in Nat
    BY <1>1, FS_CardinalityType
  <1>3. Idle \in CommandType
    BY <1>2 DEF Idle, CommandType
  <1>4. \A a, k, p : FilesOK(Idle, a, k, p)
    BY DEF Idle, FilesOK, Working, Synced, Answered, Retiring
  <1> QED
    BY <1>3, <1>4 DEF Idle

LEMMA CountsTyped ==
  ASSUME Typed
  PROVE  /\ Cardinality(local) \in 0 .. Cardinality(Record)
         /\ Now \in Nat /\ Between \in Nat
  <1>1. IsFiniteSet(Record) /\ local \subseteq Record
    BY OnboardingAssumption DEF Typed, FilesTyped
  <1>2. /\ IsFiniteSet(local) /\ Cardinality(local) <= Cardinality(Record)
    BY <1>1, FS_Subset
  <1>3. Cardinality(local) \in Nat /\ Cardinality(Record) \in Nat
    BY <1>1, <1>2, FS_CardinalityType
  <1>4. Cardinality(failedAttempts) \in Nat
    BY FS_CardinalityType DEF Typed
  <1>5. disturbances \in Nat
    BY OnboardingAssumption DEF Typed, FilesTyped
  <1> QED
    BY <1>2, <1>3, <1>4, <1>5 DEF Now, Between

LEMMA DisturbTyped ==
  ASSUME Typed, Disturb \/ UNCHANGED disturbances
  PROVE  /\ disturbances' \in 0 .. MaxDisturbances
         /\ disturbances <= disturbances'
         /\ config.generation <= disturbances'
  <1>1. config.generation \in 0 .. MaxDisturbances /\ disturbances \in 0 .. MaxDisturbances
    BY DEF Typed, FilesTyped, BindingType, Generations
  <1> QED
    BY <1>1, OnboardingAssumption DEF Typed, Disturb

LEMMA GotoTyped ==
  ASSUME Typed, NEW c \in Client, NEW s \in CommandType, Goto(c, s)
  PROVE  /\ client' \in [Client -> CommandType]
         /\ \A d \in Client : client'[d] = IF d = c THEN s ELSE client[d]
  BY DEF Typed, Goto

LEMMA FinishLocks ==
  ASSUME Typed, NEW c \in Client, Finish(c)
  PROVE  /\ onboardingLock' \in Client \cup {None} /\ principalLock' \in Client \cup {None}
         /\ onboardingLock' = IF onboardingLock = c THEN None ELSE onboardingLock
         /\ principalLock' = IF principalLock = c THEN None ELSE principalLock
  BY DEF Finish, Release, Typed, FilesTyped

\* What a command needs of the files stays while another holds the lock.
LEMMA CommandsKeep ==
  ASSUME OnboardingInv, NEW c \in Client, NEW s,
         \A d \in Client : client'[d] = IF d = c THEN s ELSE client[d],
         hub \subseteq hub',
         onboardingLock # c =>
           UNCHANGED <<attempt, checkpoint, publication, failedAttempts, failedSyncs,
                       staleAttempts>>,
         onboardingLock \notin {c, None} => onboardingLock' = onboardingLock,
         principalLock \notin {c, None} => principalLock' = principalLock,
         config' = config,
         s.pc \in Inside => onboardingLock' = c,
         s.pc \in Synced => principalLock' = c /\ s.registration.label = config.label,
         FilesOK(s, attempt', checkpoint', publication'),
         ArchivesOK(s, attempt', checkpoint', failedAttempts', failedSyncs',
                    staleAttempts'),
         Held(s.outcomes, hub')
  PROVE  \A d \in Client : CommandOK(d)'
  <1> SUFFICES ASSUME NEW d \in Client
               PROVE  CommandOK(d)'
    OBVIOUS
  <1>1. CommandOK(d) /\ d # None
    BY OnboardingAssumption DEF OnboardingInv
  <1>2. CASE d = c
    BY <1>2 DEF CommandOK
  <1>3. CASE d # c
    <2>1. client'[d] = client[d] /\ Held(client[d].outcomes, hub')
      BY <1>1, <1>3, HeldGrows DEF CommandOK
    <2>2. CASE client[d].pc \in Inside
      <3>1. onboardingLock = d /\ onboardingLock' = d
        BY <1>1, <1>3, <2>2 DEF CommandOK
      <3>2. client[d].pc \in Synced => principalLock' = d
        BY <1>1, <1>3 DEF CommandOK
      <3> QED
        BY <1>1, <1>3, <2>1, <3>1, <3>2 DEF CommandOK
    <2>3. CASE client[d].pc \notin Inside
      <3>1. FilesOK(client[d], attempt', checkpoint', publication')
        BY <1>1, <2>3 DEF CommandOK, FilesOK, Inside, Working, Synced, Answered, Retiring
      <3>2. ArchivesOK(client[d], attempt', checkpoint', failedAttempts', failedSyncs',
                       staleAttempts')
        BY <2>3 DEF ArchivesOK, Inside, Working, Answered, Retiring
      <3>3. client[d].pc \notin Synced
        BY <2>3 DEF Inside, Working
      <3> QED
        BY <2>1, <2>3, <3>1, <3>2, <3>3 DEF CommandOK
    <2> QED
      BY <2>2, <2>3
  <1> QED
    BY <1>2, <1>3

\* A step that changes no file, or only what the vault has received.
LEMMA QuietStep ==
  ASSUME OnboardingInv, NEW c \in Client, NEW s \in CommandType, Goto(c, s),
         UNCHANGED <<hubVars, pending, activeVars, archiveVars, outputVars>>,
         local' \subseteq Record, receipts' \subseteq ReceiptType,
         marker' \in ReceiptType \cup {None},
         Disturb \/ UNCHANGED disturbances,
         onboardingLock' \in Client \cup {None}, principalLock' \in Client \cup {None},
         onboardingLock \notin {c, None} => onboardingLock' = onboardingLock,
         principalLock \notin {c, None} => principalLock' = principalLock,
         s.pc \in Inside => onboardingLock' = c,
         s.pc \in Synced => principalLock' = c /\ s.registration.label = config.label,
         FilesOK(s, attempt, checkpoint, publication),
         ArchivesOK(s, attempt, checkpoint, failedAttempts, failedSyncs, staleAttempts),
         Held(s.outcomes, hub)
  PROVE  OnboardingInv'
  <1> USE DEF hubVars, activeVars, archiveVars, outputVars
  <1>1. /\ client' \in [Client -> CommandType]
        /\ \A d \in Client : client'[d] = IF d = c THEN s ELSE client[d]
    BY GotoTyped DEF OnboardingInv
  <1>2. Typed'
    BY <1>1, DisturbTyped DEF OnboardingInv, Typed, FilesTyped
  <1>3. \A d \in Client : CommandOK(d)'
    BY <1>1, CommandsKeep
  <1>4. ActiveOK' /\ PublicationBacked'
    BY DEF OnboardingInv, ActiveOK, PublicationBacked
  <1> QED
    BY <1>2, <1>3, <1>4 DEF OnboardingInv

LEMMA NothingHeld == \A H : Held({}, H)
  BY DEF Held

LEMMA FinishKeeps ==
  ASSUME OnboardingInv, NEW c \in Client, Finish(c),
         UNCHANGED <<hubVars, vaultVars, activeVars, archiveVars, outputVars>>,
         Disturb \/ UNCHANGED disturbances
  PROVE  OnboardingInv'
  <1>1. /\ Goto(c, Idle)
        /\ local' \subseteq Record /\ receipts' \subseteq ReceiptType
        /\ marker' \in ReceiptType \cup {None}
        /\ UNCHANGED pending
    BY DEF Finish, vaultVars, OnboardingInv, Typed, FilesTyped
  <1>2. ArchivesOK(Idle, attempt, checkpoint, failedAttempts, failedSyncs, staleAttempts)
    BY IdleOK DEF ArchivesOK
  <1>3. Idle.pc \notin Inside /\ Idle.pc \notin Synced
    BY IdleOK DEF Inside, Working, Synced, Answered, Retiring
  <1>4. /\ onboardingLock' \in Client \cup {None} /\ principalLock' \in Client \cup {None}
        /\ onboardingLock \notin {c, None} => onboardingLock' = onboardingLock
        /\ principalLock \notin {c, None} => principalLock' = principalLock
    BY FinishLocks DEF OnboardingInv
  <1> QED
    BY <1>1, <1>2, <1>3, <1>4, IdleOK, NothingHeld, QuietStep

\* A step of the command inside, which may change files.
LEMMA FileStep ==
  ASSUME OnboardingInv, NEW c \in Client, client[c].pc \in Inside,
         NEW s \in CommandType, Goto(c, s),
         FilesTyped', UNCHANGED <<config, disturbances>>, IsFiniteSet(failedAttempts'),
         hub \subseteq hub',
         principalLock \notin {c, None} => principalLock' = principalLock,
         s.pc \in Inside => onboardingLock' = c,
         s.pc \in Synced => principalLock' = c /\ s.registration.label = config.label,
         FilesOK(s, attempt', checkpoint', publication'),
         ArchivesOK(s, attempt', checkpoint', failedAttempts', failedSyncs',
                    staleAttempts'),
         Held(s.outcomes, hub'),
         ActiveOK', PublicationBacked'
  PROVE  OnboardingInv'
  <1>1. /\ client' \in [Client -> CommandType]
        /\ \A d \in Client : client'[d] = IF d = c THEN s ELSE client[d]
    BY GotoTyped DEF OnboardingInv
  <1>2. onboardingLock = c
    BY DEF OnboardingInv, CommandOK
  <1>3. Typed'
    BY <1>1 DEF OnboardingInv, Typed
  <1>4. \A d \in Client : CommandOK(d)'
    BY <1>1, <1>2, CommandsKeep
  <1> QED
    BY <1>3, <1>4 DEF OnboardingInv

\* The command of a client, as the invariant describes it.
LEMMA CommandKnown ==
  ASSUME OnboardingInv, NEW c \in Client
  PROVE  /\ client[c] \in CommandType
         /\ CommandOK(c)
         /\ c # None
         /\ FilesOK(client[c], attempt, checkpoint, publication)
         /\ ArchivesOK(client[c], attempt, checkpoint, failedAttempts, failedSyncs,
                       staleAttempts)
         /\ Held(client[c].outcomes, hub)
         /\ local \subseteq Record /\ receipts \subseteq ReceiptType
         /\ marker \in ReceiptType \cup {None}
         /\ onboardingLock \in Client \cup {None} /\ principalLock \in Client \cup {None}
         /\ FilesTyped /\ Typed
  BY OnboardingAssumption DEF OnboardingInv, CommandOK, Typed, FilesTyped

-----------------------------------------------------------------------------
(***************************************************************************)
(* Up to the sync                                                          *)
(***************************************************************************)
LEMMA BeginKeeps ==
  ASSUME OnboardingInv, NEW c \in Client, Begin(c) \/ Enter(c)
  PROVE  OnboardingInv'
  <1> USE DEF Inside, Working, Synced, Answered, Retiring
  <1> DEFINE q == client[c]
  <1>0. /\ q \in CommandType /\ CommandOK(c) /\ Held(q.outcomes, hub)
        /\ FilesOK(q, attempt, checkpoint, publication)
    BY CommandKnown
  <1>1. CASE Begin(c)
    <2> DEFINE t == IF c \in Steady THEN Now ELSE Between
               s == [Idle EXCEPT !.pc = "wait", !.registration = config, !.time = t]
    <2>1. /\ Goto(c, s)
          /\ UNCHANGED <<hubVars, vaultVars, activeVars, archiveVars, outputVars, lockVars>>
          /\ Disturb \/ UNCHANGED disturbances
      BY <1>1 DEF Begin
    <2>2. t \in Nat /\ config \in BindingType
      BY CountsTyped DEF OnboardingInv, Typed, FilesTyped
    <2> HIDE DEF t
    <2>3. /\ s \in CommandType /\ s.pc = "wait" /\ s.registration = config
          /\ s.attempt = None /\ s.rejected = FALSE /\ s.outcomes = {}
      BY <2>2, IdleOK DEF CommandType, Idle
    <2> HIDE DEF s
    <2>4. /\ FilesOK(s, attempt, checkpoint, publication)
          /\ ArchivesOK(s, attempt, checkpoint, failedAttempts, failedSyncs, staleAttempts)
          /\ Held(s.outcomes, hub)
      BY <2>2, <2>3 DEF FilesOK, ArchivesOK, Held
    <2> QED
      BY <2>1, <2>3, <2>4, CommandKnown, QuietStep DEF vaultVars, lockVars
  <1>2. CASE Enter(c)
    <2> DEFINE s == [q EXCEPT !.pc = "survey", !.pairs = Cardinality(local)]
    <2>1. /\ q.pc = "wait" /\ onboardingLock = None /\ onboardingLock' = c /\ Goto(c, s)
          /\ UNCHANGED <<hubVars, vaultVars, activeVars, archiveVars, outputVars,
                         principalLock, disturbances>>
      BY <1>2 DEF Enter, LockFree, At
    <2>2. Cardinality(local) \in 0 .. Cardinality(Record)
      BY CountsTyped DEF OnboardingInv
    <2>3. /\ s \in CommandType /\ s.pc = "survey" /\ s.registration = q.registration
          /\ s.attempt = q.attempt /\ s.rejected = q.rejected /\ s.outcomes = q.outcomes
      BY <1>0, <2>2 DEF CommandType
    <2> HIDE DEF s
    <2>4. /\ FilesOK(s, attempt, checkpoint, publication)
          /\ ArchivesOK(s, attempt, checkpoint, failedAttempts, failedSyncs, staleAttempts)
          /\ Held(s.outcomes, hub)
      BY <1>0, <2>1, <2>3 DEF FilesOK, ArchivesOK
    <2>5. /\ local' \subseteq Record /\ receipts' \subseteq ReceiptType
          /\ marker' \in ReceiptType \cup {None} /\ pending' = pending
          /\ onboardingLock' \in Client \cup {None} /\ principalLock' \in Client \cup {None}
      BY <2>1, CommandKnown DEF vaultVars
    <2>6. s.pc \notin Synced
      BY <2>3
    <2> QED
      BY <2>1, <2>3, <2>4, <2>5, <2>6, QuietStep
  <1> QED
    BY <1>1, <1>2

LEMMA SurveyKeeps ==
  ASSUME OnboardingInv, NEW c \in Client,
         \/ RefuseState(c) \/ ResumePublication(c)
         \/ FinishFailed(c) \/ RetireStale(c) \/ Proceed(c)
  PROVE  OnboardingInv'
  <1> USE DEF Inside, Working, Synced, Answered, Retiring
  <1> DEFINE q == client[c]
  <1>0. /\ q \in CommandType /\ CommandOK(c) /\ Held(q.outcomes, hub) /\ FilesTyped
        /\ FilesOK(q, attempt, checkpoint, publication)
    BY CommandKnown
  <1>1. CASE RefuseState(c)
    BY <1>1, FinishKeeps DEF RefuseState, End
  <1>2. ASSUME NEW s \in CommandType, q.pc = "survey", Goto(c, s), s.pc \in Inside \ Synced,
               UNCHANGED <<hubVars, vaultVars, activeVars, archiveVars, outputVars,
                           lockVars, disturbances>>,
               s.outcomes = q.outcomes,
               FilesOK(s, attempt, checkpoint, publication),
               ArchivesOK(s, attempt, checkpoint, failedAttempts, failedSyncs, staleAttempts)
        PROVE  OnboardingInv'
    <2>1. onboardingLock = c /\ onboardingLock' = c
      BY <1>0, <1>2 DEF CommandOK, lockVars
    <2> QED
      BY <1>0, <1>2, <2>1, CommandKnown, QuietStep DEF vaultVars, lockVars
  <1>3. CASE ResumePublication(c)
    <2> DEFINE s == [q EXCEPT !.pc = "outputs"]
    <2>1. /\ q.pc = "survey" /\ publication # None /\ Goto(c, s)
          /\ UNCHANGED <<hubVars, vaultVars, activeVars, archiveVars, outputVars,
                         lockVars, disturbances>>
      BY <1>3 DEF ResumePublication, At
    <2>2. /\ s \in CommandType /\ s.pc = "outputs" /\ s.registration = q.registration
          /\ s.attempt = q.attempt /\ s.rejected = q.rejected /\ s.outcomes = q.outcomes
      BY <1>0 DEF CommandType
    <2> HIDE DEF s
    <2>3. /\ FilesOK(s, attempt, checkpoint, publication)
          /\ ArchivesOK(s, attempt, checkpoint, failedAttempts, failedSyncs, staleAttempts)
      BY <1>0, <2>1, <2>2 DEF FilesOK, ArchivesOK
    <2> QED
      BY <1>2, <2>1, <2>2, <2>3
  <1>4. CASE FinishFailed(c)
    <2> DEFINE s == [q EXCEPT !.pc = "unlinkSync"]
    <2>1. /\ q.pc = "survey" /\ publication = None /\ Goto(c, s)
          /\ attempt # None /\ Archived(attempt) /\ ~Contradictory(q.registration)
          /\ UNCHANGED <<hubVars, vaultVars, activeVars, archiveVars, outputVars,
                         lockVars, disturbances>>
      BY <1>4 DEF FinishFailed, Surveying, GoOn, At, archiveVars
    <2>2. /\ s \in CommandType /\ s.pc = "unlinkSync" /\ s.registration = q.registration
          /\ s.attempt = q.attempt /\ s.rejected = q.rejected /\ s.outcomes = q.outcomes
      BY <1>0 DEF CommandType
    <2> HIDE DEF s
    <2>3. FilesOK(s, attempt, checkpoint, publication)
      BY <1>0, <2>1, <2>2 DEF FilesOK
    <2>4. ArchivesOK(s, attempt, checkpoint, failedAttempts, failedSyncs, staleAttempts)
      BY <2>1, <2>2 DEF ArchivesOK, Archived, InArchive, Contradictory
    <2> QED
      BY <1>2, <2>1, <2>2, <2>3, <2>4
  <1>5. CASE RetireStale(c)
    <2> DEFINE s == [q EXCEPT !.resume = TRUE, !.pc = "unlinkAttempt"]
    <2>1. /\ q.pc = "survey" /\ publication = None
          /\ attempt # None /\ ~Archived(attempt) /\ ~Contradictory(q.registration)
          /\ Scope(attempt, q.registration) = "stale"
          /\ staleAttempts' = staleAttempts \cup {attempt}
          /\ UNCHANGED <<hubVars, vaultVars, activeVars, failedAttempts, failedSyncs,
                         outputVars, lockVars, disturbances>>
      BY <1>5 DEF RetireStale, Surveying, GoOn, At
    <2>2. Goto(c, s)
      BY <1>5 DEF RetireStale, GoOn
    <2>3. /\ s \in CommandType /\ s.pc = "unlinkAttempt" /\ s.registration = q.registration
          /\ s.attempt = q.attempt /\ s.rejected = q.rejected /\ s.outcomes = q.outcomes
      BY <1>0 DEF CommandType
    <2> HIDE DEF s
    <2>4. checkpoint = None
      BY <2>1 DEF Contradictory
    <2>5. /\ FilesOK(s, attempt', checkpoint', publication')
          /\ ArchivesOK(s, attempt', checkpoint', failedAttempts', failedSyncs',
                        staleAttempts')
      BY <1>0, <2>1, <2>3, <2>4 DEF FilesOK, ArchivesOK, activeVars, outputVars
    <2>6. FilesTyped' /\ IsFiniteSet(failedAttempts')
      BY <1>0, <2>1
      DEF FilesTyped, OnboardingInv, Typed, hubVars, vaultVars, activeVars, outputVars, lockVars
    <2>7. ActiveOK' /\ PublicationBacked'
      BY <2>1 DEF OnboardingInv, ActiveOK, PublicationBacked, hubVars, vaultVars,
                  activeVars, outputVars
    <2>8. onboardingLock' = c /\ Held(s.outcomes, hub')
      BY <1>0, <2>1, <2>3 DEF CommandOK, lockVars, hubVars
    <2> QED
      BY <2>1, <2>2, <2>3, <2>5, <2>6, <2>7, <2>8, FileStep DEF hubVars, lockVars
  <1>6. CASE Proceed(c)
    <2> DEFINE retained == IF attempt = None THEN None ELSE checkpoint
               pc == IF retained = None THEN "bind" ELSE "recover"
               u == [q EXCEPT !.attempt = attempt, !.checkpoint = retained]
               s == [u EXCEPT !.pc = pc]
    <2>1. /\ q.pc = "survey" /\ publication = None
          /\ attempt # None => Scope(attempt, q.registration) = "current"
          /\ UNCHANGED <<hubVars, vaultVars, activeVars, archiveVars, outputVars,
                         lockVars, disturbances>>
      BY <1>6 DEF Proceed, Surveying, GoOn, At, archiveVars
    <2>2. Goto(c, s)
      BY <1>6 DEF Proceed, GoOn
    <2>3. /\ attempt \in AttemptType \cup {None}
          /\ retained \in CheckpointType \cup {None}
          /\ pc \in {"bind", "recover"}
      BY <1>0 DEF FilesTyped
    <2>a. /\ pc = "bind" => retained = None
          /\ pc = "recover" => attempt # None /\ retained = checkpoint /\ retained # None
          /\ retained = None => attempt = None \/ checkpoint = None
      OBVIOUS
    <2> HIDE DEF retained, pc
    <2>4. checkpoint # None => attempt # None
      BY DEF OnboardingInv, ActiveOK
    <2>5. /\ s \in CommandType /\ s.pc = pc /\ s.registration = q.registration
          /\ s.attempt = attempt /\ s.checkpoint = retained
          /\ s.rejected = q.rejected /\ s.outcomes = q.outcomes
      <3>1. /\ u \in CommandType /\ u.registration = q.registration
            /\ u.attempt = attempt /\ u.checkpoint = retained
            /\ u.rejected = q.rejected /\ u.outcomes = q.outcomes
        BY <1>0, <2>3 DEF CommandType
      <3> HIDE DEF u
      <3> QED
        BY <2>3, <3>1 DEF CommandType
    <2> HIDE DEF s
    <2>6. attempt # None => attempt.label = q.registration.label
      BY <2>1 DEF Scope
    <2>7. /\ FilesOK(s, attempt, checkpoint, publication)
          /\ ArchivesOK(s, attempt, checkpoint, failedAttempts, failedSyncs, staleAttempts)
      BY <1>0, <2>1, <2>3, <2>4, <2>5, <2>6, <2>a DEF FilesOK, ArchivesOK
    <2>8. s.pc \in Inside \ Synced
      BY <2>3, <2>5
    <2> QED
      BY <1>2, <2>1, <2>2, <2>5, <2>7, <2>8
  <1> QED
    BY <1>1, <1>3, <1>4, <1>5, <1>6

-----------------------------------------------------------------------------
(***************************************************************************)
(* The sync                                                                *)
(***************************************************************************)

\* Outcomes are truthful about the hub they leave behind.
LEMMA OutcomesHeld ==
  ASSUME NEW candidates \in SUBSET Record, NEW admitted, NEW H, admitted \subseteq H
  PROVE  LET outs == {[record |-> r, admitted |-> r \in admitted] : r \in candidates}
         IN  outs \in SUBSET OutcomeType /\ Held(outs, H)
  <1> DEFINE outs == {[record |-> r, admitted |-> r \in admitted] : r \in candidates}
  <1>1. ASSUME NEW o \in outs
        PROVE  o \in OutcomeType /\ (o.admitted => o.record \in H)
    <2>1. PICK r \in candidates : o = [record |-> r, admitted |-> r \in admitted]
      BY <1>1
    <2>2. (r \in admitted) \in BOOLEAN
      OBVIOUS
    <2>3. o \in OutcomeType
      BY <2>1, <2>2 DEF OutcomeType
    <2>4. o.admitted => o.record \in H
      BY <2>1
    <2> QED
      BY <2>3, <2>4
  <1> QED
    BY <1>1 DEF Held

LEMMA BindKeeps ==
  ASSUME OnboardingInv, NEW c \in Client, Bind(c) \/ RefuseBind(c)
  PROVE  OnboardingInv'
  <1> USE DEF Inside, Working, Synced, Answered, Retiring
  <1> DEFINE q == client[c]
  <1>0. /\ q \in CommandType /\ CommandOK(c) /\ Held(q.outcomes, hub) /\ FilesTyped
        /\ FilesOK(q, attempt, checkpoint, publication)
    BY CommandKnown
  <1>1. CASE RefuseBind(c)
    BY <1>1, FinishKeeps DEF RefuseBind, End
  <1>2. CASE Bind(c)
    <2> DEFINE a == IF q.attempt = None THEN NewAttempt(c) ELSE q.attempt
               pc == IF Resumes(c) /\ pending # None THEN "pull" ELSE "push"
               s == [q EXCEPT !.attempt = a, !.pc = pc]
    <2>1. /\ q.pc = "bind" /\ principalLock = None /\ config.label = q.registration.label
          /\ principalLock' = c /\ attempt' = a /\ Goto(c, s)
          /\ UNCHANGED <<hubVars, vaultVars, checkpoint, archiveVars, outputVars,
                         onboardingLock, disturbances>>
      BY <1>2 DEF Bind, At
    <2>2. /\ q.attempt = attempt /\ checkpoint = None /\ publication = None
          /\ q.registration \in BindingType
          /\ attempt # None => attempt.label = q.registration.label
      BY <1>0, <2>1 DEF FilesOK
    <2>3. NewAttempt(c) \in AttemptType /\ NewAttempt(c).label = q.registration.label
      BY <1>0, <2>2 DEF NewAttempt, AttemptType, BindingType, CommandType
    <2>4. /\ a \in AttemptType /\ a # None /\ a.label = q.registration.label
      BY <1>0, <2>2, <2>3, NoFileAssumption DEF FilesTyped
    <2>5. pc \in {"pull", "push"}
      OBVIOUS
    <2> HIDE DEF a, pc
    <2>6. /\ s \in CommandType /\ s.pc = pc /\ s.registration = q.registration
          /\ s.attempt = a /\ s.outcomes = q.outcomes
      BY <1>0, <2>4, <2>5 DEF CommandType
    <2> HIDE DEF s
    <2>7. /\ FilesOK(s, attempt', checkpoint', publication')
          /\ ArchivesOK(s, attempt', checkpoint', failedAttempts', failedSyncs',
                        staleAttempts')
      BY <2>1, <2>2, <2>4, <2>5, <2>6 DEF FilesOK, ArchivesOK, outputVars
    <2>8. FilesTyped' /\ IsFiniteSet(failedAttempts')
      BY <1>0, <2>1, <2>4
      DEF FilesTyped, OnboardingInv, Typed, hubVars, vaultVars, archiveVars, outputVars
    <2>9. ActiveOK' /\ PublicationBacked'
      BY <2>1, <2>2 DEF OnboardingInv, ActiveOK, PublicationBacked, hubVars, vaultVars,
                        outputVars
    <2>10. onboardingLock' = c /\ Held(s.outcomes, hub')
      BY <1>0, <2>1, <2>6 DEF CommandOK, hubVars
    <2> QED
      BY <2>1, <2>6, <2>7, <2>8, <2>9, <2>10, FileStep DEF hubVars
  <1> QED
    BY <1>1, <1>2

\* A step of a sync that leaves the locks to it.
LEMMA SyncStep ==
  ASSUME OnboardingInv, NEW c \in Client, client[c].pc \in Synced,
         NEW s \in CommandType, Goto(c, s), s.pc \in Synced,
         s.registration = client[c].registration,
         FilesTyped', UNCHANGED <<config, disturbances, archiveVars, lockVars>>,
         hub \subseteq hub',
         FilesOK(s, attempt', checkpoint', publication'),
         Held(s.outcomes, hub'),
         ActiveOK', PublicationBacked'
  PROVE  OnboardingInv'
  <1>1. /\ client[c].pc \in Inside /\ s.pc \in Inside
        /\ s.pc \notin Retiring \cup {"archive"}
    BY DEF Inside, Working, Synced, Retiring
  <1>2. /\ onboardingLock' = c /\ principalLock' = c
        /\ s.registration.label = config.label
    BY <1>1, CommandKnown DEF CommandOK, lockVars
  <1>3. ArchivesOK(s, attempt', checkpoint', failedAttempts', failedSyncs', staleAttempts')
    BY <1>1 DEF ArchivesOK, Retiring
  <1>4. IsFiniteSet(failedAttempts')
    BY DEF OnboardingInv, Typed, archiveVars
  <1> QED
    BY <1>1, <1>2, <1>3, <1>4, FileStep DEF lockVars

LEMMA PushKeeps ==
  ASSUME OnboardingInv, NEW c \in Client,
         Admit(c) \/ RefusePush(c) \/ SavePending(c) \/ RetainCheckpoint(c)
  PROVE  OnboardingInv'
  <1> USE DEF Inside, Working, Synced, Answered, Retiring
  <1> DEFINE q == client[c]
  <1>0. /\ q \in CommandType /\ CommandOK(c) /\ Held(q.outcomes, hub) /\ FilesTyped
        /\ FilesOK(q, attempt, checkpoint, publication) /\ ActiveOK /\ PublicationBacked
    BY CommandKnown DEF OnboardingInv
  <1>1. CASE RefusePush(c)
    BY <1>1, FinishKeeps DEF RefusePush, End
  <1>2. CASE Admit(c)
    <2> DEFINE candidates == local \ Known
               admitted == {r \in candidates : Requires[r] \subseteq hub}
               outs == {[record |-> r, admitted |-> r \in admitted] : r \in candidates}
               s == [q EXCEPT !.pc = "save", !.outcomes = outs]
    <2>1. /\ q.pc = "push" /\ hub' = hub \cup admitted /\ Goto(c, s)
          /\ UNCHANGED <<config, vaultVars, activeVars, archiveVars, outputVars, lockVars,
                         disturbances>>
      BY <1>2 DEF Admit, At
    <2>2. candidates \in SUBSET Record /\ admitted \subseteq Record
      BY <1>0 DEF FilesTyped
    <2> HIDE DEF candidates
    <2>3. outs \in SUBSET OutcomeType /\ Held(outs, hub \cup admitted)
      <3> HIDE DEF admitted
      <3> QED
        BY <2>2, OutcomesHeld
    <2> HIDE DEF admitted, outs
    <2>4. /\ s \in CommandType /\ s.pc = "save" /\ s.registration = q.registration
          /\ s.attempt = q.attempt /\ s.outcomes = outs
      BY <1>0, <2>3 DEF CommandType
    <2> HIDE DEF s
    <2>5. FilesOK(s, attempt', checkpoint', publication')
      BY <1>0, <2>1, <2>4 DEF FilesOK, activeVars, outputVars
    <2>6. FilesTyped'
      BY <1>0, <2>1, <2>2 DEF FilesTyped, vaultVars, activeVars, archiveVars, outputVars, lockVars
    <2>7. ActiveOK'
      BY <1>0, <2>1, HeldGrows DEF ActiveOK, vaultVars, activeVars
    <2>8. PublicationBacked'
      BY <1>0, <2>1 DEF PublicationBacked, activeVars, outputVars
    <2> QED
      BY <2>1, <2>3, <2>4, <2>5, <2>6, <2>7, <2>8, SyncStep
  <1>3. CASE SavePending(c)
    <2> DEFINE s == [q EXCEPT !.pc = "pull", !.outcomes = {}]
    <2>1. /\ q.pc = "save" /\ pending' = q.outcomes /\ Goto(c, s)
          /\ UNCHANGED <<hubVars, local, receipts, marker, activeVars, archiveVars,
                         outputVars, lockVars, disturbances>>
      BY <1>3 DEF SavePending, At
    <2>2. /\ s \in CommandType /\ s.pc = "pull" /\ s.registration = q.registration
          /\ s.attempt = q.attempt /\ s.outcomes = {}
      BY <1>0 DEF CommandType
    <2> HIDE DEF s
    <2>3. FilesOK(s, attempt', checkpoint', publication')
      BY <1>0, <2>1, <2>2 DEF FilesOK, activeVars, outputVars
    <2>4. FilesTyped'
      BY <1>0, <2>1
      DEF FilesTyped, CommandType, hubVars, activeVars, archiveVars, outputVars, lockVars
    <2>5. ActiveOK' /\ PublicationBacked'
      BY <1>0, <2>1 DEF ActiveOK, PublicationBacked, hubVars, activeVars, outputVars
    <2> QED
      BY <2>1, <2>2, <2>3, <2>4, <2>5, NothingHeld, SyncStep DEF hubVars
  <1>4. CASE RetainCheckpoint(c)
    <2> DEFINE k == [attempt |-> q.attempt, receipt |-> Answer(q.attempt.time)]
               s == [q EXCEPT !.pc = "apply", !.checkpoint = k]
    <2>1. /\ q.pc = "pull" /\ checkpoint' = k /\ Goto(c, s)
          /\ UNCHANGED <<hubVars, vaultVars, attempt, archiveVars, outputVars, lockVars,
                         disturbances>>
      BY <1>4 DEF RetainCheckpoint, At
    <2>2. /\ q.attempt = attempt /\ attempt # None /\ publication = None
          /\ attempt.label = q.registration.label /\ q.registration.label = config.label
          /\ attempt \in AttemptType
      BY <1>0, <2>1 DEF FilesOK, CommandOK, FilesTyped
    <2>3. /\ Answer(q.attempt.time) \in ReceiptType
          /\ Answer(q.attempt.time).label = config.label
          /\ Held(Answer(q.attempt.time).outcomes, hub)
      BY <1>0, <2>2, NothingHeld
      DEF FilesTyped, Answer, ReceiptType, AttemptType, BindingType, ActiveOK
    <2>4. /\ k \in CheckpointType /\ k.attempt = attempt
          /\ k.receipt.label = attempt.label /\ Held(k.receipt.outcomes, hub)
      BY <2>2, <2>3 DEF CheckpointType
    <2> HIDE DEF k
    <2>5. /\ s \in CommandType /\ s.pc = "apply" /\ s.registration = q.registration
          /\ s.attempt = q.attempt /\ s.checkpoint = k /\ s.outcomes = q.outcomes
      BY <1>0, <2>4 DEF CommandType
    <2> HIDE DEF s
    <2>6. k # None
      BY <2>4, NoFileAssumption
    <2>7. FilesOK(s, attempt', checkpoint', publication')
      BY <1>0, <2>1, <2>2, <2>5, <2>6 DEF FilesOK, outputVars
    <2>8. FilesTyped'
      BY <1>0, <2>1, <2>4 DEF FilesTyped, hubVars, vaultVars, archiveVars, outputVars, lockVars
    <2>9. ActiveOK' /\ PublicationBacked'
      BY <1>0, <2>1, <2>2, <2>4
      DEF ActiveOK, PublicationBacked, hubVars, vaultVars, outputVars
    <2>10. Held(s.outcomes, hub') /\ UNCHANGED config /\ hub \subseteq hub'
      BY <1>0, <2>1, <2>5 DEF hubVars
    <2> QED
      BY <2>1, <2>5, <2>7, <2>8, <2>9, <2>10, SyncStep
  <1> QED
    BY <1>1, <1>2, <1>3, <1>4

-----------------------------------------------------------------------------
(***************************************************************************)
(* Applying the response, and recovery from the checkpoint                 *)
(***************************************************************************)
LEMMA ApplyKeeps ==
  ASSUME OnboardingInv, NEW c \in Client,
         \/ RefuseApply(c) \/ ApplyNothing(c) \/ PublishReceipt(c)
         \/ AdvanceMarker(c) \/ Consume(c)
  PROVE  OnboardingInv'
  <1> USE DEF Inside, Working, Synced, Answered, Retiring
  <1> DEFINE q == client[c]
  <1>0. /\ q \in CommandType /\ CommandOK(c) /\ Held(q.outcomes, hub) /\ FilesTyped
        /\ FilesOK(q, attempt, checkpoint, publication) /\ ActiveOK /\ PublicationBacked
    BY CommandKnown DEF OnboardingInv
  <1>1. CASE RefuseApply(c)
    BY <1>1, FinishKeeps DEF RefuseApply, End
  <1>2. ASSUME q.pc \in Answered
        PROVE  Receipt(c) \in ReceiptType
    BY <1>0, <1>2 DEF FilesOK, FilesTyped, CheckpointType, Receipt
  <1>3. ASSUME NEW pc \in {"expose", "consume"}, q.pc \in {"apply", "expose"},
               Goto(c, [q EXCEPT !.pc = pc]),
               local' \subseteq Record, receipts' \subseteq ReceiptType,
               marker' \in ReceiptType \cup {None},
               UNCHANGED <<hubVars, pending, activeVars, archiveVars, outputVars, lockVars,
                           disturbances>>
        PROVE  OnboardingInv'
    <2> DEFINE s == [q EXCEPT !.pc = pc]
    <2>1. /\ s \in CommandType /\ s.pc = pc /\ s.registration = q.registration
          /\ s.attempt = q.attempt /\ s.checkpoint = q.checkpoint
          /\ s.outcomes = q.outcomes
      BY <1>0 DEF CommandType
    <2>2. Goto(c, s)
      BY <1>3
    <2> HIDE DEF s
    <2>3. FilesOK(s, attempt', checkpoint', publication')
      BY <1>0, <1>3, <2>1 DEF FilesOK, activeVars, outputVars
    <2>4. FilesTyped'
      BY <1>0, <1>3 DEF FilesTyped, hubVars, activeVars, archiveVars, outputVars, lockVars
    <2>5. ActiveOK' /\ PublicationBacked'
      BY <1>0, <1>3 DEF ActiveOK, PublicationBacked, hubVars, activeVars, outputVars
    <2>6. Held(s.outcomes, hub') /\ UNCHANGED config /\ hub \subseteq hub'
      BY <1>0, <1>3, <2>1 DEF hubVars
    <2> QED
      BY <1>3, <2>1, <2>2, <2>3, <2>4, <2>5, <2>6, SyncStep
  <1>4. CASE ApplyNothing(c)
    BY <1>0, <1>3, <1>4 DEF ApplyNothing, At, vaultVars, FilesTyped
  <1>5. CASE PublishReceipt(c)
    <2>1. q.pc = "apply" /\ receipts' = receipts \cup {Receipt(c)}
      BY <1>5 DEF PublishReceipt, At
    <2>2. receipts' \subseteq ReceiptType
      BY <1>0, <1>2, <2>1 DEF FilesTyped
    <2> QED
      BY <1>0, <1>3, <1>5, <2>1, <2>2 DEF PublishReceipt, FilesTyped
  <1>6. CASE AdvanceMarker(c)
    <2>1. /\ q.pc = "expose" /\ marker' = Receipt(c)
          /\ local' = local \cup Receipt(c).members
      BY <1>6 DEF AdvanceMarker, At
    <2>2. local' \subseteq Record /\ marker' \in ReceiptType
      BY <1>0, <1>2, <2>1 DEF FilesTyped, ReceiptType
    <2> QED
      BY <1>0, <1>3, <1>6, <2>1, <2>2 DEF AdvanceMarker, FilesTyped
  <1>7. CASE Consume(c)
    <2> DEFINE s == [q EXCEPT !.pc = "judge"]
    <2>1. /\ q.pc = "consume" /\ principalLock' = None /\ Goto(c, s)
          /\ pending' \in {pending, None}
          /\ UNCHANGED <<hubVars, local, receipts, marker, activeVars, archiveVars,
                         outputVars, onboardingLock, disturbances>>
      BY <1>7 DEF Consume, At
    <2>2. /\ s \in CommandType /\ s.pc = "judge" /\ s.registration = q.registration
          /\ s.attempt = q.attempt /\ s.checkpoint = q.checkpoint
          /\ s.outcomes = q.outcomes
      BY <1>0 DEF CommandType
    <2> HIDE DEF s
    <2>3. /\ FilesOK(s, attempt', checkpoint', publication')
          /\ ArchivesOK(s, attempt', checkpoint', failedAttempts', failedSyncs',
                        staleAttempts')
      BY <1>0, <2>1, <2>2 DEF FilesOK, ArchivesOK, activeVars, outputVars
    <2>4. FilesTyped' /\ IsFiniteSet(failedAttempts')
      BY <1>0, <2>1
      DEF FilesTyped, OnboardingInv, Typed, hubVars, activeVars, archiveVars, outputVars
    <2>5. ActiveOK' /\ PublicationBacked'
      BY <1>0, <2>1 DEF ActiveOK, PublicationBacked, hubVars, activeVars, outputVars
    <2>6. /\ onboardingLock' = c /\ principalLock = c /\ Held(s.outcomes, hub')
      BY <1>0, <2>1, <2>2 DEF CommandOK, hubVars
    <2> QED
      BY <2>1, <2>2, <2>3, <2>4, <2>5, <2>6, FileStep DEF hubVars
  <1> QED
    BY <1>1, <1>4, <1>5, <1>6, <1>7

LEMMA RecoverKeeps ==
  ASSUME OnboardingInv, NEW c \in Client, Recover(c) \/ RefuseRecover(c)
  PROVE  OnboardingInv'
  <1> USE DEF Inside, Working, Synced, Answered, Retiring
  <1> DEFINE q == client[c]
  <1>0. /\ q \in CommandType /\ CommandOK(c) /\ Held(q.outcomes, hub) /\ FilesTyped
        /\ FilesOK(q, attempt, checkpoint, publication)
    BY CommandKnown
  <1>1. CASE RefuseRecover(c)
    BY <1>1, FinishKeeps DEF RefuseRecover, End
  <1>2. CASE Recover(c)
    <2> DEFINE pc == IF marker = None \/ marker.time < Receipt(c).time
                     THEN "apply" ELSE "consume"
               s == [q EXCEPT !.recovered = TRUE, !.pc = pc]
    <2>1. /\ q.pc = "recover" /\ principalLock = None /\ principalLock' = c /\ Goto(c, s)
          /\ config.label = q.registration.label
          /\ UNCHANGED <<hubVars, vaultVars, activeVars, archiveVars, outputVars,
                         onboardingLock, disturbances>>
      BY <1>2 DEF Recover, Recoverable, At
    <2>2. pc \in {"apply", "consume"}
      OBVIOUS
    <2> HIDE DEF pc
    <2>3. /\ s \in CommandType /\ s.pc = pc /\ s.registration = q.registration
          /\ s.attempt = q.attempt /\ s.checkpoint = q.checkpoint
          /\ s.outcomes = q.outcomes
      BY <1>0, <2>2 DEF CommandType
    <2> HIDE DEF s
    <2>4. /\ FilesOK(s, attempt, checkpoint, publication)
          /\ ArchivesOK(s, attempt, checkpoint, failedAttempts, failedSyncs, staleAttempts)
      BY <1>0, <2>1, <2>2, <2>3 DEF FilesOK, ArchivesOK
    <2>5. /\ onboardingLock' = c /\ UNCHANGED pending
          /\ local' \subseteq Record /\ receipts' \subseteq ReceiptType
          /\ marker' \in ReceiptType \cup {None}
      BY <1>0, <2>1 DEF CommandOK, FilesTyped, vaultVars
    <2> QED
      BY <1>0, <2>1, <2>2, <2>3, <2>4, <2>5, QuietStep
  <1> QED
    BY <1>1, <1>2

-----------------------------------------------------------------------------
(***************************************************************************)
(* Retirement and publication                                              *)
(***************************************************************************)
LEMMA RetireKeeps ==
  ASSUME OnboardingInv, NEW c \in Client,
         RetireFailed(c) \/ ArchiveSync(c) \/ UnlinkSync(c) \/ UnlinkAttempt(c)
  PROVE  OnboardingInv'
  <1> USE DEF Inside, Working, Synced, Answered, Retiring
  <1> DEFINE q == client[c]
  <1>0. /\ q \in CommandType /\ CommandOK(c) /\ Held(q.outcomes, hub) /\ FilesTyped
        /\ FilesOK(q, attempt, checkpoint, publication) /\ ActiveOK /\ PublicationBacked
        /\ ArchivesOK(q, attempt, checkpoint, failedAttempts, failedSyncs, staleAttempts)
        /\ IsFiniteSet(failedAttempts)
    BY CommandKnown DEF OnboardingInv, Typed
  <1>1. CASE RetireFailed(c)
    <2> DEFINE s == [q EXCEPT !.pc = "archive", !.rejected = TRUE]
    <2>1. /\ q.pc = "judge" /\ failedAttempts' = failedAttempts \cup {q.attempt}
          /\ Goto(c, s)
          /\ UNCHANGED <<hubVars, vaultVars, activeVars, failedSyncs, staleAttempts,
                         outputVars, lockVars, disturbances>>
      BY <1>1 DEF RetireFailed, At
    <2>2. /\ s \in CommandType /\ s.pc = "archive" /\ s.registration = q.registration
          /\ s.attempt = q.attempt /\ s.checkpoint = q.checkpoint
          /\ s.outcomes = q.outcomes /\ s.rejected = TRUE
      BY <1>0 DEF CommandType
    <2> HIDE DEF s
    <2>3. q.attempt = attempt /\ attempt \in AttemptType
      BY <1>0, <2>1 DEF FilesOK, FilesTyped
    <2>4. /\ FilesOK(s, attempt', checkpoint', publication')
          /\ ArchivesOK(s, attempt', checkpoint', failedAttempts', failedSyncs',
                        staleAttempts')
      BY <1>0, <2>1, <2>2, <2>3 DEF FilesOK, ArchivesOK, activeVars, outputVars
    <2>5. IsFiniteSet(failedAttempts')
      BY <1>0, <2>1, FS_AddElement
    <2>6. FilesTyped'
      BY <1>0, <2>1, <2>3
      DEF FilesTyped, hubVars, vaultVars, activeVars, outputVars, lockVars
    <2>7. ActiveOK' /\ PublicationBacked'
      BY <1>0, <2>1
      DEF ActiveOK, PublicationBacked, hubVars, vaultVars, activeVars, outputVars
    <2>8. onboardingLock' = c /\ Held(s.outcomes, hub')
      BY <1>0, <2>1, <2>2 DEF CommandOK, lockVars, hubVars
    <2> QED
      BY <2>1, <2>2, <2>4, <2>5, <2>6, <2>7, <2>8, FileStep DEF hubVars, lockVars
  <1>2. CASE ArchiveSync(c)
    <2> DEFINE s == [q EXCEPT !.pc = "unlinkSync"]
    <2>1. /\ q.pc = "archive" /\ failedSyncs' = failedSyncs \cup {q.checkpoint}
          /\ Goto(c, s)
          /\ UNCHANGED <<hubVars, vaultVars, activeVars, failedAttempts, staleAttempts,
                         outputVars, lockVars, disturbances>>
      BY <1>2 DEF ArchiveSync, At
    <2>2. /\ s \in CommandType /\ s.pc = "unlinkSync" /\ s.registration = q.registration
          /\ s.attempt = q.attempt /\ s.rejected = q.rejected
          /\ s.outcomes = q.outcomes
      BY <1>0 DEF CommandType
    <2> HIDE DEF s
    <2>3. /\ q.checkpoint = checkpoint /\ checkpoint # None /\ attempt \in failedAttempts
          /\ checkpoint \in CheckpointType /\ checkpoint.attempt = attempt
      BY <1>0, <2>1 DEF FilesOK, ArchivesOK, ActiveOK, FilesTyped
    <2>4. FilesOK(s, attempt', checkpoint', publication')
      BY <1>0, <2>1, <2>2, <2>3 DEF FilesOK, activeVars, outputVars
    <2>5. ArchivesOK(s, attempt', checkpoint', failedAttempts', failedSyncs', staleAttempts')
      BY <2>1, <2>2, <2>3 DEF ArchivesOK, InArchive, activeVars
    <2>6. FilesTyped' /\ IsFiniteSet(failedAttempts')
      BY <1>0, <2>1, <2>3
      DEF FilesTyped, hubVars, vaultVars, activeVars, outputVars, lockVars
    <2>7. ActiveOK' /\ PublicationBacked'
      BY <1>0, <2>1
      DEF ActiveOK, PublicationBacked, hubVars, vaultVars, activeVars, outputVars
    <2>8. onboardingLock' = c /\ Held(s.outcomes, hub')
      BY <1>0, <2>1, <2>2 DEF CommandOK, lockVars, hubVars
    <2> QED
      BY <2>1, <2>2, <2>4, <2>5, <2>6, <2>7, <2>8, FileStep DEF hubVars, lockVars
  <1>3. CASE UnlinkSync(c)
    <2> DEFINE s == [q EXCEPT !.pc = "unlinkAttempt"]
    <2>1. /\ q.pc = "unlinkSync" /\ checkpoint' = None /\ Goto(c, s)
          /\ UNCHANGED <<hubVars, vaultVars, attempt, archiveVars, outputVars, lockVars,
                         disturbances>>
      BY <1>3 DEF UnlinkSync, At
    <2>2. /\ s \in CommandType /\ s.pc = "unlinkAttempt" /\ s.registration = q.registration
          /\ s.attempt = q.attempt /\ s.rejected = q.rejected
          /\ s.outcomes = q.outcomes
      BY <1>0 DEF CommandType
    <2> HIDE DEF s
    <2>3. publication = None
      BY <1>0, <2>1 DEF FilesOK
    <2>4. FilesOK(s, attempt', checkpoint', publication')
      BY <1>0, <2>1, <2>2, <2>3 DEF FilesOK, outputVars
    <2>5. ArchivesOK(s, attempt', checkpoint', failedAttempts', failedSyncs', staleAttempts')
      BY <1>0, <2>1, <2>2 DEF ArchivesOK, archiveVars
    <2>6. FilesTyped' /\ IsFiniteSet(failedAttempts')
      BY <1>0, <2>1
      DEF FilesTyped, hubVars, vaultVars, archiveVars, outputVars, lockVars
    <2>7. ActiveOK' /\ PublicationBacked'
      BY <1>0, <2>1, <2>3
      DEF ActiveOK, PublicationBacked, hubVars, vaultVars, outputVars
    <2>8. onboardingLock' = c /\ Held(s.outcomes, hub')
      BY <1>0, <2>1, <2>2 DEF CommandOK, lockVars, hubVars
    <2> QED
      BY <2>1, <2>2, <2>4, <2>5, <2>6, <2>7, <2>8, FileStep DEF hubVars, lockVars
  <1>4. CASE UnlinkAttempt(c)
    <2>1. /\ q.pc = "unlinkAttempt" /\ attempt' = None
          /\ UNCHANGED <<hubVars, vaultVars, checkpoint, archiveVars, outputVars,
                         disturbances>>
      BY <1>4 DEF UnlinkAttempt, At
    <2>2. publication = None /\ checkpoint = None
      BY <1>0, <2>1 DEF FilesOK
    <2>3. IsFiniteSet(failedAttempts')
      BY <1>0, <2>1 DEF archiveVars
    <2>4. ActiveOK' /\ PublicationBacked'
      BY <1>0, <2>1, <2>2
      DEF ActiveOK, PublicationBacked, hubVars, vaultVars, outputVars
    <2>5. CASE q.rejected = TRUE
      <3>1. Finish(c)
        BY <1>4, <2>5 DEF UnlinkAttempt
      <3>2. /\ onboardingLock' \in Client \cup {None} /\ principalLock' \in Client \cup {None}
            /\ principalLock \notin {c, None} => principalLock' = principalLock
        BY <3>1, FinishLocks DEF OnboardingInv
      <3>3. FilesTyped'
        BY <1>0, <2>1, <3>2 DEF FilesTyped, hubVars, vaultVars, archiveVars, outputVars
      <3>4. /\ Idle.pc \notin Inside
            /\ ArchivesOK(Idle, attempt', checkpoint', failedAttempts', failedSyncs',
                          staleAttempts')
            /\ Held(Idle.outcomes, hub')
        BY IdleOK, NothingHeld DEF ArchivesOK
      <3> QED
        BY <2>1, <2>3, <2>4, <3>1, <3>2, <3>3, <3>4, IdleOK, FileStep DEF Finish, hubVars
    <2>6. CASE q.rejected # TRUE
      <3> DEFINE s == [q EXCEPT !.pc = "bind"]
      <3>1. Goto(c, s) /\ UNCHANGED lockVars
        BY <1>4, <2>6 DEF UnlinkAttempt
      <3>2. /\ s \in CommandType /\ s.pc = "bind" /\ s.registration = q.registration
            /\ s.attempt = q.attempt /\ s.outcomes = q.outcomes
        BY <1>0 DEF CommandType
      <3>3. q.rejected = FALSE
        BY <1>0, <2>6 DEF CommandType
      <3> HIDE DEF s
      <3>4. FilesOK(s, attempt', checkpoint', publication')
        BY <1>0, <2>1, <2>2, <3>2, <3>3 DEF FilesOK, outputVars
      <3>5. ArchivesOK(s, attempt', checkpoint', failedAttempts', failedSyncs',
                       staleAttempts')
        BY <3>2 DEF ArchivesOK
      <3>6. FilesTyped'
        BY <1>0, <2>1, <3>1
        DEF FilesTyped, hubVars, vaultVars, archiveVars, outputVars, lockVars
      <3>7. onboardingLock' = c /\ Held(s.outcomes, hub')
        BY <1>0, <2>1, <3>1, <3>2 DEF CommandOK, lockVars, hubVars
      <3> QED
        BY <2>1, <2>3, <2>4, <3>1, <3>2, <3>4, <3>5, <3>6, <3>7, FileStep
        DEF hubVars, lockVars
    <2> QED
      BY <2>5, <2>6
  <1> QED
    BY <1>1, <1>2, <1>3, <1>4

LEMMA PublishKeeps ==
  ASSUME OnboardingInv, NEW c \in Client,
         Publish(c) \/ WriteOutput(c) \/ Bootstrapped(c)
  PROVE  OnboardingInv'
  <1> USE DEF Inside, Working, Synced, Answered, Retiring
  <1> DEFINE q == client[c]
  <1>0. /\ q \in CommandType /\ CommandOK(c) /\ Held(q.outcomes, hub) /\ FilesTyped
        /\ FilesOK(q, attempt, checkpoint, publication) /\ ActiveOK /\ PublicationBacked
        /\ IsFiniteSet(failedAttempts)
    BY CommandKnown DEF OnboardingInv, Typed
  <1>1. CASE Publish(c)
    <2> DEFINE p == [label |-> q.registration.label, receipt |-> Receipt(c),
                     pairs |-> q.attempt.pairs]
               s == [q EXCEPT !.pc = "outputs"]
    <2>1. /\ q.pc = "judge" /\ publication' = p /\ Goto(c, s) /\ ~Rejected(Receipt(c))
          /\ UNCHANGED <<hubVars, vaultVars, activeVars, archiveVars, outputs, lockVars,
                         disturbances>>
      BY <1>1 DEF Publish, At
    <2>2. /\ q.attempt = attempt /\ q.checkpoint = checkpoint /\ checkpoint # None
          /\ attempt # None /\ attempt.label = q.registration.label
          /\ q.registration \in BindingType /\ publication = None
          /\ attempt \in AttemptType /\ checkpoint \in CheckpointType
      BY <1>0, <2>1 DEF FilesOK, FilesTyped
    <2>3. Receipt(c) = checkpoint.receipt /\ Receipt(c) \in ReceiptType
      BY <2>2 DEF Receipt, CheckpointType
    <2>4. /\ p \in PublicationType /\ p.label = q.registration.label
          /\ p.receipt = checkpoint.receipt
      BY <2>2, <2>3 DEF PublicationType, BindingType, AttemptType
    <2> HIDE DEF p
    <2>5. p # None
      BY <2>4, NoFileAssumption
    <2>6. /\ s \in CommandType /\ s.pc = "outputs" /\ s.registration = q.registration
          /\ s.outcomes = q.outcomes
      BY <1>0 DEF CommandType
    <2> HIDE DEF s
    <2>7. /\ FilesOK(s, attempt', checkpoint', publication')
          /\ ArchivesOK(s, attempt', checkpoint', failedAttempts', failedSyncs',
                        staleAttempts')
      BY <2>1, <2>2, <2>5, <2>6 DEF FilesOK, ArchivesOK
    <2>8. FilesTyped' /\ IsFiniteSet(failedAttempts')
      BY <1>0, <2>1, <2>4
      DEF FilesTyped, hubVars, vaultVars, activeVars, archiveVars, lockVars
    <2>9. ActiveOK'
      BY <1>0, <2>1 DEF ActiveOK, hubVars, vaultVars, activeVars
    <2>10. \A o \in checkpoint.receipt.outcomes : o.admitted /\ o.record \in hub
      BY <1>0, <2>1, <2>2, <2>3 DEF Rejected, ActiveOK, Held
    <2>11. PublicationBacked'
      BY <1>0, <2>1, <2>2, <2>4, <2>5, <2>10
      DEF PublicationBacked, ActiveOK, hubVars, activeVars
    <2>12. onboardingLock' = c /\ Held(s.outcomes, hub')
      BY <1>0, <2>1, <2>6 DEF CommandOK, lockVars, hubVars
    <2> QED
      BY <2>1, <2>6, <2>7, <2>8, <2>9, <2>11, <2>12, FileStep DEF hubVars, lockVars
  <1>2. CASE WriteOutput(c)
    <2> DEFINE n == q.written + 1
               s == [q EXCEPT !.written = n]
    <2>1. /\ q.pc = "outputs" /\ n <= OutputCount /\ outputs' \in {n, outputs} /\ Goto(c, s)
          /\ UNCHANGED <<hubVars, vaultVars, activeVars, archiveVars, publication,
                         lockVars, disturbances>>
      BY <1>2 DEF WriteOutput, At
    <2>2. n \in 0 .. OutputCount /\ n \in Nat
      BY <1>0, <2>1 DEF CommandType, OutputCount
    <2> HIDE DEF n
    <2>3. /\ s \in CommandType /\ s.pc = "outputs" /\ s.registration = q.registration
          /\ s.outcomes = q.outcomes
      BY <1>0, <2>1, <2>2 DEF CommandType
    <2> HIDE DEF s
    <2>4. publication # None
      BY <1>0, <2>1 DEF FilesOK
    <2>5. /\ FilesOK(s, attempt', checkpoint', publication')
          /\ ArchivesOK(s, attempt', checkpoint', failedAttempts', failedSyncs',
                        staleAttempts')
      BY <1>0, <2>1, <2>3, <2>4 DEF FilesOK, ArchivesOK
    <2>6. FilesTyped' /\ IsFiniteSet(failedAttempts')
      BY <1>0, <2>1, <2>2
      DEF FilesTyped, hubVars, vaultVars, activeVars, archiveVars, lockVars
    <2>7. ActiveOK' /\ PublicationBacked'
      BY <1>0, <2>1, <2>4
      DEF ActiveOK, PublicationBacked, hubVars, vaultVars, activeVars
    <2>8. onboardingLock' = c /\ Held(s.outcomes, hub')
      BY <1>0, <2>1, <2>3 DEF CommandOK, lockVars, hubVars
    <2> QED
      BY <2>1, <2>3, <2>5, <2>6, <2>7, <2>8, FileStep DEF hubVars, lockVars
  <1>3. CASE Bootstrapped(c)
    BY <1>3, FinishKeeps DEF Bootstrapped, End
  <1> QED
    BY <1>1, <1>2, <1>3

-----------------------------------------------------------------------------
(***************************************************************************)
(* Disturbances, and every step                                            *)
(***************************************************************************)

\* Steps of nobody inside: the hub grows, the label changes under no
\* principal lock, a plain pull replaces what the vault received.
LEMMA OutsideKeeps ==
  ASSUME OnboardingInv, FilesTyped', config'.generation <= disturbances',
         hub \subseteq hub', pending' \in {pending, None},
         principalLock # None => config' = config,
         UNCHANGED <<client, activeVars, archiveVars, outputVars, lockVars>>
  PROVE  OnboardingInv'
  <1> USE DEF activeVars, archiveVars, outputVars, lockVars
  <1>1. Typed'
    BY DEF OnboardingInv, Typed
  <1>2. ASSUME NEW c \in Client
        PROVE  CommandOK(c)'
    <2>1. Held(client[c].outcomes, hub')
      BY HeldGrows DEF OnboardingInv, CommandOK
    <2>2. client[c].pc \in Synced => config' = config
      BY OnboardingAssumption DEF OnboardingInv, CommandOK
    <2> QED
      BY <2>1, <2>2 DEF OnboardingInv, CommandOK
  <1>3. ActiveOK' /\ PublicationBacked'
    BY HeldGrows DEF OnboardingInv, ActiveOK, PublicationBacked
  <1> QED
    BY <1>1, <1>2, <1>3 DEF OnboardingInv

LEMMA DisturbancesKeep ==
  ASSUME OnboardingInv,
         \/ \E l \in Label : Reconfigure(l)
         \/ \E r \in Record \ Written : Deliver(r)
         \/ Pull
  PROVE  OnboardingInv'
  <1>0. /\ FilesTyped /\ Typed
        /\ disturbances \in Nat /\ config.generation \in Nat
        /\ config.generation <= disturbances
    BY OnboardingAssumption
    DEF OnboardingInv, Typed, FilesTyped, BindingType, Generations
  <1>1. ASSUME Disturb
        PROVE  /\ disturbances' = disturbances + 1
               /\ disturbances' \in 0 .. MaxDisturbances
               /\ config.generation + 1 <= disturbances'
    BY <1>0, <1>1, OnboardingAssumption DEF Disturb
  <1>2. ASSUME NEW l \in Label, Reconfigure(l)
        PROVE  OnboardingInv'
    <2>1. /\ Disturb /\ principalLock = None
          /\ config' = [label |-> l, generation |-> config.generation + 1]
          /\ UNCHANGED <<hub, vaultVars, activeVars, archiveVars, outputVars, lockVars,
                         client>>
      BY <1>2 DEF Reconfigure
    <2>2. config'.generation \in Generations /\ config'.generation <= disturbances'
      BY <1>0, <1>1, <2>1, OnboardingAssumption DEF Generations
    <2>3. config' \in BindingType
      BY <2>1, <2>2 DEF BindingType
    <2>4. FilesTyped'
      BY <1>0, <1>1, <2>1, <2>3
      DEF FilesTyped, vaultVars, activeVars, archiveVars, outputVars, lockVars
    <2> QED
      BY <2>1, <2>2, <2>4, OutsideKeeps DEF vaultVars
  <1>3. ASSUME NEW r \in Record \ Written, Deliver(r)
        PROVE  OnboardingInv'
    <2>1. FilesTyped'
      BY <1>0, <1>1, <1>3
      DEF Deliver, FilesTyped, vaultVars, activeVars, archiveVars, outputVars, lockVars
    <2>2. config' = config /\ config.generation <= disturbances'
      BY <1>0, <1>1, <1>3 DEF Deliver
    <2> QED
      BY <1>3, <2>1, <2>2, OutsideKeeps DEF Deliver, vaultVars
  <1>4. ASSUME Pull
        PROVE  OnboardingInv'
    <2> DEFINE r == Answer(Between)
    <2>1. r \in ReceiptType
      BY <1>0, CountsTyped DEF Answer, FilesTyped, BindingType, ReceiptType
    <2>2. /\ Disturb /\ pending' = None
          /\ \/ UNCHANGED <<local, receipts, marker>>
             \/ /\ receipts' = receipts \cup {r}
                /\ local' = local \cup r.members
                /\ marker' = r
          /\ UNCHANGED <<hubVars, activeVars, archiveVars, outputVars, lockVars, client>>
      BY <1>4 DEF Pull
    <2> HIDE DEF r
    <2>3. /\ local' \subseteq Record /\ receipts' \subseteq ReceiptType
          /\ marker' \in ReceiptType \cup {None}
      BY <1>0, <2>1, <2>2 DEF FilesTyped, ReceiptType
    <2>4. FilesTyped'
      BY <1>0, <1>1, <2>2, <2>3
      DEF FilesTyped, hubVars, activeVars, archiveVars, outputVars, lockVars
    <2>5. config' = config /\ config.generation <= disturbances'
      BY <1>0, <1>1, <2>2 DEF hubVars
    <2> QED
      BY <2>2, <2>4, <2>5, OutsideKeeps DEF hubVars
  <1> QED
    BY <1>2, <1>3, <1>4

LEMMA NextKeeps ==
  ASSUME OnboardingInv, [Next]_vars
  PROVE  OnboardingInv'
  <1>1. ASSUME NEW c \in Client, Crash(c)
        PROVE  OnboardingInv'
    BY <1>1, FinishKeeps DEF Crash
  <1>2. ASSUME NEW c \in Client, Step(c)
        PROVE  OnboardingInv'
    BY <1>2, BeginKeeps, SurveyKeeps, BindKeeps, PushKeeps, ApplyKeeps, RecoverKeeps,
      RetireKeeps, PublishKeeps DEF Step
  <1>3. CASE UNCHANGED vars
    <2>1. FilesTyped' /\ config'.generation <= disturbances'
      BY <1>3
      DEF OnboardingInv, Typed, FilesTyped, vars, hubVars, vaultVars, activeVars,
          archiveVars, outputVars, lockVars
    <2> QED
      BY <1>3, <2>1, OutsideKeeps DEF vars, hubVars, vaultVars
  <1> QED
    BY <1>1, <1>2, <1>3, BeginKeeps, DisturbancesKeep DEF Next

LEMMA InitKeeps == Init => OnboardingInv
  <1> SUFFICES ASSUME Init PROVE OnboardingInv
    OBVIOUS
  <1>1. config \in BindingType /\ config.generation = 0 /\ disturbances = 0
    BY OnboardingAssumption DEF Init, BindingType, Generations
  <1>2. Typed
    BY <1>1, IdleOK, OnboardingAssumption, FS_EmptySet
    DEF Init, Typed, FilesTyped, OutputCount
  <1>3. ASSUME NEW c \in Client
        PROVE  CommandOK(c)
    <2>1. client[c] = Idle
      BY DEF Init
    <2>2. Idle.pc \notin Inside /\ Idle.pc \notin Synced
      BY IdleOK DEF Inside, Working, Synced, Answered, Retiring
    <2> QED
      BY <2>1, <2>2, IdleOK, NothingHeld DEF CommandOK, ArchivesOK
  <1>4. ActiveOK /\ PublicationBacked
    BY DEF Init, ActiveOK, PublicationBacked
  <1> QED
    BY <1>2, <1>3, <1>4 DEF OnboardingInv

LEMMA OnboardingInvHolds == Spec => []OnboardingInv
  BY InitKeeps, NextKeeps, PTL DEF Spec

-----------------------------------------------------------------------------
(***************************************************************************)
(* The theorems                                                            *)
(***************************************************************************)

(***************************************************************************)
(* Every variable keeps its type, and a command has the locks of its step  *)
(* and in memory what the active files contain.                            *)
(***************************************************************************)
THEOREM TypeCorrect == Spec => []TypeOK
  <1>1. OnboardingInv => TypeOK
    BY DEF OnboardingInv, Typed, CommandOK, TypeOK
  <1> QED
    BY <1>1, OnboardingInvHolds, PTL

(***************************************************************************)
(* What onboard_project publishes is backed by the retained attempt and    *)
(* checkpoint, taken under one label, all of it admitted and in the hub.   *)
(***************************************************************************)
THEOREM PublicationsBacked == Spec => []PublicationBacked
  <1>1. OnboardingInv => PublicationBacked
    BY DEF OnboardingInv
  <1> QED
    BY <1>1, OnboardingInvHolds, PTL

EvidenceStep ==
  /\ checkpoint # None /\ checkpoint' # checkpoint =>
       /\ checkpoint' = None
       /\ checkpoint \in failedSyncs
       /\ checkpoint.attempt \in failedAttempts
  /\ attempt # None /\ attempt' # attempt =>
       /\ attempt' = None
       /\ checkpoint = None
       /\ attempt \in staleAttempts \/ Archived(attempt)

LEMMA StepArchives ==
  ASSUME OnboardingInv, [Next]_vars
  PROVE  EvidenceStep
  <1> USE DEF activeVars
  <1>1. CASE UNCHANGED activeVars
    BY <1>1 DEF EvidenceStep
  <1>2. ASSUME NEW c \in Client, Bind(c)
        PROVE  EvidenceStep
    <2>1. /\ client[c].attempt = attempt /\ checkpoint = None
          /\ attempt' = IF client[c].attempt = None THEN NewAttempt(c) ELSE client[c].attempt
      BY <1>2, CommandKnown DEF Bind, At, FilesOK, Working
    <2> QED
      BY <2>1 DEF EvidenceStep
  <1>3. ASSUME NEW c \in Client, RetainCheckpoint(c)
        PROVE  EvidenceStep
    BY <1>3 DEF RetainCheckpoint, EvidenceStep
  <1>4. ASSUME NEW c \in Client, UnlinkSync(c)
        PROVE  EvidenceStep
    <2>1. client[c].pc = "unlinkSync" /\ checkpoint' = None /\ attempt' = attempt
      BY <1>4 DEF UnlinkSync, At
    <2>2. /\ attempt \in failedAttempts
          /\ checkpoint # None => checkpoint \in failedSyncs /\ checkpoint.attempt = attempt
      BY <2>1, CommandKnown DEF ArchivesOK, InArchive, OnboardingInv, ActiveOK
    <2> QED
      BY <2>1, <2>2 DEF EvidenceStep
  <1>5. ASSUME NEW c \in Client, UnlinkAttempt(c)
        PROVE  EvidenceStep
    <2>1. client[c].pc = "unlinkAttempt" /\ attempt' = None /\ checkpoint' = checkpoint
      BY <1>5 DEF UnlinkAttempt, At
    <2>2. /\ checkpoint = None
          /\ attempt \in staleAttempts \/ InArchive(attempt, failedAttempts, failedSyncs)
      BY <2>1, CommandKnown DEF FilesOK, ArchivesOK, Retiring
    <2> QED
      BY <2>1, <2>2 DEF EvidenceStep, InArchive, Archived
  <1>6. ASSUME NEW c \in Client, Step(c)
        PROVE  EvidenceStep
    <2>1. CASE RefuseState(c) \/ RefuseBind(c) \/ RefusePush(c) \/ RefuseApply(c)
               \/ RefuseRecover(c) \/ Bootstrapped(c)
      BY <1>1, <2>1 DEF RefuseState, RefuseBind, RefusePush, RefuseApply, RefuseRecover,
                        Bootstrapped, End
    <2>2. CASE \/ Enter(c) \/ ResumePublication(c) \/ FinishFailed(c) \/ RetireStale(c)
               \/ Proceed(c) \/ Admit(c) \/ SavePending(c)
      BY <1>1, <2>2 DEF Enter, ResumePublication, FinishFailed, RetireStale, Proceed, GoOn,
                        Admit, SavePending
    <2>3. CASE \/ ApplyNothing(c) \/ PublishReceipt(c) \/ AdvanceMarker(c) \/ Consume(c)
               \/ Recover(c)
      BY <1>1, <2>3 DEF ApplyNothing, PublishReceipt, AdvanceMarker, Consume, Recover
    <2>4. CASE RetireFailed(c) \/ ArchiveSync(c) \/ Publish(c) \/ WriteOutput(c)
      BY <1>1, <2>4 DEF RetireFailed, ArchiveSync, Publish, WriteOutput
    <2> QED
      BY <1>2, <1>3, <1>4, <1>5, <1>6, <2>1, <2>2, <2>3, <2>4 DEF Step
  <1>7. CASE \/ \E c \in Client : Begin(c) \/ Crash(c)
             \/ \E l \in Label : Reconfigure(l)
             \/ \E r \in Record \ Written : Deliver(r)
             \/ Pull
    BY <1>1, <1>7 DEF Begin, Crash, Reconfigure, Deliver, Pull
  <1> QED
    BY <1>1, <1>6, <1>7 DEF Next, vars

(***************************************************************************)
(* An active attempt or checkpoint disappears only with its exact copy in  *)
(* an archive: "checkpoint first is deliberate".                           *)
(***************************************************************************)
THEOREM EvidenceStays == Spec => EvidenceArchived
  <1>1. OnboardingInv /\ [Next]_vars =>
          [/\ checkpoint # None /\ checkpoint' # checkpoint =>
                /\ checkpoint' = None
                /\ checkpoint \in failedSyncs
                /\ checkpoint.attempt \in failedAttempts
           /\ attempt # None /\ attempt' # attempt =>
                /\ attempt' = None
                /\ checkpoint = None
                /\ attempt \in staleAttempts \/ Archived(attempt)]_vars
    BY StepArchives DEF EvidenceStep
  <1> QED
    BY <1>1, OnboardingInvHolds, PTL DEF Spec, EvidenceArchived
=============================================================================
