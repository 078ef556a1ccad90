-------------------------- MODULE FairBatch_proofs --------------------------
(***************************************************************************)
(* Proofs about FairBatch, for any number of records, any sizes, any       *)
(* bounds on a request and any number of crashes.                          *)
(*                                                                         *)
(* The argument.  No two candidates have the same position, so the one in  *)
(* front fits alone in every request, whatever its size: the class that    *)
(* leads is served.  A receipt whose batch held no fresh record lets fresh *)
(* records lead the next push; one whose batch held no retry lets retries  *)
(* lead.  Only a crash that makes a second receipt report the same batch,  *)
(* where its fresh records now count as retries, can withhold that turn.   *)
(*                                                                         *)
(* For one record: a push that passes over it either moves the cursor of   *)
(* its class towards it, since the batch is a prefix of the order, or      *)
(* leaves its class the lead.  The second receipt of one batch moves the   *)
(* cursor of the retries anywhere, and no other cursor.                    *)
(***************************************************************************)
EXTENDS FairBatch, FiniteSetTheorems, WellFoundedInduction, TLAPS

-----------------------------------------------------------------------------
(***************************************************************************)
(* Least and greatest elements                                             *)
(***************************************************************************)

\* Min and Max are CHOOSEn: they exist for a set that is not empty.
LEMMA LeastExists ==
  ASSUME NEW S \in SUBSET Nat, S # {}
  PROVE  \E n \in S : \A m \in S : n <= m
PROOF
  <1> DEFINE Less == {pair \in Nat \X Nat : pair[1] < pair[2]}
  <1>1. IsWellFoundedOn(Less, Nat)
    BY NatLessThanWellFounded DEF OpToRel
  <1>2. \E n \in S : \A m \in S : ~ (<<m, n>> \in Less)
    <2> HIDE DEF Less
    <2> QED
      BY <1>1, WFMin
  <1>3. \A m, n \in S : m \in Nat /\ n \in Nat /\ (<<m, n>> \in Less <=> m < n)
    OBVIOUS
  <1>4. \A m, n \in S : <<m, n>> \notin Less => n <= m
    BY <1>3, SMT
  <1> QED
    BY <1>2, <1>4

LEMMA GreatestExists ==
  ASSUME NEW S \in SUBSET Path, S # {}
  PROVE  Max(S) \in S
PROOF
  <1> DEFINE Mirror == {N - r : r \in S}
  <1>1. N \in Nat /\ \A r \in S : r \in 1 .. N
    BY BatchAssumption DEF Path
  <1>2. \A r \in S : N - r \in Nat
    BY <1>1
  <1>3. Mirror \in SUBSET Nat /\ Mirror # {}
    BY <1>2
  <1>4. PICK n \in Mirror : \A m \in Mirror : n <= m
    <2> HIDE DEF Mirror
    <2> QED
      BY <1>3, LeastExists
  <1>5. PICK r \in S : n = N - r
    BY <1>4
  <1>6. \A q \in S : r >= q
    <2> SUFFICES ASSUME NEW q \in S
                 PROVE  r >= q
      OBVIOUS
    <2>1. N - r <= N - q
      BY <1>4, <1>5
    <2> QED
      BY <1>1, <2>1
  <1> QED
    BY <1>5, <1>6 DEF Max

LEMMA LesserOfTwo ==
  ASSUME NEW a \in Nat, NEW b \in Nat
  PROVE  Min({a, b}) \in Nat /\ Min({a, b}) <= a
PROOF
  <1>1. \E x \in {a, b} : \A y \in {a, b} : x <= y
    BY SMT
  <1>2. Min({a, b}) \in {a, b} /\ \A y \in {a, b} : Min({a, b}) <= y
    BY <1>1 DEF Min
  <1> QED
    BY <1>2

-----------------------------------------------------------------------------
(***************************************************************************)
(* The inductive invariant                                                 *)
(***************************************************************************)
Counted ==
  /\ pending.admitted \subseteq pending.tried /\ pending.tried \subseteq outbox
  /\ crashes \in Nat
  /\ skips.fresh \in Nat /\ skips.retry \in Nat

\* After one push without fresh records they lead the next; until that batch
\* is replayed, every record of it counts as attempted.
FreshTurn ==
  /\ skips.fresh <= 1
  /\ skips.fresh = 1 => IF pending.tried = {} THEN ~sched.retryFirst
                        ELSE pending.tried \subseteq sched.attempted

\* After as many pushes without retries as the crashes allow, retries lead
\* the next; until that batch is replayed, none of it counts as attempted.
RetryTurn ==
  /\ skips.retry <= crashes + 1
  /\ skips.retry = crashes + 1 =>
       IF pending.tried = {} THEN sched.retryFirst
       ELSE pending.tried \cap sched.attempted = {}

\* What the next pull makes of the schedule.
Turned == ReplayReceipt(sched, pending, hub)

BatchInv == TypeOK /\ Counted /\ FreshTurn /\ RetryTurn

-----------------------------------------------------------------------------
(***************************************************************************)
(* The batch                                                               *)
(***************************************************************************)

LEMMA Numbers ==
  ASSUME TypeOK
  PROVE  /\ N \in Nat
         /\ \A r \in Candidates : r \in 1 .. N
         /\ sched.freshCursor \in 0 .. N /\ sched.retryCursor \in 0 .. N
PROOF
  <1>1. N \in Nat
    BY BatchAssumption
  <1>2. \A r \in outbox : r \in 1 .. N
    BY DEF TypeOK, Path
  <1>3. \A r \in {0} \cup sched.attempted : r \in 0 .. N
    BY <1>1, <1>2 DEF TypeOK
  <1> QED
    BY <1>1, <1>2, <1>3 DEF TypeOK, Candidates

\* The position of every candidate, the class that leads in front.
LEMMA PositionBounds ==
  ASSUME TypeOK, NEW r \in Candidates
  PROVE  /\ Position(r) \in Nat
         /\ (r \in Retries <=> r \notin Fresh)
         /\ (r \in Retries /\ sched.retryFirst) \/ (r \in Fresh /\ ~sched.retryFirst)
              => Position(r) <= 2 * N
         /\ (r \in Retries /\ ~sched.retryFirst) \/ (r \in Fresh /\ sched.retryFirst)
              => Position(r) > 2 * N
PROOF
  <1>1. r \in 1 .. N /\ N \in Nat
    BY Numbers
  <1>2. sched.freshCursor \in 0 .. N /\ sched.retryCursor \in 0 .. N
    BY Numbers
  <1>3. \A c \in 0 .. N : Rotated(r, c) \in 1 .. 2 * N
    BY <1>1 DEF Rotated
  <1>4. r \in Retries <=> r \notin Fresh
    BY DEF Fresh, Retries
  <1>5. sched.retryFirst \in BOOLEAN
    BY DEF TypeOK
  <1>6. /\ Rotated(r, sched.freshCursor) \in 1 .. 2 * N
        /\ Rotated(r, sched.retryCursor) \in 1 .. 2 * N
    BY <1>2, <1>3
  <1> QED
    <2> HIDE DEF Rotated
    <2>1. CASE sched.retryFirst
      BY <1>1, <1>4, <1>6, <2>1 DEF Position
    <2>2. CASE ~sched.retryFirst
      BY <1>1, <1>4, <1>6, <2>2 DEF Position
    <2> QED
      BY <2>1, <2>2

\* No two candidates have the same position.
LEMMA PositionsDiffer ==
  ASSUME TypeOK, NEW r \in Candidates, NEW q \in Candidates, Position(r) = Position(q)
  PROVE  r = q
PROOF
  <1>1. r \in 1 .. N /\ q \in 1 .. N /\ N \in Nat
    BY Numbers
  <1>2. sched.freshCursor \in 0 .. N /\ sched.retryCursor \in 0 .. N
    BY Numbers
  <1>3. \A c \in 0 .. N : Rotated(r, c) = Rotated(q, c) => r = q
    BY <1>1 DEF Rotated
  <1>4. \A c \in 0 .. N : Rotated(r, c) \in Nat /\ Rotated(q, c) \in Nat
    BY <1>1 DEF Rotated
  <1>5. r \in Retries <=> q \in Retries
    <2>1. sched.retryFirst \in BOOLEAN /\ 2 * N \in Nat
      BY <1>1 DEF TypeOK
    <2>2. /\ Position(r) \in Nat
          /\ r \in Retries <=> r \notin Fresh
          /\ q \in Retries <=> q \notin Fresh
      BY PositionBounds
    <2>3. CASE sched.retryFirst
      <3>1. r \in Retries <=> Position(r) <= 2 * N
        BY <2>1, <2>2, <2>3, PositionBounds
      <3>2. q \in Retries <=> Position(q) <= 2 * N
        BY <2>1, <2>2, <2>3, PositionBounds
      <3> QED
        BY <3>1, <3>2
    <2>4. CASE ~sched.retryFirst
      <3>1. r \in Fresh <=> Position(r) <= 2 * N
        BY <2>1, <2>2, <2>4, PositionBounds
      <3>2. q \in Fresh <=> Position(q) <= 2 * N
        BY <2>1, <2>2, <2>4, PositionBounds
      <3> QED
        BY <2>2, <3>1, <3>2
    <2> QED
      BY <2>3, <2>4
  <1>6. CASE r \in Retries
    BY <1>1, <1>2, <1>3, <1>4, <1>5, <1>6 DEF Position
  <1>7. CASE r \notin Retries
    BY <1>1, <1>2, <1>3, <1>4, <1>5, <1>7 DEF Position
  <1> QED
    BY <1>6, <1>7

\* The candidate in front is in the batch.
LEMMA FrontServed ==
  ASSUME TypeOK, Candidates # {}
  PROVE  \E r \in Batch : \A q \in Candidates : Position(r) <= Position(q)
PROOF
  <1> DEFINE Taken == {Position(r) : r \in Candidates}
  <1>1. Taken \in SUBSET Nat /\ Taken # {}
    BY PositionBounds
  <1>2. PICK n \in Taken : \A m \in Taken : n <= m
    <2> HIDE DEF Taken
    <2> QED
      BY <1>1, LeastExists
  <1>3. PICK r \in Candidates : n = Position(r)
    BY <1>2
  <1>4. \A q \in Candidates : Position(r) <= Position(q)
    BY <1>2, <1>3
  <1>5. \A q \in Candidates : Position(q) \in Nat
    BY PositionBounds
  <1>6. UpTo(r) = {r}
    BY <1>3, <1>4, <1>5, PositionsDiffer DEF UpTo
  <1>7. Cardinality({r}) = 1
    BY FS_Singleton
  <1>8. Fits(UpTo(r))
    BY <1>6, <1>7, BatchAssumption DEF Fits
  <1>9. r \in Batch
    BY <1>3, <1>6, <1>8 DEF Batch
  <1> QED
    BY <1>4, <1>9

\* The class that leads is served.
LEMMA LeadServed ==
  ASSUME TypeOK
  PROVE  /\ Candidates # {} => Batch # {}
         /\ sched.retryFirst /\ Retries # {} => Batch \cap Retries # {}
         /\ ~sched.retryFirst /\ Fresh # {} => Batch \cap Fresh # {}
PROOF
  <1>1. Fresh \subseteq Candidates /\ Retries \subseteq Candidates /\ Batch \subseteq Candidates
    BY DEF Fresh, Retries, Batch
  <1>2. 2 * N \in Nat
    BY BatchAssumption
  <1>3. ASSUME Candidates # {}
        PROVE  \E r \in Batch : \A q \in Candidates : Position(r) <= Position(q)
    BY <1>3, FrontServed
  <1>4. ASSUME sched.retryFirst, Retries # {}
        PROVE  Batch \cap Retries # {}
    <2>1. PICK q \in Retries : TRUE
      BY <1>4
    <2>2. PICK r \in Batch : Position(r) <= Position(q)
      BY <1>1, <1>3, <2>1
    <2>3. q \in Candidates /\ r \in Candidates
      BY <1>1, <2>1, <2>2
    <2>4. Position(q) <= 2 * N /\ Position(q) \in Nat
      BY <1>4, <2>1, <2>3, PositionBounds
    <2>5. Position(r) \in Nat /\ (r \notin Retries => Position(r) > 2 * N)
      BY <1>4, <2>3, PositionBounds
    <2> QED
      BY <1>2, <2>2, <2>4, <2>5
  <1>5. ASSUME ~sched.retryFirst, Fresh # {}
        PROVE  Batch \cap Fresh # {}
    <2>1. PICK q \in Fresh : TRUE
      BY <1>5
    <2>2. PICK r \in Batch : Position(r) <= Position(q)
      BY <1>1, <1>3, <2>1
    <2>3. q \in Candidates /\ r \in Candidates
      BY <1>1, <2>1, <2>2
    <2>4. Position(q) <= 2 * N /\ Position(q) \in Nat
      BY <1>5, <2>1, <2>3, PositionBounds
    <2>5. Position(r) \in Nat /\ (r \notin Fresh => Position(r) > 2 * N)
      BY <1>5, <2>3, PositionBounds
    <2> QED
      BY <1>2, <2>2, <2>4, <2>5
  <1> QED
    BY <1>3, <1>4, <1>5

-----------------------------------------------------------------------------
(***************************************************************************)
(* One step                                                                *)
(***************************************************************************)

LEMMA InitBatch == Init => BatchInv
PROOF
  <1> SUFFICES ASSUME Init
               PROVE  BatchInv
    OBVIOUS
  <1>1. TypeOK
    BY DEF Init, TypeOK, Envelope, Empty
  <1>2. Counted /\ FreshTurn /\ RetryTurn
    BY BatchAssumption DEF Init, Counted, FreshTurn, RetryTurn, Empty
  <1> QED
    BY <1>1, <1>2 DEF BatchInv

\* How long a class has been passed over: one more, or served.
LEMMA PassedOverCounts ==
  ASSUME NEW class, NEW n \in Nat
  PROVE  /\ PassedOver(class, n) \in Nat /\ PassedOver(class, n) <= n + 1
         /\ PassedOver(class, n) # 0 => class # {} /\ Batch \cap class = {}
PROOF
  <1>1. MaxHistory \in Nat /\ n + 1 \in Nat
    BY BatchAssumption DEF MaxHistory
  <1>2. Min({n + 1, MaxHistory}) \in Nat /\ Min({n + 1, MaxHistory}) <= n + 1
    BY <1>1, LesserOfTwo
  <1> QED
    BY <1>1, <1>2 DEF PassedOver

LEMMA PushKeeps ==
  ASSUME BatchInv, Push
  PROVE  BatchInv'
PROOF
  <1>1. PICK admitted \in SUBSET Batch :
          /\ pending.tried = {}
          /\ hub' = hub \cup admitted
          /\ pending' = [tried |-> Batch, admitted |-> admitted]
          /\ skips' = [fresh |-> PassedOver(Fresh, skips.fresh),
                       retry |-> PassedOver(Retries, skips.retry)]
          /\ UNCHANGED <<outbox, sched, crashes>>
    BY DEF Push
  <1>2. Batch \subseteq Candidates /\ Candidates \subseteq outbox
        /\ Fresh \subseteq Candidates /\ Retries \subseteq Candidates
    BY DEF Batch, Candidates, Fresh, Retries
  <1>3. /\ Batch \cap Fresh = {} => Batch \subseteq sched.attempted
        /\ Batch \cap Retries = {} => Batch \cap sched.attempted = {}
    BY <1>2 DEF Fresh, Retries
  <1>4. TypeOK /\ Counted
    BY DEF BatchInv
  <1>5. /\ Candidates # {} => Batch # {}
        /\ sched.retryFirst /\ Retries # {} => Batch \cap Retries # {}
        /\ ~sched.retryFirst /\ Fresh # {} => Batch \cap Fresh # {}
    BY <1>4, LeadServed
  <1>6. /\ skips'.fresh \in Nat /\ skips'.fresh <= skips.fresh + 1
        /\ skips'.fresh # 0 => Fresh # {} /\ Batch \cap Fresh = {}
    BY <1>1, <1>4, PassedOverCounts DEF Counted
  <1>7. /\ skips'.retry \in Nat /\ skips'.retry <= skips.retry + 1
        /\ skips'.retry # 0 => Retries # {} /\ Batch \cap Retries = {}
    BY <1>1, <1>4, PassedOverCounts DEF Counted
  <1>8. TypeOK'
    BY <1>1, <1>2, <1>4 DEF TypeOK, Envelope
  <1>9. Counted'
    BY <1>1, <1>2, <1>4, <1>6, <1>7 DEF Counted
  <1>10. FreshTurn'
    <2>1. CASE skips'.fresh = 0
      BY <2>1 DEF FreshTurn
    <2>2. CASE skips'.fresh # 0
      <3>1. Fresh # {} /\ Batch \cap Fresh = {} /\ Batch # {}
        BY <1>2, <1>5, <1>6, <2>2
      <3>2. sched.retryFirst
        BY <1>5, <3>1
      <3>3. skips.fresh = 0
        BY <1>1, <1>4, <3>2 DEF BatchInv, FreshTurn, Counted
      <3> QED
        BY <1>1, <1>3, <1>6, <3>1, <3>3 DEF FreshTurn
    <2> QED
      BY <2>1, <2>2
  <1>11. RetryTurn'
    <2>1. CASE skips'.retry = 0
      BY <1>1, <1>4, <2>1 DEF RetryTurn, Counted
    <2>2. CASE skips'.retry # 0
      <3>1. Retries # {} /\ Batch \cap Retries = {} /\ Batch # {}
        BY <1>2, <1>5, <1>7, <2>2
      <3>2. ~sched.retryFirst
        BY <1>5, <3>1
      <3>3. skips.retry <= crashes
        BY <1>1, <1>4, <3>2 DEF BatchInv, RetryTurn, Counted
      <3> QED
        BY <1>1, <1>3, <1>4, <1>7, <3>1, <3>3 DEF RetryTurn, Counted
    <2> QED
      BY <2>1, <2>2
  <1> QED
    BY <1>8, <1>9, <1>10, <1>11 DEF BatchInv

\* Replaying the receipt keeps the types.
LEMMA TurnedKeeps ==
  ASSUME BatchInv
  PROVE  /\ Turned.known \subseteq outbox /\ Turned.attempted \subseteq outbox
         /\ {Turned.freshCursor, Turned.retryCursor} \subseteq {0} \cup Turned.attempted
         /\ Turned.retryFirst \in BOOLEAN
         /\ Turned.attempted = sched.attempted \cup pending.tried
         /\ Turned.retryFirst <=> IF pending.tried = {} THEN sched.retryFirst
                                  ELSE pending.tried \cap sched.attempted = {}
PROOF
  <1> DEFINE fresh == pending.tried \ sched.attempted
             retried == pending.tried \cap sched.attempted
  <1>1. Turned = [known |-> sched.known \cup hub \cup pending.admitted,
                  attempted |-> sched.attempted \cup pending.tried,
                  freshCursor |-> IF fresh = {} THEN sched.freshCursor ELSE Max(fresh),
                  retryCursor |-> IF retried = {} THEN sched.retryCursor ELSE Max(retried),
                  retryFirst |-> IF pending.tried = {} THEN sched.retryFirst
                                 ELSE retried = {}]
    BY DEF Turned, ReplayReceipt, AttemptedSoFar, RetryFirstNext
  <1>2. pending.tried \subseteq outbox /\ outbox \subseteq Path /\ hub \subseteq outbox
        /\ sched.known \subseteq outbox /\ sched.attempted \subseteq outbox
        /\ sched.retryFirst \in BOOLEAN
        /\ sched.freshCursor \in {0} \cup sched.attempted
        /\ sched.retryCursor \in {0} \cup sched.attempted
    BY DEF BatchInv, TypeOK, Counted
  <1>3. pending.admitted \subseteq pending.tried
    BY DEF BatchInv, Counted
  <1>4. /\ fresh # {} => Max(fresh) \in fresh
        /\ retried # {} => Max(retried) \in retried
    <2>1. fresh \in SUBSET Path /\ retried \in SUBSET Path
      BY <1>2
    <2> HIDE DEF fresh, retried
    <2> QED
      BY <2>1, GreatestExists
  <1>5. Turned.freshCursor \in {0} \cup Turned.attempted
    BY <1>1, <1>2, <1>4
  <1>6. Turned.retryCursor \in {0} \cup Turned.attempted
    BY <1>1, <1>2, <1>4
  <1>7. Turned.retryFirst = IF pending.tried = {} THEN sched.retryFirst ELSE retried = {}
    BY <1>1
  <1>8. Turned.attempted = sched.attempted \cup pending.tried
    BY <1>1
  <1>9. Turned.known \subseteq outbox /\ Turned.attempted \subseteq outbox
    BY <1>1, <1>2, <1>3
  <1>10. CASE pending.tried = {}
    BY <1>2, <1>5, <1>6, <1>7, <1>8, <1>9, <1>10
  <1>11. CASE pending.tried # {}
    BY <1>2, <1>5, <1>6, <1>7, <1>8, <1>9, <1>11
  <1> QED
    BY <1>10, <1>11

LEMMA ReceiveKeeps ==
  ASSUME BatchInv, Receive
  PROVE  /\ sched'.known \subseteq outbox /\ sched'.attempted \subseteq outbox
         /\ {sched'.freshCursor, sched'.retryCursor} \subseteq {0} \cup sched'.attempted
         /\ sched'.retryFirst \in BOOLEAN
         /\ sched'.attempted = sched.attempted \cup pending.tried
         /\ pending.tried = {} => (sched'.retryFirst <=> sched.retryFirst)
         /\ pending.tried # {} =>
              (sched'.retryFirst <=> pending.tried \cap sched.attempted = {})
PROOF
  <1>1. sched' = Turned
    BY DEF Receive, Turned
  <1>2. CASE pending.tried = {}
    BY <1>1, <1>2, TurnedKeeps
  <1>3. CASE pending.tried # {}
    BY <1>1, <1>3, TurnedKeeps
  <1> QED
    BY <1>2, <1>3

LEMMA ReceiveTurns ==
  ASSUME BatchInv, Receive, UNCHANGED skips
  PROVE  /\ skips.fresh = 1 => IF pending.tried = {} THEN ~sched'.retryFirst
                               ELSE /\ pending.tried \subseteq sched'.attempted
                                    /\ ~sched'.retryFirst
         /\ skips.retry = crashes + 1 => sched'.retryFirst
PROOF
  <1>1. /\ sched'.attempted = sched.attempted \cup pending.tried
        /\ pending.tried = {} => (sched'.retryFirst <=> sched.retryFirst)
        /\ pending.tried # {} =>
             (sched'.retryFirst <=> pending.tried \cap sched.attempted = {})
    BY ReceiveKeeps
  <1>2. FreshTurn /\ RetryTurn
    BY DEF BatchInv
  <1>3. pending.tried # {} /\ pending.tried \subseteq sched.attempted
          => pending.tried \cap sched.attempted # {}
    OBVIOUS
  <1> QED
    BY <1>1, <1>2, <1>3 DEF FreshTurn, RetryTurn

LEMMA PullKeeps ==
  ASSUME BatchInv, Pull
  PROVE  BatchInv'
PROOF
  <1>1. Receive /\ pending' = Empty /\ UNCHANGED <<outbox, hub, waited, skips, crashes>>
    BY DEF Pull
  <1>2. TypeOK'
    BY <1>1, ReceiveKeeps DEF BatchInv, TypeOK, Envelope, Empty
  <1>3. Counted'
    BY <1>1 DEF BatchInv, Counted, Empty
  <1>4. FreshTurn' /\ RetryTurn'
    BY <1>1, ReceiveTurns DEF BatchInv, FreshTurn, RetryTurn, Empty
  <1> QED
    BY <1>2, <1>3, <1>4 DEF BatchInv

LEMMA CrashedPullKeeps ==
  ASSUME BatchInv, CrashedPull
  PROVE  BatchInv'
PROOF
  <1>1. Receive /\ crashes' = crashes + 1 /\ UNCHANGED <<outbox, hub, pending, waited, skips>>
    BY DEF CrashedPull
  <1>2. TypeOK'
    BY <1>1, ReceiveKeeps DEF BatchInv, TypeOK
  <1>3. Counted'
    BY <1>1 DEF BatchInv, Counted
  <1>4. FreshTurn'
    BY <1>1, ReceiveTurns DEF BatchInv, FreshTurn
  <1>5. RetryTurn'
    BY <1>1 DEF BatchInv, RetryTurn, Counted
  <1> QED
    BY <1>2, <1>3, <1>4, <1>5 DEF BatchInv

LEMMA NextBatch == BatchInv /\ [Next]_vars => BatchInv'
PROOF
  <1> SUFFICES ASSUME BatchInv, [Next]_vars
               PROVE  BatchInv'
    OBVIOUS
  <1>1. ASSUME NEW r \in Path \ outbox, Append(r)
        PROVE  BatchInv'
    BY <1>1 DEF Append, BatchInv, TypeOK, Counted, FreshTurn, RetryTurn
  <1>2. CASE Push
    BY <1>2, PushKeeps
  <1>3. CASE CrashedPush
    <2>1. PICK admitted \in SUBSET Batch :
            hub' = hub \cup admitted /\ crashes' = crashes + 1
            /\ UNCHANGED <<outbox, sched, pending, waited, skips>>
      BY <1>3 DEF CrashedPush
    <2>2. Batch \subseteq outbox
      BY DEF Batch, Candidates
    <2> QED
      BY <2>1, <2>2 DEF BatchInv, TypeOK, Counted, FreshTurn, RetryTurn
  <1>4. CASE Pull
    BY <1>4, PullKeeps
  <1>5. CASE CrashedPull
    BY <1>5, CrashedPullKeeps
  <1>6. CASE UNCHANGED vars
    BY <1>6 DEF vars, BatchInv, TypeOK, Counted, FreshTurn, RetryTurn
  <1> QED
    BY <1>1, <1>2, <1>3, <1>4, <1>5, <1>6 DEF Next

THEOREM BatchInvHolds == Spec => []BatchInv
PROOF
  BY InitBatch, NextBatch, PTL DEF Spec

\* A cursor names a record already attempted and the hub stores nothing the
\* vault does not: every variable of _push_bound's schedule keeps its type.
THEOREM TypeCorrect == Spec => []TypeOK
PROOF
  <1>1. BatchInv => TypeOK
    BY DEF BatchInv
  <1> QED
    BY <1>1, BatchInvHolds, PTL

\* Neither sustained fresh ingestion nor terminal retries starve the other
\* class in _push_bound, whatever the number and the sizes of the records.
THEOREM ClassesServed == Spec => []NoClassStarved
PROOF
  <1>1. BatchInv => NoClassStarved
    BY DEF BatchInv, Counted, FreshTurn, RetryTurn, NoClassStarved
  <1> QED
    BY <1>1, BatchInvHolds, PTL

-----------------------------------------------------------------------------
(***************************************************************************)
(* How long one record is passed over                                      *)
(*                                                                         *)
(* A push either moves the cursor of the record's class towards it or      *)
(* leaves the lead to that class: twice the way the cursor has gone, and   *)
(* one more if the class leads, bounds the pushes that passed over it.     *)
(***************************************************************************)
Distance(r, cursor) == Rotated(r, cursor) - cursor

Cursor(r) ==
  IF r \in sched.attempted THEN Turned.retryCursor ELSE Turned.freshCursor

Leads(r) == Turned.retryFirst <=> r \in sched.attempted

Allowance(r) == IF r \in sched.attempted THEN Round * crashes ELSE 0

Within(r) ==
  waited[r] <= 2 * (N - Distance(r, Cursor(r))) + (IF Leads(r) THEN 1 ELSE 0)
               + Allowance(r)

TurnsCome ==
  /\ waited \in [Path -> Nat]
  /\ \A r \in pending.tried : waited[r] = 0
  /\ \A r \in Path \ outbox : waited[r] = 0
  /\ \A r \in Candidates : waited[r] # 0 => Within(r)

\* A record that is no candidate keeps its count until the next push.
OthersBounded ==
  \A r \in Path \ Candidates :
    waited[r] <= Round * (IF r \in sched.attempted THEN 1 + crashes ELSE 1)

BypassInv == BatchInv /\ TurnsCome /\ OthersBounded

-----------------------------------------------------------------------------
LEMMA OneMoreRound ==
  ASSUME NEW k \in Nat, NEW c \in Nat
  PROVE  k * c \in Nat /\ k * (c + 1) = k * c + k /\ k * (1 + c) = k * c + k
PROOF
  OBVIOUS

LEMMA Rounds ==
  ASSUME NEW r \in Path
  PROVE  /\ N \in Nat \ {0} /\ r \in 1 .. N
         /\ Round \in Nat /\ Round = 2 * (N - 1) + 1
PROOF
  BY BatchAssumption DEF Path, Round

LEMMA DistanceRange ==
  ASSUME N \in Nat, NEW r \in 1 .. N, NEW c \in 0 .. N
  PROVE  Distance(r, c) \in 1 .. N
PROOF
  BY DEF Distance, Rotated

\* A cursor that moves to a record ahead of r comes nearer to r.
LEMMA CursorNears ==
  ASSUME N \in Nat, NEW r \in 1 .. N, NEW q \in 1 .. N, NEW c \in 0 .. N,
         Rotated(q, c) < Rotated(r, c)
  PROVE  Distance(r, q) <= Distance(r, c) - 1
PROOF
  BY DEF Distance, Rotated

\* What the batch leaves out comes after all it holds.
LEMMA BatchLeads ==
  ASSUME TypeOK, NEW r \in Candidates, r \notin Batch, NEW q \in Batch
  PROVE  Position(q) < Position(r)
PROOF
  <1>1. q \in Candidates
    BY DEF Batch
  <1>2. /\ Position(r) \in Nat /\ Position(q) \in Nat
        /\ \A p \in Candidates : Position(p) \in Nat
    BY <1>1, PositionBounds
  <1>3. ASSUME Position(r) <= Position(q)
        PROVE  FALSE
    <2>1. UpTo(r) \subseteq UpTo(q)
      BY <1>2, <1>3 DEF UpTo
    <2> QED
      BY <2>1 DEF Batch
  <1> QED
    BY <1>2, <1>3

LEMMA ClassInOrder ==
  ASSUME TypeOK, NEW r \in Candidates, NEW q \in Candidates, Position(q) < Position(r)
  PROVE  /\ r \in Retries /\ q \in Retries =>
              Rotated(q, sched.retryCursor) < Rotated(r, sched.retryCursor)
         /\ r \in Fresh /\ q \in Fresh =>
              Rotated(q, sched.freshCursor) < Rotated(r, sched.freshCursor)
PROOF
  <1>1. r \in 1 .. N /\ q \in 1 .. N /\ N \in Nat
    BY Numbers
  <1>2. sched.freshCursor \in 0 .. N /\ sched.retryCursor \in 0 .. N
    BY Numbers
  <1>3. \A c \in 0 .. N : Rotated(r, c) \in Nat /\ Rotated(q, c) \in Nat
    BY <1>1 DEF Rotated
  <1>4. ASSUME r \in Retries, q \in Retries
        PROVE  Rotated(q, sched.retryCursor) < Rotated(r, sched.retryCursor)
    BY <1>1, <1>2, <1>3, <1>4 DEF Position
  <1>5. ASSUME r \in Fresh, q \in Fresh
        PROVE  Rotated(q, sched.freshCursor) < Rotated(r, sched.freshCursor)
    <2>1. r \notin Retries /\ q \notin Retries
      BY <1>5 DEF Fresh, Retries
    <2> QED
      BY <1>1, <1>2, <1>3, <2>1 DEF Position
  <1> QED
    BY <1>4, <1>5

\* A class that is served, but not r of it: its cursor comes nearer to r.
LEMMA ServedNears ==
  ASSUME TypeOK, NEW r \in Candidates, r \notin Batch
  PROVE  /\ r \in Retries /\ Batch \cap Retries # {} =>
              Distance(r, Max(Batch \cap Retries)) <= Distance(r, sched.retryCursor) - 1
         /\ r \in Fresh /\ Batch \cap Fresh # {} =>
              Distance(r, Max(Batch \cap Fresh)) <= Distance(r, sched.freshCursor) - 1
PROOF
  <1>1. \A q \in Candidates : q \in 1 .. N
    BY Numbers
  <1>2. N \in Nat /\ sched.freshCursor \in 0 .. N /\ sched.retryCursor \in 0 .. N
    BY Numbers
  <1>3. Batch \subseteq Candidates /\ Candidates \subseteq Path
    BY DEF Batch, Candidates, TypeOK
  <1>4. \A class \in SUBSET Candidates :
          Batch \cap class # {} => Max(Batch \cap class) \in Batch \cap class
    BY <1>3, GreatestExists
  <1>5. Fresh \in SUBSET Candidates /\ Retries \in SUBSET Candidates
    BY DEF Fresh, Retries
  <1>6. ASSUME r \in Retries, Batch \cap Retries # {}
        PROVE  Distance(r, Max(Batch \cap Retries)) <= Distance(r, sched.retryCursor) - 1
    <2>1. PICK q \in Batch \cap Retries : q = Max(Batch \cap Retries)
      BY <1>4, <1>5, <1>6
    <2>2. q \in Candidates /\ Position(q) < Position(r)
      BY <1>3, <2>1, BatchLeads
    <2>3. Rotated(q, sched.retryCursor) < Rotated(r, sched.retryCursor)
      BY <1>6, <2>1, <2>2, ClassInOrder
    <2>4. Distance(r, q) <= Distance(r, sched.retryCursor) - 1
      BY <1>1, <1>2, <2>2, <2>3, CursorNears
    <2> QED
      BY <2>1, <2>4
  <1>7. ASSUME r \in Fresh, Batch \cap Fresh # {}
        PROVE  Distance(r, Max(Batch \cap Fresh)) <= Distance(r, sched.freshCursor) - 1
    <2>1. PICK q \in Batch \cap Fresh : q = Max(Batch \cap Fresh)
      BY <1>4, <1>5, <1>7
    <2>2. q \in Candidates /\ Position(q) < Position(r)
      BY <1>3, <2>1, BatchLeads
    <2>3. Rotated(q, sched.freshCursor) < Rotated(r, sched.freshCursor)
      BY <1>7, <2>1, <2>2, ClassInOrder
    <2>4. Distance(r, q) <= Distance(r, sched.freshCursor) - 1
      BY <1>1, <1>2, <2>2, <2>3, CursorNears
    <2> QED
      BY <2>1, <2>4
  <1> QED
    BY <1>6, <1>7

LEMMA CursorRange ==
  ASSUME BatchInv, NEW r
  PROVE  Cursor(r) \in 0 .. N
PROOF
  <1>1. \A c \in {0} \cup outbox : c \in 0 .. N
    BY BatchAssumption DEF BatchInv, TypeOK, Path
  <1>2. Turned.attempted \subseteq outbox
    BY TurnedKeeps
  <1>3. Turned.freshCursor \in {0} \cup Turned.attempted
        /\ Turned.retryCursor \in {0} \cup Turned.attempted
    BY TurnedKeeps
  <1> QED
    BY <1>1, <1>2, <1>3 DEF Cursor

\* What is within its turns has not been passed over beyond the bound.
LEMMA WithinBounds ==
  ASSUME BatchInv, NEW r \in Candidates, waited[r] \in Nat, Within(r)
  PROVE  waited[r] <= Round * (IF r \in sched.attempted THEN 1 + crashes ELSE 1)
PROOF
  <1>1. r \in Path /\ TypeOK /\ crashes \in Nat
    BY DEF Candidates, BatchInv, TypeOK, Counted
  <1>2. N \in Nat \ {0} /\ r \in 1 .. N /\ Round \in Nat /\ Round = 2 * (N - 1) + 1
    BY <1>1, Rounds
  <1>3. Cursor(r) \in 0 .. N
    BY CursorRange
  <1>4. Distance(r, Cursor(r)) \in 1 .. N
    BY <1>2, <1>3, DistanceRange
  <1>5. Round * crashes \in Nat /\ Round * (1 + crashes) = Round * crashes + Round
        /\ Round * 1 = Round
    BY <1>1, <1>2, OneMoreRound
  <1> DEFINE d == Distance(r, Cursor(r))
             extra == Round * crashes
  <1>6. 2 * (N - d) + 1 <= Round
    BY <1>2, <1>4
  <1> HIDE DEF d, extra
  <1>7. CASE r \in sched.attempted
    <2>1. waited[r] <= 2 * (N - d) + 1 + extra
      BY <1>2, <1>4, <1>5, <1>7 DEF Within, Allowance, d, extra
    <2> QED
      BY <1>2, <1>4, <1>5, <1>6, <1>7, <2>1 DEF d, extra
  <1>8. CASE r \notin sched.attempted
    <2>1. waited[r] <= 2 * (N - d) + 1
      BY <1>2, <1>4, <1>8 DEF Within, Allowance, d
    <2> QED
      BY <1>2, <1>4, <1>5, <1>6, <1>8, <2>1 DEF d
  <1> QED
    BY <1>7, <1>8

\* A record that was not passed over is within its turns.
LEMMA ServedWithin ==
  ASSUME BatchInv, NEW r \in Candidates, waited[r] = 0
  PROVE  Within(r)
PROOF
  <1>1. r \in Path /\ TypeOK /\ crashes \in Nat
    BY DEF Candidates, BatchInv, TypeOK, Counted
  <1>2. N \in Nat \ {0} /\ r \in 1 .. N /\ Round \in Nat
    BY <1>1, Rounds
  <1>3. Cursor(r) \in 0 .. N
    BY CursorRange
  <1>4. Distance(r, Cursor(r)) \in 1 .. N
    BY <1>2, <1>3, DistanceRange
  <1>5. Allowance(r) \in Nat
    BY <1>1, <1>2, OneMoreRound DEF Allowance
  <1> QED
    BY <1>2, <1>4, <1>5 DEF Within

LEMMA TurnsBound ==
  ASSUME BypassInv
  PROVE  BoundedBypass
PROOF
  <1> SUFFICES ASSUME NEW r \in Candidates
               PROVE  waited[r] <= Round * (IF r \in sched.attempted THEN 1 + crashes
                                            ELSE 1)
    BY DEF BypassInv, OthersBounded, BoundedBypass
  <1>1. BatchInv /\ r \in Path /\ waited[r] \in Nat
    BY DEF BypassInv, Candidates, BatchInv, TypeOK, TurnsCome
  <1>2. Within(r)
    BY <1>1, ServedWithin DEF BypassInv, TurnsCome
  <1> QED
    BY <1>1, <1>2, WithinBounds

-----------------------------------------------------------------------------
\* The cursors a batch leaves for the replay of its receipt.
LEMMA PushTurned ==
  ASSUME BatchInv, Push
  PROVE  /\ Turned.freshCursor = sched.freshCursor
         /\ Turned.retryCursor = sched.retryCursor
         /\ Turned.retryFirst = sched.retryFirst
         /\ Turned'.freshCursor = IF Batch \cap Fresh = {} THEN sched.freshCursor
                                  ELSE Max(Batch \cap Fresh)
         /\ Turned'.retryCursor = IF Batch \cap Retries = {} THEN sched.retryCursor
                                  ELSE Max(Batch \cap Retries)
         /\ Batch # {} => (Turned'.retryFirst <=> Batch \cap Retries = {})
PROOF
  <1>1. pending.tried = {} /\ pending'.tried = Batch /\ sched' = sched
    BY DEF Push
  <1>2. {} \ sched.attempted = {} /\ {} \cap sched.attempted = {}
    OBVIOUS
  <1>3. /\ Turned.freshCursor = sched.freshCursor
        /\ Turned.retryCursor = sched.retryCursor
        /\ Turned.retryFirst = sched.retryFirst
    BY <1>1, <1>2 DEF Turned, ReplayReceipt
  <1>4. Batch \ sched.attempted = Batch \cap Fresh
        /\ Batch \cap sched.attempted = Batch \cap Retries
    BY DEF Batch, Fresh, Retries
  <1>5. /\ Turned'.freshCursor = IF Batch \ sched.attempted = {} THEN sched.freshCursor
                                 ELSE Max(Batch \ sched.attempted)
        /\ Turned'.retryCursor = IF Batch \cap sched.attempted = {} THEN sched.retryCursor
                                 ELSE Max(Batch \cap sched.attempted)
        /\ Batch # {} => Turned'.retryFirst = (Batch \cap sched.attempted = {})
    BY <1>1 DEF Turned, ReplayReceipt, RetryFirstNext
  <1> QED
    BY <1>3, <1>4, <1>5

\* A push that passes over r takes r's class a step on, or leaves it the lead.
LEMMA PushTurns ==
  ASSUME BypassInv, Push, NEW r \in Candidates, r \notin Batch,
         waited'[r] \in Nat, waited'[r] <= waited[r] + 1
  PROVE  Within(r)'
PROOF
  <1>1. /\ TypeOK /\ BatchInv /\ r \in Path /\ waited[r] \in Nat /\ crashes \in Nat
    BY DEF BypassInv, TurnsCome, BatchInv, TypeOK, Candidates, Counted, Push
  <1>2. sched' = sched /\ crashes' = crashes
    BY DEF Push
  <1>3. N \in Nat \ {0} /\ r \in 1 .. N /\ Round \in Nat
    BY <1>1, Rounds
  <1>4. sched.freshCursor \in 0 .. N /\ sched.retryCursor \in 0 .. N
    BY <1>1, Numbers
  <1>5. Cursor(r) \in 0 .. N /\ Cursor(r)' \in 0 .. N
    <2>1. Batch \subseteq Path
      BY <1>1 DEF Batch, Candidates, TypeOK
    <2>2. \A class : Batch \cap class # {} => Max(Batch \cap class) \in Path
      BY <2>1, GreatestExists
    <2>3. \A c \in Path : c \in 0 .. N
      BY <1>3 DEF Path
    <2>4. Turned'.freshCursor \in 0 .. N /\ Turned'.retryCursor \in 0 .. N
      BY <1>1, <1>4, <2>2, <2>3, PushTurned
    <2> QED
      BY <1>1, <2>4, CursorRange DEF Cursor
  <1> DEFINE d == Distance(r, Cursor(r))
             e == Distance(r, Cursor(r)')
  <1>6. d \in 1 .. N /\ e \in 1 .. N
    BY <1>3, <1>5, DistanceRange
  <1>7. Allowance(r)' = Allowance(r) /\ Allowance(r) \in Nat
    BY <1>1, <1>2, <1>3, OneMoreRound DEF Allowance
  <1>8. Batch # {} /\ sched.retryFirst \in BOOLEAN
        /\ (sched.retryFirst /\ Retries # {} => Batch \cap Retries # {})
        /\ (~sched.retryFirst /\ Fresh # {} => Batch \cap Fresh # {})
    BY <1>1, LeadServed DEF TypeOK
  <1>9. e <= d - 1 \/ (e = d /\ ~Leads(r) /\ Leads(r)')
    <2>1. CASE r \in sched.attempted
      <3>1. r \in Retries
        BY <2>1 DEF Retries
      <3>2. CASE Batch \cap Retries = {}
        <4>1. Cursor(r) = sched.retryCursor /\ Cursor(r)' = sched.retryCursor
          BY <1>1, <1>2, <2>1, <3>2, PushTurned DEF Cursor
        <4>2. ~Leads(r) /\ Leads(r)'
          BY <1>1, <1>2, <1>8, <2>1, <3>1, <3>2, PushTurned DEF Leads
        <4> QED
          BY <4>1, <4>2
      <3>3. CASE Batch \cap Retries # {}
        <4>1. Cursor(r) = sched.retryCursor /\ Cursor(r)' = Max(Batch \cap Retries)
          BY <1>1, <1>2, <2>1, <3>3, PushTurned DEF Cursor
        <4> QED
          BY <1>1, <3>1, <3>3, <4>1, ServedNears
      <3> QED
        BY <3>2, <3>3
    <2>2. CASE r \notin sched.attempted
      <3>1. r \in Fresh
        BY <2>2 DEF Fresh
      <3>2. CASE Batch \cap Fresh = {}
        <4>1. Cursor(r) = sched.freshCursor /\ Cursor(r)' = sched.freshCursor
          BY <1>1, <1>2, <2>2, <3>2, PushTurned DEF Cursor
        <4>2. Batch \cap Retries # {}
          BY <1>8, <3>2 DEF Batch, Fresh, Retries
        <4>3. ~Leads(r) /\ Leads(r)'
          BY <1>1, <1>2, <1>8, <2>2, <3>1, <3>2, <4>2, PushTurned DEF Leads
        <4> QED
          BY <4>1, <4>3
      <3>3. CASE Batch \cap Fresh # {}
        <4>1. Cursor(r) = sched.freshCursor /\ Cursor(r)' = Max(Batch \cap Fresh)
          BY <1>1, <1>2, <2>2, <3>3, PushTurned DEF Cursor
        <4> QED
          BY <1>1, <3>1, <3>3, <4>1, ServedNears
      <3> QED
        BY <3>2, <3>3
    <2> QED
      BY <2>1, <2>2
  <1>10. waited[r] <= 2 * (N - d) + (IF Leads(r) THEN 1 ELSE 0) + Allowance(r)
    <2>1. Within(r)
      BY <1>1, ServedWithin DEF BypassInv, TurnsCome
    <2> QED
      BY <2>1 DEF Within
  <1>11. waited'[r] <= 2 * (N - e) + (IF Leads(r)' THEN 1 ELSE 0) + Allowance(r)
    <2> HIDE DEF d, e
    <2>1. CASE e <= d - 1
      BY <1>1, <1>3, <1>6, <1>7, <1>10, <2>1
    <2>2. CASE e = d /\ ~Leads(r) /\ Leads(r)'
      BY <1>1, <1>3, <1>6, <1>7, <1>10, <2>2
    <2> QED
      BY <1>9, <2>1, <2>2
  <1>12. Within(r)' <=>
           waited'[r] <= 2 * (N - e) + (IF Leads(r)' THEN 1 ELSE 0) + Allowance(r)'
    BY DEF Within, Distance, Rotated
  <1> QED
    BY <1>7, <1>11, <1>12

LEMMA PushBypass ==
  ASSUME BypassInv, Push
  PROVE  TurnsCome' /\ OthersBounded'
PROOF
  <1>1. /\ UNCHANGED <<outbox, sched, crashes>> /\ pending.tried = {} /\ pending'.tried = Batch
        /\ waited' = [r \in Path |-> PassedOver(Candidates \cap {r}, waited[r])]
    BY DEF Push
  <1>2. Batch \subseteq Candidates /\ Candidates \subseteq outbox /\ outbox \subseteq Path
        /\ Candidates' = Candidates /\ crashes \in Nat
    BY <1>1 DEF Batch, Candidates, BypassInv, BatchInv, TypeOK, Counted
  <1>3. ASSUME NEW r \in Path
        PROVE  /\ waited'[r] \in Nat /\ waited'[r] <= waited[r] + 1
               /\ waited'[r] # 0 => r \in Candidates \ Batch
    <2>1. waited[r] \in Nat
      BY DEF BypassInv, TurnsCome
    <2>2. waited'[r] = PassedOver(Candidates \cap {r}, waited[r])
      BY <1>1
    <2>3. waited'[r] # 0 => Candidates \cap {r} # {} /\ Batch \cap (Candidates \cap {r}) = {}
      BY <2>1, <2>2, PassedOverCounts
    <2> QED
      BY <2>1, <2>2, <2>3, PassedOverCounts
  <1>4. waited' \in [Path -> Nat]
    BY <1>1, <1>3
  <1>5. \A r \in pending'.tried : waited'[r] = 0
    BY <1>1, <1>2, <1>3
  <1>6. \A r \in Path \ outbox' : waited'[r] = 0
    BY <1>1, <1>2, <1>3
  <1>7. \A r \in Candidates' : waited'[r] # 0 => Within(r)'
    BY <1>2, <1>3, PushTurns
  <1>8. OthersBounded'
    <2> SUFFICES ASSUME NEW r \in Path \ Candidates
                 PROVE  waited'[r] <= Round * (IF r \in sched'.attempted THEN 1 + crashes'
                                               ELSE 1)
      BY <1>2 DEF OthersBounded
    <2>1. waited'[r] = 0
      BY <1>3
    <2>2. Round \in Nat /\ Round * (1 + crashes) \in Nat /\ Round * 1 \in Nat
      BY <1>2, Rounds, OneMoreRound
    <2> QED
      BY <1>1, <2>1, <2>2
  <1> QED
    BY <1>4, <1>5, <1>6, <1>7, <1>8 DEF TurnsCome

\* A step that passes over no record: the allowances only grow.
LEMMA OthersStay ==
  ASSUME BypassInv, waited' = waited, sched.attempted \subseteq sched'.attempted,
         crashes' = crashes \/ crashes' = crashes + 1
  PROVE  OthersBounded'
PROOF
  <1> SUFFICES ASSUME NEW r \in Path
               PROVE  waited[r] <= Round * (IF r \in sched'.attempted THEN 1 + crashes'
                                            ELSE 1)
    BY DEF OthersBounded
  <1>1. waited[r] <= Round * (IF r \in sched.attempted THEN 1 + crashes ELSE 1)
    BY TurnsBound DEF BoundedBypass
  <1>2. waited[r] \in Nat /\ crashes \in Nat /\ Round \in Nat
    BY Rounds DEF BypassInv, TurnsCome, BatchInv, Counted
  <1>3. /\ Round * crashes \in Nat /\ Round * 1 = Round
        /\ Round * (1 + crashes) = Round * crashes + Round
        /\ Round * (1 + (crashes + 1)) = Round * crashes + Round + Round
    <2>1. crashes + 1 \in Nat /\ Round * (crashes + 1) = Round * crashes + Round
      BY <1>2, OneMoreRound
    <2>2. Round * (1 + (crashes + 1)) = Round * (crashes + 1) + Round
      BY <1>2, <2>1, OneMoreRound
    <2> QED
      BY <1>2, <2>1, <2>2, OneMoreRound
  <1>4. CASE crashes' = crashes
    BY <1>1, <1>2, <1>3, <1>4
  <1>5. CASE crashes' = crashes + 1
    BY <1>1, <1>2, <1>3, <1>5
  <1> QED
    BY <1>4, <1>5

\* A step that leaves r's turn alone, or spends a crash on it.
LEMMA WithinStays ==
  ASSUME BypassInv, NEW r \in Candidates, waited' = waited, waited[r] # 0,
         r \in sched.attempted <=> r \in sched'.attempted,
         \/ /\ crashes' \in {crashes, crashes + 1}
            /\ Cursor(r)' = Cursor(r) /\ (Leads(r) => Leads(r)')
         \/ /\ crashes' = crashes + 1 /\ r \in sched.attempted
            /\ Cursor(r)' \in 0 .. N
  PROVE  Within(r)'
PROOF
  <1>1. Within(r) /\ waited[r] \in Nat /\ crashes \in Nat /\ r \in Path /\ BatchInv
    BY DEF BypassInv, TurnsCome, BatchInv, TypeOK, Candidates, Counted
  <1>2. N \in Nat \ {0} /\ r \in 1 .. N /\ Round \in Nat /\ Round = 2 * (N - 1) + 1
    BY <1>1, Rounds
  <1>3. Cursor(r) \in 0 .. N /\ Cursor(r)' \in 0 .. N
    BY <1>1, CursorRange
  <1> DEFINE d == Distance(r, Cursor(r))
             e == Distance(r, Cursor(r)')
  <1>4. d \in 1 .. N /\ e \in 1 .. N
    BY <1>2, <1>3, DistanceRange
  <1>5. Round * crashes \in Nat /\ Round * (crashes + 1) = Round * crashes + Round
    BY <1>1, <1>2, OneMoreRound
  <1>6. Allowance(r) \in Nat /\ Allowance(r)' \in Nat
        /\ Allowance(r) <= Allowance(r)'
        /\ (crashes' = crashes + 1 /\ r \in sched.attempted
              => Allowance(r)' = Allowance(r) + Round)
    <2>1. CASE crashes' = crashes
      BY <1>1, <1>2, <1>5, <2>1 DEF Allowance
    <2>2. CASE crashes' = crashes + 1
      BY <1>1, <1>2, <1>5, <2>2 DEF Allowance
    <2> QED
      BY <2>1, <2>2
  <1>7. waited[r] <= 2 * (N - d) + (IF Leads(r) THEN 1 ELSE 0) + Allowance(r)
    BY <1>1 DEF Within
  <1>8. waited[r] <= 2 * (N - e) + (IF Leads(r)' THEN 1 ELSE 0) + Allowance(r)'
    <2>1. CASE Cursor(r)' = Cursor(r) /\ (Leads(r) => Leads(r)')
      <3>1. e = d
        BY <2>1
      <3> HIDE DEF d, e
      <3> QED
        BY <1>1, <1>2, <1>4, <1>6, <1>7, <2>1, <3>1
    <2>2. CASE crashes' = crashes + 1 /\ r \in sched.attempted
      <3> HIDE DEF d, e
      <3> QED
        BY <1>1, <1>2, <1>4, <1>6, <1>7, <2>2
    <2> QED
      BY <2>1, <2>2
  <1>9. Within(r)' <=>
          waited'[r] <= 2 * (N - e) + (IF Leads(r)' THEN 1 ELSE 0) + Allowance(r)'
    BY DEF Within, Distance, Rotated
  <1> QED
    BY <1>8, <1>9

LEMMA PullBypass ==
  ASSUME BypassInv, Pull
  PROVE  TurnsCome' /\ OthersBounded'
PROOF
  <1>1. /\ sched' = Turned /\ pending' = Empty
        /\ UNCHANGED <<outbox, hub, waited, skips, crashes>>
    BY DEF Pull, Receive, Turned
  <1>2. /\ sched'.attempted = sched.attempted \cup pending.tried
        /\ sched.known \subseteq sched'.known
    BY <1>1 DEF Turned, ReplayReceipt, AttemptedSoFar
  <1>3. /\ Turned'.freshCursor = Turned.freshCursor
        /\ Turned'.retryCursor = Turned.retryCursor
        /\ Turned'.retryFirst = Turned.retryFirst
    <2>1. Turned' = ReplayReceipt(sched', Empty, hub)
      BY <1>1 DEF Turned
    <2>2. {} \ sched'.attempted = {} /\ {} \cap sched'.attempted = {}
      OBVIOUS
    <2>3. /\ ReplayReceipt(sched', Empty, hub).freshCursor = sched'.freshCursor
          /\ ReplayReceipt(sched', Empty, hub).retryCursor = sched'.retryCursor
          /\ ReplayReceipt(sched', Empty, hub).retryFirst = sched'.retryFirst
      BY <2>2 DEF ReplayReceipt, Empty
    <2> QED
      BY <1>1, <2>1, <2>3
  <1>4. ASSUME NEW r \in Candidates', waited'[r] # 0
        PROVE  Within(r)'
    <2>1. r \in Candidates /\ waited[r] # 0
      BY <1>1, <1>2, <1>4 DEF Candidates
    <2>2. r \notin pending.tried
      BY <2>1 DEF BypassInv, TurnsCome
    <2>3. r \in sched.attempted <=> r \in sched'.attempted
      BY <1>2, <2>2
    <2>4. Cursor(r)' = Cursor(r) /\ (Leads(r) => Leads(r)')
      BY <1>3, <2>3 DEF Cursor, Leads
    <2>5. waited' = waited /\ crashes' \in {crashes, crashes + 1}
      BY <1>1
    <2> QED
      BY <2>1, <2>3, <2>4, <2>5, WithinStays
  <1>5. /\ waited' \in [Path -> Nat]
        /\ \A r \in pending'.tried : waited'[r] = 0
        /\ \A r \in Path \ outbox' : waited'[r] = 0
    BY <1>1 DEF BypassInv, TurnsCome, Empty
  <1>6. OthersBounded'
    BY <1>1, <1>2, OthersStay
  <1> QED
    BY <1>4, <1>5, <1>6 DEF TurnsCome

\* The second receipt of one batch: its fresh records count as retries.
LEMMA CrashedPullBypass ==
  ASSUME BypassInv, CrashedPull
  PROVE  TurnsCome' /\ OthersBounded'
PROOF
  <1>1. /\ sched' = Turned /\ crashes' = crashes + 1
        /\ UNCHANGED <<outbox, hub, pending, waited, skips>>
    BY DEF CrashedPull, Receive, Turned
  <1>2. /\ sched'.attempted = sched.attempted \cup pending.tried
        /\ sched.known \subseteq sched'.known
    BY <1>1 DEF Turned, ReplayReceipt, AttemptedSoFar
  <1>3. /\ pending.tried \ sched'.attempted = {}
        /\ pending.tried \cap sched'.attempted = pending.tried
    BY <1>2
  <1>4. /\ Turned'.freshCursor = Turned.freshCursor
        /\ Turned'.retryCursor = IF pending.tried = {} THEN Turned.retryCursor
                                 ELSE Max(pending.tried)
        /\ Turned'.retryFirst = IF pending.tried = {} THEN Turned.retryFirst
                                ELSE FALSE
    <2>1. Turned' = ReplayReceipt(sched', pending, hub)
      BY <1>1 DEF Turned
    <2>2. /\ Turned'.freshCursor = sched'.freshCursor
          /\ Turned'.retryCursor = IF pending.tried = {} THEN sched'.retryCursor
                                   ELSE Max(pending.tried)
          /\ Turned'.retryFirst = IF pending.tried = {} THEN sched'.retryFirst
                                  ELSE (pending.tried = {})
      BY <1>3, <2>1 DEF ReplayReceipt, RetryFirstNext
    <2> QED
      BY <1>1, <2>2
  <1>5. BatchInv /\ pending.tried \subseteq Path
    BY DEF BypassInv, BatchInv, TypeOK, Counted
  <1>6. ASSUME NEW r \in Candidates', waited'[r] # 0
        PROVE  Within(r)'
    <2>1. r \in Candidates /\ waited[r] # 0
      BY <1>1, <1>2, <1>6 DEF Candidates
    <2>2. r \notin pending.tried
      BY <2>1 DEF BypassInv, TurnsCome
    <2>3. r \in sched.attempted <=> r \in sched'.attempted
      BY <1>2, <2>2
    <2>4. waited' = waited
      BY <1>1
    <2>5. CASE pending.tried = {}
      <3>1. Cursor(r)' = Cursor(r) /\ (Leads(r) => Leads(r)')
        BY <1>4, <2>3, <2>5 DEF Cursor, Leads
      <3> QED
        BY <1>1, <2>1, <2>3, <2>4, <3>1, WithinStays
    <2>6. CASE pending.tried # {} /\ r \in sched.attempted
      <3>1. Max(pending.tried) \in Path
        BY <1>5, <2>6, GreatestExists
      <3>2. Max(pending.tried) \in 0 .. N
        BY <3>1, BatchAssumption DEF Path
      <3>3. Cursor(r)' \in 0 .. N
        BY <1>4, <2>3, <2>6, <3>2 DEF Cursor
      <3> QED
        BY <1>1, <2>1, <2>3, <2>4, <2>6, <3>3, WithinStays
    <2>7. CASE pending.tried # {} /\ r \notin sched.attempted
      <3>1. Cursor(r)' = Cursor(r) /\ Leads(r)'
        BY <1>4, <2>3, <2>7 DEF Cursor, Leads
      <3> QED
        BY <1>1, <2>1, <2>3, <2>4, <3>1, WithinStays
    <2> QED
      BY <2>5, <2>6, <2>7
  <1>7. /\ waited' \in [Path -> Nat]
        /\ \A r \in pending'.tried : waited'[r] = 0
        /\ \A r \in Path \ outbox' : waited'[r] = 0
    BY <1>1 DEF BypassInv, TurnsCome
  <1>8. OthersBounded'
    BY <1>1, <1>2, OthersStay
  <1> QED
    BY <1>6, <1>7, <1>8 DEF TurnsCome

\* Steps that leave the schedule and the pending envelope alone.
LEMMA QuietBypass ==
  ASSUME BypassInv, UNCHANGED <<sched, pending, waited>>,
         outbox \subseteq outbox', outbox' \subseteq Path,
         crashes' \in {crashes, crashes + 1}
  PROVE  TurnsCome' /\ OthersBounded'
PROOF
  <1>1. /\ Turned'.freshCursor = Turned.freshCursor
        /\ Turned'.retryCursor = Turned.retryCursor
        /\ Turned'.retryFirst = Turned.retryFirst
    BY DEF Turned, ReplayReceipt
  <1>2. ASSUME NEW r \in Candidates', waited'[r] # 0
        PROVE  Within(r)'
    <2>1. r \in Candidates \/ (r \notin outbox /\ r \in outbox')
      BY <1>2 DEF Candidates
    <2>2. CASE r \in Candidates
      <3>1. Cursor(r)' = Cursor(r) /\ (Leads(r) => Leads(r)')
        BY <1>1 DEF Cursor, Leads
      <3> QED
        BY <1>2, <2>2, <3>1, WithinStays
    <2>3. CASE r \notin outbox /\ r \in outbox'
      BY <1>2, <2>3 DEF BypassInv, TurnsCome
    <2> QED
      BY <2>1, <2>2, <2>3
  <1>3. /\ waited' \in [Path -> Nat]
        /\ \A r \in pending'.tried : waited'[r] = 0
        /\ \A r \in Path \ outbox' : waited'[r] = 0
    BY DEF BypassInv, TurnsCome
  <1>4. OthersBounded'
    BY OthersStay
  <1> QED
    BY <1>2, <1>3, <1>4 DEF TurnsCome

LEMMA InitBypass == Init => BypassInv
PROOF
  <1> SUFFICES ASSUME Init
               PROVE  BypassInv
    OBVIOUS
  <1>1. TurnsCome
    BY DEF Init, TurnsCome, Empty, Candidates
  <1>2. OthersBounded
    <2> SUFFICES ASSUME NEW r \in Path
                 PROVE  0 <= Round * 1
      BY BatchAssumption DEF Init, OthersBounded
    <2> QED
      BY Rounds
  <1> QED
    BY <1>1, <1>2, InitBatch DEF BypassInv

LEMMA NextBypass == BypassInv /\ [Next]_vars => BypassInv'
PROOF
  <1> SUFFICES ASSUME BypassInv, [Next]_vars
               PROVE  BypassInv'
    OBVIOUS
  <1>1. BatchInv'
    BY NextBatch DEF BypassInv
  <1>2. outbox \subseteq Path
    BY DEF BypassInv, BatchInv, TypeOK
  <1>3. ASSUME NEW r \in Path \ outbox, Append(r)
        PROVE  TurnsCome' /\ OthersBounded'
    BY <1>2, <1>3, QuietBypass DEF Append
  <1>4. ASSUME Push
        PROVE  TurnsCome' /\ OthersBounded'
    BY <1>4, PushBypass
  <1>5. ASSUME CrashedPush
        PROVE  TurnsCome' /\ OthersBounded'
    BY <1>2, <1>5, QuietBypass DEF CrashedPush
  <1>6. ASSUME Pull
        PROVE  TurnsCome' /\ OthersBounded'
    BY <1>6, PullBypass
  <1>7. ASSUME CrashedPull
        PROVE  TurnsCome' /\ OthersBounded'
    BY <1>7, CrashedPullBypass
  <1>8. ASSUME UNCHANGED vars
        PROVE  TurnsCome' /\ OthersBounded'
    BY <1>2, <1>8, QuietBypass DEF vars
  <1> QED
    BY <1>1, <1>3, <1>4, <1>5, <1>6, <1>7, <1>8 DEF Next, BypassInv

\* The cursors of _push_bound pass over no record for longer than a round of
\* both classes; a crash may cost a retry, never a fresh record, another.
THEOREM RecordsGetTheirTurn == Spec => []BoundedBypass
PROOF
  <1>1. Spec => []BypassInv
    BY InitBypass, NextBypass, PTL DEF Spec
  <1>2. BypassInv => BoundedBypass
    BY TurnsBound
  <1> QED
    BY <1>1, <1>2, PTL
=============================================================================
