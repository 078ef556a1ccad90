------------------------- MODULE Observations_proofs -------------------------
(***************************************************************************)
(* Proofs about what is observed: Scan, Archive, Adapters and Retention;   *)
(* and about Stores, which composes them with others.                      *)
(*                                                                         *)
(* Scan, for any tree, policies and changes. A directory whose stamp did   *)
(* not move was listed whole and a file whose stamp did not move was read  *)
(* whole. So while nothing has failed, a path that held still has its      *)
(* entry, is queued, or is in a directory that still waits; at the end     *)
(* nothing waits, and the shortest path missed would be in a directory     *)
(* that was not.                                                           *)
(*                                                                         *)
(* Archive, for any containers. An inspection hashes the file before it    *)
(* reads and again after; alike hashes, and nothing that came back, mean   *)
(* that nothing was rewritten between. So a receipt is what one            *)
(* undisturbed inspection of the container it names says; and that, an     *)
(* invariant of its loop over the entries shows, is what a definition      *)
(* without an order of inspection says.                                    *)
(*                                                                         *)
(* Adapters, for any packets, records and answers. An index is of one scan *)
(* and says what that scan's manifest and facts say, so the comparison of  *)
(* the copies settles it, whenever each was made; and a version 2 answer   *)
(* repeats the request it answers, which is rebuilt from the records it is *)
(* bound to.                                                               *)
(*                                                                         *)
(* Retention, for any observations and receipts, in any order. The loop's  *)
(* invariant is that it holds the latest observation of each location.     *)
(*                                                                         *)
(* The library has no induction without an operator for a parameter, so    *)
(* that a loop ends, and keeps its invariant, is shown by looking at the   *)
(* first turn at which it would not.                                       *)
(***************************************************************************)
EXTENDS Stores_proofs

-----------------------------------------------------------------------------
(***************************************************************************)
(* Loops                                                                   *)
(***************************************************************************)
LEMMA LeastExists ==
  ASSUME NEW S \in SUBSET Nat, S # {}
  PROVE  \E n \in S : \A m \in S : n <= m
  <1> DEFINE Less == {pair \in Nat \X Nat : pair[1] < pair[2]}
  <1>1. IsWellFoundedOn(Less, Nat)
    BY NatLessThanWellFounded DEF OpToRel
  <1>2. \E n \in S : \A m \in S : ~ (<<m, n>> \in Less)
    <2> HIDE DEF Less
    <2> QED
      BY <1>1, WFMin
  <1>3. \A m, n \in S : m \in Nat /\ n \in Nat /\ (<<m, n>> \in Less <=> m < n)
    OBVIOUS
  <1>4. \A m, n \in S : <<m, n>> \notin Less => n <= m
    BY <1>3, SMT
  <1> QED
    BY <1>2, <1>4


\* What g holds after each of m turns of a loop over the values of S.
LoopOf(g, S, first, next, m) ==
  /\ g \in [0 .. m -> S]
  /\ \A n \in 0 .. m : g[n] = IF n = 0 THEN first ELSE next[<<n, g[n - 1]>>]

\* Every loop ends: there is such a g.
LEMMA LoopExists ==
  ASSUME NEW S, NEW first \in S, NEW m \in Nat, NEW next \in [(1 .. m) \X S -> S]
  PROVE  \E g : LoopOf(g, S, first, next, m)
  <1> DEFINE Loops(g, k) ==
               /\ g \in [0 .. k -> S]
               /\ \A n \in 0 .. k : g[n] = IF n = 0 THEN first ELSE next[<<n, g[n - 1]>>]
             Missed == {k \in 0 .. m : ~ \E g : Loops(g, k)}
  <1>1. Missed = {}
    <2> SUFFICES ASSUME Missed # {} PROVE FALSE
      OBVIOUS
    <2>1. PICK k \in Missed : \A i \in Missed : k <= i
      <3>1. Missed \in SUBSET Nat
        OBVIOUS
      <3> HIDE DEF Missed
      <3> QED
        BY <3>1, LeastExists
    <2>2. k \in 0 .. m /\ \A g : ~ Loops(g, k)
      BY <2>1
    <2>3. CASE k = 0
      <3> DEFINE g == [n \in 0 .. 0 |-> first]
      <3>1. g \in [0 .. 0 -> S] /\ \A n \in 0 .. 0 : n = 0 /\ g[n] = first
        OBVIOUS
      <3> HIDE DEF g
      <3>2. Loops(g, 0)
        BY <3>1
      <3> HIDE DEF Loops
      <3> QED
        BY <2>2, <2>3, <3>2
    <2>4. CASE k # 0
      <3>1. k - 1 \in 0 .. m /\ k - 1 \notin Missed /\ k \in 1 .. m
        BY <2>1, <2>2, <2>4
      <3>2. PICK g : Loops(g, k - 1)
        BY <3>1
      <3> DEFINE h == [n \in 0 .. k |-> IF n = k THEN next[<<k, g[k - 1]>>] ELSE g[n]]
      <3>3. \A n \in 0 .. k : n = k \/ n \in 0 .. k - 1
        BY <2>2
      <3>4. g[k - 1] \in S /\ \A n \in 0 .. k - 1 : g[n] \in S
        BY <3>1, <3>2
      <3>5. next[<<k, g[k - 1]>>] \in S
        BY <3>1, <3>4
      <3>6. h \in [0 .. k -> S]
        BY <3>3, <3>4, <3>5
      <3>7. \A n \in 0 .. k : h[n] = IF n = 0 THEN first ELSE next[<<n, h[n - 1]>>]
        <4> SUFFICES ASSUME NEW n \in 0 .. k
                     PROVE h[n] = IF n = 0 THEN first ELSE next[<<n, h[n - 1]>>]
          OBVIOUS
        <4>1. n # 0 => n - 1 \in 0 .. k /\ n - 1 # k /\ h[n - 1] = g[n - 1]
          BY <2>2
        <4>2. CASE n = k
          BY <2>2, <2>4, <4>1, <4>2
        <4>3. CASE n # k
          <5>1. n \in 0 .. k - 1 /\ h[n] = g[n]
            BY <3>3, <4>3
          <5> QED
            BY <3>2, <4>1, <5>1
        <4> QED
          BY <4>2, <4>3
      <3> HIDE DEF h
      <3>8. Loops(h, k)
        BY <3>6, <3>7
      <3> HIDE DEF Loops
      <3> QED
        BY <2>2, <3>8
    <2> QED
      BY <2>3, <2>4
  <1>2. m \in 0 .. m
    OBVIOUS
  <1> QED
    BY <1>1, <1>2 DEF LoopOf

\* What is in S at first and stays in S at each turn is in S for good.
LEMMA StaysIn ==
  ASSUME NEW S, NEW m \in Nat, NEW g, g[0] \in S, \A n \in 1 .. m : g[n - 1] \in S => g[n] \in S
  PROVE  \A n \in 0 .. m : g[n] \in S
  <1> DEFINE Wrong == {n \in 0 .. m : g[n] \notin S}
  <1> SUFFICES ASSUME Wrong # {} PROVE FALSE
    OBVIOUS
  <1>1. PICK n \in Wrong : \A k \in Wrong : n <= k
    <2>1. Wrong \in SUBSET Nat
      OBVIOUS
    <2> HIDE DEF Wrong
    <2> QED
      BY <2>1, LeastExists
  <1>2. n \in 1 .. m /\ n - 1 \in 0 .. m /\ ~ (n <= n - 1)
    BY <1>1
  <1>3. g[n - 1] \in S
    BY <1>1, <1>2
  <1> QED
    BY <1>1, <1>2, <1>3

-----------------------------------------------------------------------------
(***************************************************************************)
(* Scan: the tree                                                          *)
(***************************************************************************)
NodeType(n) ==
  [kind : {"absent", "file", "directory", "odd"}, content : Content \cup {0}, stamp : 0 .. n]

Up(p) == Scan!Front(p)

There(t, p) == t[p].kind # "absent"

\* Whatever is there is in a directory; n is the newest stamp.
TreeOK(t, n) ==
  /\ t \in [Paths -> NodeType(n)]
  /\ \A p \in Paths \ {<<>>} : There(t, p) => t[Up(p)].kind = "directory"

\* Another program touched p, or p and the stamp of the directory it is in.
Disturbed(p) ==
  /\ treeChanges < MaxChanges /\ treeChanges' = treeChanges + 1
  /\ steady' = steady \ {p} /\ unmoved' = unmoved \ {p}
  /\ existed' = existed \cup Scan!FilesOf(tree')
  /\ scan' = scan /\ scans' = scans /\ kept' = kept /\ verdict' = verdict
  /\ tree'[p].stamp = treeChanges + 1
  /\ \A q \in Paths \ {p} :
       /\ tree'[q].kind = tree[q].kind /\ tree'[q].content = tree[q].content
       /\ tree'[q].stamp \in {tree[q].stamp, treeChanges + 1}
  /\ \A q \in Paths \ {<<>>} : Up(q) = p => ~ There(tree', q)

LEMMA FrontAndLast ==
  ASSUME NEW S, NEW s \in Seq(S), s # <<>>
  PROVE  /\ Len(s) \in Nat \ {0} /\ Scan!Front(s) \in Seq(S) /\ Len(Scan!Front(s)) = Len(s) - 1
         /\ \A i \in 1 .. Len(s) - 1 : Scan!Front(s)[i] = s[i]
         /\ Scan!Last(s) = s[Len(s)] /\ Scan!Last(s) \in S
  <1>1. Len(s) \in Nat \ {0} /\ \A i \in 1 .. Len(s) : s[i] \in S
    BY LenProperties, EmptySeq, ElementOfSeq
  <1>2. Scan!Front(s) = SubSeq(s, 1, Len(s) - 1)
    BY DEF Scan!Front
  <1> DEFINE n == Len(s) - 1
             u == SubSeq(s, 1, n)
  <1>3. u \in Seq(S) /\ Len(u) = n /\ \A i \in 1 .. n : u[i] = s[i]
    <2>1. n \in Nat /\ \A i \in 1 .. n : s[i] \in S
      BY <1>1
    <2> HIDE DEF n
    <2>2. /\ SubSeq(s, 1, n) \in Seq(S)
          /\ Len(SubSeq(s, 1, n)) = (IF 1 <= n THEN n - 1 + 1 ELSE 0)
          /\ \A i \in 1 .. n - 1 + 1 : SubSeq(s, 1, n)[i] = s[i + 1 - 1]
      BY <2>1, SubSeqProperties
    <2>3. n - 1 + 1 = n /\ \A i \in 1 .. n : i + 1 - 1 = i
      BY <2>1
    <2> HIDE DEF u
    <2> QED
      BY <2>1, <2>2, <2>3 DEF u
  <1>4. Scan!Last(s) = s[Len(s)] /\ s[Len(s)] \in S
    BY <1>1 DEF Scan!Last
  <1> HIDE DEF u
  <1> QED
    BY <1>1, <1>2, <1>3, <1>4 DEF u

LEMMA UpIsShorter ==
  ASSUME Scan!ScanConstants, NEW p \in Paths \ {<<>>}
  PROVE  /\ Up(p) \in Paths /\ Len(p) \in Nat /\ Len(Up(p)) < Len(p) /\ Up(p) # p
         /\ Len(Up(p)) \in Nat
  <1>1. p \in Seq(Nat) /\ Up(p) \in Paths
    BY DEF Scan!ScanConstants, Scan!Root, Up
  <1>2. Len(p) \in Nat \ {0} /\ Len(Up(p)) = Len(p) - 1
    BY <1>1, FrontAndLast DEF Up
  <1> QED
    BY <1>1, <1>2

\* A policy that covers a directory covers what is below.
Covered(policy, p) == \E prefix \in policy : Scan!IsPrefix(prefix, p)

LEMMA CoveredBelow ==
  ASSUME Scan!ScanConstants, NEW policy \in Policies \cup {{}}, NEW p \in Paths \ {<<>>},
         Covered(policy, Up(p))
  PROVE  Covered(policy, p)
  <1>1. PICK prefix \in policy : Scan!IsPrefix(prefix, Up(p))
    BY DEF Covered
  <1>2. prefix \in Seq(Nat) /\ p \in Seq(Nat) /\ Up(p) \in Seq(Nat)
    BY <1>1, UpIsShorter DEF Scan!ScanConstants
  <1> DEFINE n == Len(prefix)
  <1>3. n \in Nat /\ n <= Len(Up(p)) /\ SubSeq(prefix, 1, n) = SubSeq(Up(p), 1, n)
    BY <1>1, <1>2, LenProperties DEF Scan!IsPrefix
  <1>4. Len(p) \in Nat /\ Len(Up(p)) = Len(p) - 1 /\ \A i \in 1 .. Len(p) - 1 : Up(p)[i] = p[i]
    BY <1>2, FrontAndLast DEF Up
  <1> HIDE DEF n
  <1>5. SubSeq(Up(p), 1, n) = SubSeq(p, 1, n)
    BY <1>2, <1>3, <1>4
  <1> QED
    BY <1>1, <1>3, <1>4, <1>5 DEF Covered, Scan!IsPrefix, n

LEMMA RewriteDisturbs ==
  ASSUME Scan!ScanConstants, treeChanges \in Nat, TreeOK(tree, treeChanges),
         NEW p \in Paths, NEW c \in Content, Scan!Rewrite(p, c)
  PROVE  Disturbed(p) /\ TreeOK(tree', treeChanges + 1)
  <1> DEFINE node == [kind |-> "file", content |-> c, stamp |-> treeChanges + 1]
  <1>1. tree[p].kind = "file" /\ Scan!Changed(p, [tree EXCEPT ![p] = node])
    BY DEF Scan!Rewrite, Scan!Node
  <1>2. tree' = [tree EXCEPT ![p] = node]
    BY <1>1 DEF Scan!Changed
  <1>3. tree \in [Paths -> NodeType(treeChanges)]
    BY DEF TreeOK
  <1>4. tree'[p] = node /\ \A q \in Paths \ {p} : tree'[q] = tree[q]
    BY <1>2, <1>3
  <1>5. node \in NodeType(treeChanges + 1) /\ NodeType(treeChanges) \subseteq NodeType(treeChanges + 1)
    BY DEF NodeType
  <1>6. tree' \in [Paths -> NodeType(treeChanges + 1)]
    BY <1>2, <1>3, <1>5
  <1>7. node.kind = "file" /\ node.stamp = treeChanges + 1
    OBVIOUS
  <1> HIDE DEF node
  <1>8. ASSUME NEW q \in Paths \ {<<>>}, There(tree', q)
        PROVE  tree'[Up(q)].kind = "directory" /\ Up(q) # p
    <2>1. There(tree, q)
      BY <1>1, <1>4, <1>7, <1>8 DEF There
    <2>2. tree[Up(q)].kind = "directory" /\ Up(q) \in Paths
      BY <2>1, UpIsShorter DEF TreeOK
    <2> QED
      BY <2>2, <1>1, <1>4
  <1> QED
    BY <1>1, <1>4, <1>6, <1>7, <1>8 DEF Scan!Changed, Disturbed, TreeOK

LEMMA RelinkDisturbs ==
  ASSUME Scan!ScanConstants, treeChanges \in Nat, TreeOK(tree, treeChanges),
         NEW p \in Paths, NEW node \in NodeType(treeChanges + 1), node.stamp = treeChanges + 1,
         Scan!Relink(p, node)
  PROVE  Disturbed(p) /\ TreeOK(tree', treeChanges + 1)
  <1> DEFINE d == Up(p)
             dir == [tree[d] EXCEPT !.stamp = treeChanges + 1]
  <1>1. /\ p # <<>> /\ tree[d].kind = "directory"
        /\ \A q \in Paths : q # <<>> /\ Up(q) = p => ~ There(tree, q)
        /\ Scan!Changed(p, [tree EXCEPT ![p] = node, ![d].stamp = treeChanges + 1])
    BY DEF Scan!Relink, Scan!Below, Scan!Root, Scan!Present, There, Up
  <1>2. tree' = [tree EXCEPT ![p] = node, ![d].stamp = treeChanges + 1]
    BY <1>1 DEF Scan!Changed
  <1>3. tree \in [Paths -> NodeType(treeChanges)]
    BY DEF TreeOK
  <1>4. d \in Paths /\ d # p
    BY <1>1, UpIsShorter
  <1>5. tree[d] \in NodeType(treeChanges)
    BY <1>3, <1>4
  <1>6. dir \in NodeType(treeChanges + 1) /\ dir.kind = tree[d].kind /\ dir.content = tree[d].content
        /\ dir.stamp = treeChanges + 1
    BY <1>5 DEF NodeType
  <1>7. tree'[p] = node /\ tree'[d] = dir /\ \A q \in Paths \ {p, d} : tree'[q] = tree[q]
    BY <1>2, <1>3, <1>4
  <1>8. NodeType(treeChanges) \subseteq NodeType(treeChanges + 1)
    BY DEF NodeType
  <1>9. tree' \in [Paths -> NodeType(treeChanges + 1)]
    <2>1. \A q \in Paths : tree'[q] \in NodeType(treeChanges + 1)
      BY <1>3, <1>6, <1>7, <1>8
    <2>2. tree' = [q \in Paths |-> tree'[q]]
      BY <1>2, <1>3
    <2> QED
      BY <2>1, <2>2
  <1> HIDE DEF dir
  <1>10. ASSUME NEW q \in Paths \ {p}
         PROVE  /\ tree'[q].kind = tree[q].kind /\ tree'[q].content = tree[q].content
                /\ tree'[q].stamp \in {tree[q].stamp, treeChanges + 1}
    BY <1>6, <1>7
  <1>11. ASSUME NEW q \in Paths \ {<<>>}, There(tree', q)
         PROVE  tree'[Up(q)].kind = "directory" /\ Up(q) # p
    <2>1. CASE q = p
      BY <2>1, <1>1, <1>4, <1>10
    <2>2. CASE q # p
      <3>1. There(tree, q)
        BY <2>2, <1>10, <1>11 DEF There
      <3>2. tree[Up(q)].kind = "directory" /\ Up(q) \in Paths /\ Up(q) # p
        BY <3>1, <1>1, UpIsShorter DEF TreeOK
      <3> QED
        BY <3>2, <1>10
    <2> QED
      BY <2>1, <2>2
  <1> QED
    BY <1>1, <1>7, <1>9, <1>10, <1>11 DEF Scan!Changed, Disturbed, TreeOK

\* What the other programs do.
OtherPrograms ==
  \/ \E p \in Paths, c \in Content : Scan!Rewrite(p, c)
  \/ \E p \in Paths, kind \in {"file", "directory", "odd"}, c \in Content : Scan!Create(p, kind, c)
  \/ \E p \in Paths : Scan!Delete(p)

LEMMA OthersDisturb ==
  ASSUME Scan!ScanConstants, treeChanges \in Nat, TreeOK(tree, treeChanges), OtherPrograms
  PROVE  \E p \in Paths : Disturbed(p) /\ TreeOK(tree', treeChanges + 1)
  <1>1. CASE \E p \in Paths, c \in Content : Scan!Rewrite(p, c)
    BY <1>1, RewriteDisturbs
  <1>2. ASSUME NEW p \in Paths, NEW kind \in {"file", "directory", "odd"}, NEW c \in Content,
               Scan!Create(p, kind, c)
        PROVE  Disturbed(p) /\ TreeOK(tree', treeChanges + 1)
    <2> DEFINE node == Scan!Node(kind, IF kind = "file" THEN c ELSE 0, treeChanges + 1)
    <2>1. node \in NodeType(treeChanges + 1) /\ node.stamp = treeChanges + 1
      BY DEF Scan!Node, NodeType
    <2>2. Scan!Relink(p, node)
      BY <1>2 DEF Scan!Create
    <2> QED
      BY <2>1, <2>2, RelinkDisturbs
  <1>3. ASSUME NEW p \in Paths, Scan!Delete(p)
        PROVE  Disturbed(p) /\ TreeOK(tree', treeChanges + 1)
    <2> DEFINE node == Scan!Node("absent", 0, treeChanges + 1)
    <2>1. node \in NodeType(treeChanges + 1) /\ node.stamp = treeChanges + 1
      BY DEF Scan!Node, NodeType
    <2>2. Scan!Relink(p, node)
      BY <1>3 DEF Scan!Delete
    <2> QED
      BY <2>1, <2>2, RelinkDisturbs
  <1> QED
    BY <1>1, <1>2, <1>3 DEF OtherPrograms

-----------------------------------------------------------------------------
(***************************************************************************)
(* Scan: a scan visits each directory once                                 *)
(***************************************************************************)
LEMMA ScanFields ==
  ASSUME NEW s \in Scan!ScanType
  PROVE  /\ s.policy \in Policies \cup {{}} /\ s.pending \in Seq(Paths) /\ s.queue \in SUBSET Scan!ItemType
         /\ s.dir \in Paths /\ s.stamp \in Nat /\ s.chunk \in Content \cup {0}
         /\ s.found \in SUBSET Scan!ItemType /\ s.seen \in Nat /\ s.entries \in SUBSET Scan!EntryType
         /\ s.exclusions \in SUBSET Paths /\ s.incomplete \in BOOLEAN /\ s.rootFailed \in BOOLEAN
         /\ s.outcome \in {"none", "complete", "partial", "failed", "cancelled"}
  BY DEF Scan!ScanType, Scan!Outcomes

LEMMA FailedSays ==
  ASSUME NEW s \in Scan!ScanType, NEW p
  PROVE  LET f == Scan!Failed(s, p)
         IN /\ f \in Scan!ScanType /\ f.step = "walk" /\ f.incomplete = TRUE /\ f.outcome = s.outcome
            /\ f.policy = s.policy /\ f.pending = s.pending /\ f.queue = s.queue /\ f.entries = s.entries
  BY DEF Scan!Failed, Scan!ScanType

LEMMA AdmittedSays ==
  ASSUME NEW s \in Scan!ScanType, NEW e \in Scan!EntryType
  PROVE  LET f == Scan!Admitted(s, e)
         IN /\ f \in Scan!ScanType /\ f.step = "walk" /\ (~ f.incomplete => ~ s.incomplete)
            /\ f.outcome = s.outcome /\ f.policy = s.policy /\ f.pending = s.pending
            /\ f.queue = s.queue /\ f.entries = s.entries \cup {e}
  <1> DEFINE c == s.incomplete \/ Scan!Collides(e.path)
             f == [s EXCEPT !.step = "walk", !.entries = s.entries \cup {e}, !.incomplete = c]
  <1>1. Scan!Admitted(s, e) = f
    BY DEF Scan!Admitted
  <1>2. c \in BOOLEAN /\ (~ c => ~ s.incomplete) /\ s.entries \cup {e} \in SUBSET Scan!EntryType
    BY ScanFields
  <1> HIDE DEF c
  <1>3. /\ f \in Scan!ScanType /\ f.step = "walk" /\ f.incomplete = c
        /\ f.outcome = s.outcome /\ f.policy = s.policy /\ f.pending = s.pending
        /\ f.queue = s.queue /\ f.entries = s.entries \cup {e}
    BY <1>2 DEF Scan!ScanType
  <1> QED
    BY <1>1, <1>2, <1>3

LEMMA EndedSays ==
  ASSUME NEW s \in Scan!ScanType, NEW c \in BOOLEAN
  PROVE  LET f == Scan!Ended(s, c)
         IN /\ f \in Scan!ScanType /\ f.step = "ended" /\ f.incomplete = s.incomplete
            /\ (f.outcome = "complete" => ~ c /\ ~ s.incomplete)
            /\ f.policy = s.policy /\ f.pending = s.pending /\ f.queue = s.queue /\ f.entries = s.entries
  <1> DEFINE o == Scan!Outcome(s, c)
             f == [s EXCEPT !.step = "ended", !.outcome = o]
  <1>1. o \in {"complete", "partial", "failed", "cancelled"} /\ (o = "complete" => ~ c /\ ~ s.incomplete)
    BY DEF Scan!Outcome
  <1>2. Scan!Ended(s, c) = f
    BY DEF Scan!Ended
  <1> HIDE DEF o
  <1>3. /\ f \in Scan!ScanType /\ f.step = "ended" /\ f.incomplete = s.incomplete /\ f.outcome = o
        /\ f.policy = s.policy /\ f.pending = s.pending /\ f.queue = s.queue /\ f.entries = s.entries
    BY <1>1 DEF Scan!ScanType, Scan!Outcomes
  <1> QED
    BY <1>1, <1>2, <1>3

NextOf(items) ==
  CHOOSE a \in items : \A b \in items : Scan!Last(a.path) <= Scan!Last(b.path)

LEMMA NextIsThere ==
  ASSUME Scan!ScanConstants, NEW items \in SUBSET Scan!ItemType, items # {}
  PROVE  NextOf(items) \in items /\ NextOf(items) \in Scan!ItemType
  <1> DEFINE names == {Scan!Last(a.path) : a \in items}
  <1>1. \A a \in items : Scan!Last(a.path) \in Nat
    <2> TAKE a \in items
    <2>1. a.path \in Paths \ {<<>>}
      BY DEF Scan!ItemType, Scan!Root
    <2>2. a.path \in Seq(Nat) /\ a.path # <<>>
      BY <2>1 DEF Scan!ScanConstants
    <2> QED
      BY <2>2, FrontAndLast
  <1>2. names \in SUBSET Nat /\ names # {}
    BY <1>1
  <1>3. PICK n \in names : \A m \in names : n <= m
    BY <1>2, LeastExists
  <1>4. \E a \in items : \A b \in items : Scan!Last(a.path) <= Scan!Last(b.path)
    BY <1>3
  <1>5. NextOf(items) \in items
    BY <1>4 DEF NextOf
  <1> QED
    BY <1>5

\* What every step of a scan in progress does and leaves alone.
Goes(step) ==
  /\ scan.step = step /\ scan' \in Scan!ScanType /\ scan'.policy = scan.policy
  /\ UNCHANGED <<tree, treeChanges, scans, kept, verdict, steady, unmoved, existed>>

\* The scan ends with what it has; it is not complete.
GivesUp ==
  /\ scan'.step = "ended" /\ scan'.outcome # "complete" /\ scan'.entries = scan.entries
  /\ scan'.queue \subseteq scan.queue /\ scan'.pending = scan.pending

\* A failure is recorded: the scan is not going to be complete.
Fails ==
  /\ scan'.step = "walk" /\ scan'.incomplete = TRUE /\ scan'.outcome = scan.outcome
  /\ scan'.entries = scan.entries

\* The tree and the scan hold what they may.
AllTyped == treeChanges \in 0 .. MaxChanges /\ TreeOK(tree, treeChanges) /\ scan \in Scan!ScanType

LEMMA OpenDirectorySays ==
  ASSUME Scan!ScanConstants, AllTyped, Scan!OpenDirectory
  PROVE  /\ Goes("walk") /\ scan.queue = {} /\ scan'.queue = {} /\ scan.pending # <<>>
         /\ scan'.pending = Scan!Front(scan.pending)
         /\ \/ Fails
            \/ /\ scan'.step = "list" /\ scan'.dir = Scan!Last(scan.pending) /\ scan'.found = {}
               /\ scan'.incomplete = scan.incomplete /\ scan'.outcome = scan.outcome
               /\ scan'.entries = scan.entries
  <1> DEFINE d == Scan!Last(scan.pending)
             rest == Scan!Front(scan.pending)
             s == [scan EXCEPT !.pending = rest]
             t == [s EXCEPT !.step = "list", !.dir = d, !.stamp = tree[d].stamp, !.found = {}]
  <1>1. /\ scan.step = "walk" /\ scan.queue = {} /\ scan.pending # <<>>
        /\ UNCHANGED <<tree, treeChanges, scans, kept, verdict, steady, unmoved, existed>>
        /\ scan' = IF tree[d].kind # "directory" THEN Scan!Failed(s, d) ELSE t
    BY DEF Scan!OpenDirectory, Scan!Scanning
  <1>2. scan \in Scan!ScanType /\ rest \in Seq(Paths) /\ d \in Paths
    BY <1>1, ScanFields, FrontAndLast DEF AllTyped
  <1>3. tree[d].stamp \in Nat
    <2>1. tree[d] \in NodeType(treeChanges)
      BY <1>2 DEF AllTyped, TreeOK
    <2> QED
      BY <2>1 DEF NodeType
  <1> HIDE DEF d, rest
  <1>4. /\ s \in Scan!ScanType /\ s.pending = rest /\ s.queue = scan.queue /\ s.entries = scan.entries
        /\ s.policy = scan.policy /\ s.outcome = scan.outcome /\ s.incomplete = scan.incomplete
    BY <1>2 DEF Scan!ScanType
  <1> HIDE DEF s
  <1>5. /\ t \in Scan!ScanType /\ t.step = "list" /\ t.dir = d /\ t.found = {} /\ t.pending = s.pending
        /\ t.queue = s.queue /\ t.entries = s.entries /\ t.policy = s.policy
        /\ t.outcome = s.outcome /\ t.incomplete = s.incomplete
    BY <1>2, <1>3, <1>4 DEF Scan!ScanType
  <1> HIDE DEF t
  <1> QED
    BY <1>1, <1>4, <1>5, FailedSays DEF Goes, Fails, d, rest

LEMMA StopsSay ==
  ASSUME AllTyped, Scan!Cancel \/ Scan!StopAtEntryLimit
  PROVE  Goes("list") /\ GivesUp
  <1> DEFINE s == [scan EXCEPT !.incomplete = TRUE]
  <1>1. /\ scan.step = "list"
        /\ UNCHANGED <<tree, treeChanges, scans, kept, verdict, steady, unmoved, existed>>
        /\ scan' \in {Scan!Ended(scan, TRUE), Scan!Ended(s, FALSE)}
    BY DEF Scan!Cancel, Scan!StopAtEntryLimit, Scan!Scanning
  <1>2. /\ s \in Scan!ScanType /\ s.pending = scan.pending /\ s.queue = scan.queue
        /\ s.entries = scan.entries /\ s.policy = scan.policy /\ s.incomplete = TRUE
    BY DEF Scan!ScanType, AllTyped
  <1> HIDE DEF s
  <1>3. CASE scan' = Scan!Ended(scan, TRUE)
    BY <1>1, <1>3, EndedSays DEF Goes, GivesUp, AllTyped
  <1>4. CASE scan' = Scan!Ended(s, FALSE)
    <2> DEFINE f == Scan!Ended(s, FALSE)
    <2>1. /\ f \in Scan!ScanType /\ f.step = "ended" /\ f.incomplete = s.incomplete
          /\ (f.outcome = "complete" => ~ s.incomplete)
          /\ f.policy = s.policy /\ f.pending = s.pending /\ f.queue = s.queue /\ f.entries = s.entries
      BY <1>2, EndedSays
    <2> HIDE DEF f
    <2>2. f.outcome # "complete"
      BY <1>2, <2>1
    <2>3. scan' = f
      BY <1>4 DEF f
    <2> QED
      BY <1>1, <1>2, <2>1, <2>2, <2>3 DEF Goes, GivesUp
  <1> QED
    BY <1>1, <1>3, <1>4

\* What a listed path is taken for.
TakenFor(p) == [path |-> p, kind |-> IF Covered(scan.policy, p) THEN "excluded" ELSE tree[p].kind]

\* What the directory being listed still holds.
Unlisted == {p \in Paths \ {<<>>} : Up(p) = scan.dir /\ There(tree, p)} \ Scan!PathsOf(scan.found)

LEMMA UnlistedIs == Scan!Unlisted = Unlisted
  BY DEF Unlisted, Scan!Unlisted, Scan!Below, Scan!Root, Scan!Present, Scan!PathsOf, Up, There

LEMMA ListEntrySays ==
  ASSUME Scan!ScanConstants, AllTyped, NEW p \in Paths, Scan!ListEntry(p)
  PROVE  /\ Goes("list") /\ p \in Unlisted /\ TakenFor(p) \in Scan!ItemType
         /\ scan'.found = scan.found \cup {TakenFor(p)} /\ scan'.step = "list" /\ scan'.dir = scan.dir
         /\ scan'.queue = scan.queue /\ scan'.pending = scan.pending
         /\ scan'.entries = scan.entries /\ scan'.incomplete = scan.incomplete
         /\ scan'.outcome = scan.outcome
  <1> DEFINE f == scan.found \cup {TakenFor(p)}
             t == [scan EXCEPT !.found = f]
  <1>1. Scan!Observed(p) = TakenFor(p)
    BY DEF Scan!Observed, TakenFor, Scan!Excluded, Covered
  <1>2. /\ scan.step = "list" /\ p \in Unlisted /\ scan' = t
        /\ UNCHANGED <<tree, treeChanges, scans, kept, verdict, steady, unmoved, existed>>
    BY <1>1, UnlistedIs DEF Scan!ListEntry, Scan!Scanning
  <1>3. TakenFor(p) \in Scan!ItemType
    <2>1. tree[p] \in NodeType(treeChanges) /\ There(tree, p) /\ p # <<>>
      BY <1>2 DEF Unlisted, AllTyped, TreeOK
    <2>2. tree[p].kind \in {"file", "directory", "odd"}
      BY <2>1 DEF NodeType, There
    <2> QED
      BY <2>1, <2>2 DEF TakenFor, Scan!ItemType, Scan!Root
  <1>4. scan \in Scan!ScanType /\ f \in SUBSET Scan!ItemType
    BY <1>3, ScanFields DEF AllTyped
  <1> HIDE DEF f
  <1>5. /\ t \in Scan!ScanType /\ t.found = f /\ t.step = scan.step /\ t.dir = scan.dir /\ t.queue = scan.queue
        /\ t.pending = scan.pending /\ t.entries = scan.entries /\ t.incomplete = scan.incomplete
        /\ t.policy = scan.policy /\ t.outcome = scan.outcome
    BY <1>4 DEF Scan!ScanType
  <1> HIDE DEF t
  <1> QED
    BY <1>2, <1>3, <1>5 DEF Goes, f

LEMMA CloseDirectorySays ==
  ASSUME AllTyped, Scan!CloseDirectory
  PROVE  /\ Goes("list") /\ scan'.pending = scan.pending
         /\ \/ Fails /\ scan'.queue = scan.queue
            \/ /\ scan'.step = "walk" /\ scan'.queue = scan.found /\ Unlisted = {}
               /\ scan'.incomplete = scan.incomplete /\ scan'.outcome = scan.outcome
               /\ scan'.entries = scan.entries
  <1> DEFINE t == [scan EXCEPT !.step = "walk", !.queue = scan.found]
  <1>1. /\ scan.step = "list" /\ (scan' = Scan!Failed(scan, scan.dir) \/ (scan' = t /\ Unlisted = {}))
        /\ UNCHANGED <<tree, treeChanges, scans, kept, verdict, steady, unmoved, existed>>
    BY UnlistedIs DEF Scan!CloseDirectory, Scan!Scanning, Scan!DirectoryStable
  <1>2. scan \in Scan!ScanType /\ scan.found \in SUBSET Scan!ItemType
    BY ScanFields DEF AllTyped
  <1>3. /\ t \in Scan!ScanType /\ t.step = "walk" /\ t.queue = scan.found /\ t.pending = scan.pending
        /\ t.entries = scan.entries /\ t.incomplete = scan.incomplete /\ t.policy = scan.policy
        /\ t.outcome = scan.outcome
    BY <1>2 DEF Scan!ScanType
  <1> HIDE DEF t
  <1>4. CASE scan' = Scan!Failed(scan, scan.dir)
    BY <1>1, <1>2, <1>4, FailedSays DEF Goes, Fails
  <1>5. CASE scan' = t /\ Unlisted = {}
    BY <1>1, <1>3, <1>5 DEF Goes
  <1> QED
    BY <1>1, <1>4, <1>5

\* An entry is admitted in the place of the item it was read from.
Admits(item, e) ==
  /\ scan'.step = "walk" /\ scan'.queue = scan.queue \ {item} /\ e \in Scan!EntryType
  /\ e.path = item.path /\ scan'.entries = scan.entries \cup {e}
  /\ (~ scan'.incomplete => ~ scan.incomplete) /\ scan'.outcome = scan.outcome

LEMMA NextItemIs ==
  ASSUME Scan!ScanConstants, AllTyped, scan.queue # {}
  PROVE  /\ Scan!NextItem = NextOf(scan.queue) /\ NextOf(scan.queue) \in scan.queue
         /\ NextOf(scan.queue) \in Scan!ItemType /\ NextOf(scan.queue).path \in Paths
         /\ tree[NextOf(scan.queue).path] \in NodeType(treeChanges)
  <1>1. Scan!NextItem = NextOf(scan.queue)
    BY DEF Scan!NextItem, NextOf
  <1>2. NextOf(scan.queue) \in scan.queue /\ NextOf(scan.queue) \in Scan!ItemType
    BY NextIsThere, ScanFields DEF AllTyped
  <1>3. NextOf(scan.queue).path \in Paths
    BY <1>2 DEF Scan!ItemType
  <1> QED
    BY <1>1, <1>2, <1>3 DEF AllTyped, TreeOK

LEMMA TakeEntrySays ==
  ASSUME Scan!ScanConstants, AllTyped, Scan!TakeEntry
  PROVE  /\ Goes("walk") /\ scan.queue # {}
         /\ LET item == NextOf(scan.queue)
            IN \/ /\ item.kind = "excluded" /\ scan'.step = "walk" /\ scan'.queue = scan.queue \ {item}
                  /\ scan'.pending = scan.pending /\ scan'.entries = scan.entries
                  /\ scan'.incomplete = scan.incomplete /\ scan'.outcome = scan.outcome
               \/ /\ item.kind = "directory"
                  /\ Admits(item, [path |-> item.path, kind |-> "directory", digest |-> <<>>])
                  /\ scan'.pending = Append(scan.pending, item.path)
               \/ /\ Fails /\ scan'.queue = scan.queue \ {item} /\ scan'.pending = scan.pending
  <1> DEFINE item == NextOf(scan.queue)
             q == scan.queue \ {item}
             s == [scan EXCEPT !.queue = q, !.seen = scan.seen + 1]
             x == [s EXCEPT !.exclusions = s.exclusions \cup {item.path}]
             e == [path |-> item.path, kind |-> "directory", digest |-> <<>>]
             a == Scan!Admitted(s, e)
             more == Append(a.pending, item.path)
             d == [a EXCEPT !.pending = more]
  <1>1. scan.queue # {} /\ scan \in Scan!ScanType
    BY DEF Scan!TakeEntry, AllTyped
  <1>2. item \in Scan!ItemType /\ item.path \in Paths /\ item = Scan!NextItem
    BY <1>1, NextItemIs
  <1>3. /\ scan.step = "walk"
        /\ UNCHANGED <<tree, treeChanges, scans, kept, verdict, steady, unmoved, existed>>
        /\ \/ item.kind = "excluded" /\ scan' = x
           \/ item.kind = "directory" /\ scan' = d
           \/ scan' = Scan!Failed(s, item.path)
    <2>1. Scan!Entry(item.path, "directory", Scan!NoDigest) = e
      BY DEF Scan!Entry, Scan!NoDigest
    <2> QED
      BY <1>2, <2>1 DEF Scan!TakeEntry, Scan!Scanning
  <1>4. q \in SUBSET Scan!ItemType /\ scan.seen + 1 \in Nat
    BY <1>1, ScanFields
  <1>5. e \in Scan!EntryType /\ e.path = item.path
    BY <1>2 DEF Scan!NoDigest, Scan!EntryType, Scan!DigestType, Scan!ItemType
  <1> HIDE DEF item, q
  <1>6. /\ s \in Scan!ScanType /\ s.queue = q /\ s.pending = scan.pending /\ s.entries = scan.entries
        /\ s.policy = scan.policy /\ s.incomplete = scan.incomplete /\ s.outcome = scan.outcome
        /\ s.step = scan.step
    BY <1>1, <1>4 DEF Scan!ScanType
  <1> HIDE DEF s
  <1>7. /\ x \in Scan!ScanType /\ x.queue = q /\ x.pending = scan.pending /\ x.entries = scan.entries
        /\ x.policy = scan.policy /\ x.incomplete = scan.incomplete /\ x.outcome = scan.outcome
        /\ x.step = scan.step
    <2>1. s.exclusions \cup {item.path} \in SUBSET Paths
      BY <1>2, <1>6, ScanFields
    <2> QED
      BY <2>1, <1>6 DEF Scan!ScanType
  <1> HIDE DEF x, e
  <1>8. /\ a \in Scan!ScanType /\ a.step = "walk" /\ (~ a.incomplete => ~ s.incomplete)
        /\ a.outcome = s.outcome /\ a.policy = s.policy /\ a.pending = s.pending
        /\ a.queue = s.queue /\ a.entries = s.entries \cup {e}
    BY <1>5, <1>6, AdmittedSays
  <1> HIDE DEF a
  <1>9. more \in Seq(Paths) /\ more = Append(scan.pending, item.path)
    BY <1>2, <1>6, <1>8, ScanFields, AppendProperties
  <1> HIDE DEF more
  <1>10. /\ d \in Scan!ScanType /\ d.step = "walk" /\ (~ d.incomplete => ~ scan.incomplete)
         /\ d.outcome = scan.outcome /\ d.policy = scan.policy /\ d.pending = more
         /\ d.queue = q /\ d.entries = scan.entries \cup {e}
    BY <1>6, <1>8, <1>9 DEF Scan!ScanType
  <1> HIDE DEF d
  <1>11. CASE item.kind = "excluded" /\ scan' = x
    BY <1>1, <1>3, <1>7, <1>11 DEF Goes, item, q
  <1>12. CASE item.kind = "directory" /\ scan' = d
    BY <1>1, <1>3, <1>5, <1>9, <1>10, <1>12 DEF Goes, Admits, item, q, e
  <1>13. CASE scan' = Scan!Failed(s, item.path)
    BY <1>1, <1>3, <1>6, <1>13, FailedSays DEF Goes, Fails, item, q
  <1> QED
    BY <1>3, <1>11, <1>12, <1>13

LEMMA OpenFileSays ==
  ASSUME Scan!ScanConstants, AllTyped, Scan!OpenFile
  PROVE  /\ Goes("walk") /\ scan.queue # {}
         /\ LET item == NextOf(scan.queue)
            IN /\ item.kind = "file"
               /\ \/ Fails /\ scan'.queue = scan.queue \ {item} /\ scan'.pending = scan.pending
                  \/ GivesUp
                  \/ /\ scan'.step = "hash" /\ scan'.queue = scan.queue /\ scan'.pending = scan.pending
                     /\ scan'.entries = scan.entries /\ scan'.incomplete = scan.incomplete
                     /\ scan'.outcome = scan.outcome /\ scan'.stamp = tree[item.path].stamp
                     /\ scan'.chunk = tree[item.path].content
  <1> DEFINE item == NextOf(scan.queue)
             q == scan.queue \ {item}
             s == [scan EXCEPT !.seen = scan.seen + 1]
             dropped == [s EXCEPT !.queue = q]
             stopped == [dropped EXCEPT !.incomplete = TRUE]
             f == Scan!Ended(stopped, FALSE)
             h == [s EXCEPT !.step = "hash", !.stamp = tree[item.path].stamp,
                            !.chunk = tree[item.path].content]
  <1>1. scan.queue # {} /\ scan \in Scan!ScanType
    BY DEF Scan!OpenFile, AllTyped
  <1>2. /\ item \in Scan!ItemType /\ item.path \in Paths /\ item = Scan!NextItem
        /\ tree[item.path] \in NodeType(treeChanges)
    BY <1>1, NextItemIs
  <1>3. s.queue = scan.queue
    BY <1>1 DEF Scan!ScanType
  <1>4. /\ scan.step = "walk" /\ item.kind = "file"
        /\ UNCHANGED <<tree, treeChanges, scans, kept, verdict, steady, unmoved, existed>>
        /\ scan' \in {Scan!Failed(dropped, item.path), f, h}
    <2>1. [s EXCEPT !.queue = @ \ {Scan!NextItem}] = dropped
      BY <1>2, <1>3
    <2> QED
      BY <1>2, <2>1 DEF Scan!OpenFile, Scan!Scanning
  <1>5. q \in SUBSET Scan!ItemType /\ scan.seen + 1 \in Nat
    BY <1>1, ScanFields
  <1>6. tree[item.path].stamp \in Nat /\ tree[item.path].content \in Content \cup {0}
    BY <1>2 DEF NodeType
  <1> HIDE DEF item, q
  <1>7. /\ s \in Scan!ScanType /\ s.queue = scan.queue /\ s.pending = scan.pending /\ s.entries = scan.entries
        /\ s.policy = scan.policy /\ s.incomplete = scan.incomplete /\ s.outcome = scan.outcome
    BY <1>1, <1>5 DEF Scan!ScanType
  <1> HIDE DEF s
  <1>8. /\ dropped \in Scan!ScanType /\ dropped.queue = q /\ dropped.pending = scan.pending
        /\ dropped.entries = scan.entries /\ dropped.policy = scan.policy
        /\ dropped.outcome = scan.outcome
    BY <1>5, <1>7 DEF Scan!ScanType
  <1>9. /\ h \in Scan!ScanType /\ h.step = "hash" /\ h.queue = scan.queue /\ h.pending = scan.pending
        /\ h.entries = scan.entries /\ h.policy = scan.policy /\ h.incomplete = scan.incomplete
        /\ h.outcome = scan.outcome /\ h.stamp = tree[item.path].stamp
        /\ h.chunk = tree[item.path].content
    BY <1>6, <1>7 DEF Scan!ScanType
  <1> HIDE DEF h, dropped
  <1>10. /\ stopped \in Scan!ScanType /\ stopped.queue = q /\ stopped.pending = scan.pending
         /\ stopped.entries = scan.entries /\ stopped.policy = scan.policy
         /\ stopped.incomplete = TRUE
    BY <1>8 DEF Scan!ScanType
  <1> HIDE DEF stopped
  <1>11. /\ f \in Scan!ScanType /\ f.step = "ended" /\ (f.outcome = "complete" => ~ stopped.incomplete)
         /\ f.policy = stopped.policy /\ f.pending = stopped.pending /\ f.queue = stopped.queue
         /\ f.entries = stopped.entries
    BY <1>10, EndedSays
  <1> HIDE DEF f
  <1>12. CASE scan' = f
    BY <1>1, <1>4, <1>10, <1>11, <1>12 DEF Goes, GivesUp, q, item
  <1>13. CASE scan' = h
    BY <1>1, <1>4, <1>9, <1>13 DEF Goes, item
  <1>14. CASE scan' = Scan!Failed(dropped, item.path)
    BY <1>1, <1>4, <1>8, <1>14, FailedSays DEF Goes, Fails, q, item
  <1> QED
    BY <1>4, <1>12, <1>13, <1>14

LEMMA CloseFileSays ==
  ASSUME Scan!ScanConstants, AllTyped, Scan!CloseFile, scan.queue # {}
  PROVE  /\ Goes("hash") /\ scan'.pending = scan.pending
         /\ LET item == NextOf(scan.queue)
                node == tree[item.path]
            IN \/ Fails /\ scan'.queue = scan.queue \ {item}
               \/ /\ node.kind = "file" /\ node.stamp = scan.stamp
                  /\ Admits(item, [path |-> item.path, kind |-> "file",
                                   digest |-> <<scan.chunk, node.content>>])
  <1> DEFINE item == NextOf(scan.queue)
             node == tree[item.path]
             q == scan.queue \ {item}
             s == [scan EXCEPT !.queue = q]
             e == [path |-> item.path, kind |-> "file", digest |-> <<scan.chunk, node.content>>]
             a == Scan!Admitted(s, e)
  <1>1. scan \in Scan!ScanType
    BY DEF AllTyped
  <1>2. /\ item \in Scan!ItemType /\ item.path \in Paths /\ item = Scan!NextItem
        /\ node \in NodeType(treeChanges)
    BY NextItemIs
  <1>3. /\ scan.step = "hash"
        /\ UNCHANGED <<tree, treeChanges, scans, kept, verdict, steady, unmoved, existed>>
        /\ \/ node.kind = "file" /\ node.stamp = scan.stamp /\ scan' = a
           \/ scan' = Scan!Failed(s, item.path)
    <2>1. Scan!Entry(item.path, "file", <<scan.chunk, node.content>>) = e
      BY DEF Scan!Entry
    <2> QED
      BY <1>2, <2>1 DEF Scan!CloseFile, Scan!Scanning, Scan!FileStable, Scan!FileStillThere
  <1>4. q \in SUBSET Scan!ItemType
    BY <1>1, ScanFields
  <1>5. e \in Scan!EntryType /\ e.path = item.path
    <2>1. node.content \in Content \cup {0} /\ scan.chunk \in Content \cup {0}
      BY <1>1, <1>2, ScanFields DEF NodeType
    <2> QED
      BY <1>2, <2>1 DEF Scan!EntryType, Scan!DigestType, Scan!ItemType
  <1> HIDE DEF item, q
  <1>6. /\ s \in Scan!ScanType /\ s.queue = q /\ s.pending = scan.pending /\ s.entries = scan.entries
        /\ s.policy = scan.policy /\ s.incomplete = scan.incomplete /\ s.outcome = scan.outcome
    BY <1>1, <1>4 DEF Scan!ScanType
  <1> HIDE DEF s, e
  <1>7. /\ a \in Scan!ScanType /\ a.step = "walk" /\ (~ a.incomplete => ~ s.incomplete)
        /\ a.outcome = s.outcome /\ a.policy = s.policy /\ a.pending = s.pending
        /\ a.queue = s.queue /\ a.entries = s.entries \cup {e}
    BY <1>5, <1>6, AdmittedSays
  <1> HIDE DEF a
  <1>8. CASE node.kind = "file" /\ node.stamp = scan.stamp /\ scan' = a
    BY <1>3, <1>5, <1>6, <1>7, <1>8 DEF Goes, Admits, item, q, e
  <1>9. CASE scan' = Scan!Failed(s, item.path)
    BY <1>3, <1>6, <1>9, FailedSays DEF Goes, Fails, item, q
  <1> QED
    BY <1>3, <1>8, <1>9

LEMMA FinishSays ==
  ASSUME AllTyped, Scan!FinishScan
  PROVE  /\ Goes("walk") /\ scan.queue = {} /\ scan.pending = <<>>
         /\ scan'.step = "ended" /\ scan'.queue = scan.queue /\ scan'.pending = scan.pending
         /\ scan'.entries = scan.entries /\ (scan'.outcome = "complete" => ~ scan.incomplete)
  <1>1. /\ scan.step = "walk" /\ scan.queue = {} /\ scan.pending = <<>> /\ scan \in Scan!ScanType
        /\ UNCHANGED <<tree, treeChanges, scans, kept, verdict, steady, unmoved, existed>>
        /\ scan' = Scan!Ended(scan, FALSE)
    BY DEF Scan!FinishScan, Scan!Scanning, AllTyped
  <1> QED
    BY <1>1, EndedSays DEF Goes

LEMMA BeginSays ==
  ASSUME Scan!ScanConstants, NEW policy \in Policies, NEW limits \in Limits,
         Scan!BeginScan(policy, limits)
  PROVE  /\ scan' \in Scan!ScanType /\ scan'.policy = policy /\ scan'.step = "walk"
         /\ scan'.pending = <<Scan!Root>> /\ scan'.queue = {} /\ scan'.entries = {}
         /\ scan'.outcome = "none"
  <1> DEFINE s == [step |-> "walk", policy |-> policy, limits |-> limits,
                   pending |-> <<Scan!Root>>, queue |-> {}, dir |-> Scan!Root, stamp |-> 0, chunk |-> 0,
                   found |-> {}, seen |-> 0, entries |-> {}, exclusions |-> {}, incomplete |-> FALSE,
                   rootFailed |-> FALSE, outcome |-> "none"]
  <1>1. scan' = s
    BY DEF Scan!BeginScan, Scan!NoScan
  <1>2. Scan!Root \in Paths /\ <<Scan!Root>> \in Seq(Paths)
    BY DEF Scan!ScanConstants
  <1> HIDE DEF s
  <1>3. s \in Scan!ScanType
    BY <1>2 DEF s, Scan!ScanType, Scan!Outcomes
  <1> QED
    BY <1>1, <1>3 DEF s

LEMMA NoScanTyped ==
  ASSUME Scan!ScanConstants
  PROVE  Scan!NoScan \in Scan!ScanType
  <1>1. Scan!Root \in Paths /\ <<>> \in Seq(Paths)
    BY DEF Scan!ScanConstants
  <1> QED
    BY <1>1 DEF Scan!NoScan, Scan!ScanType, Scan!Unlimited, Scan!Outcomes

PendingOf(s) == {s.pending[i] : i \in 1 .. Len(s.pending)}

Different(seq) == \A i, j \in 1 .. Len(seq) : seq[i] = seq[j] => i = j

\* d is going to be listed, or is being listed.
Waits(s, d) == d \in PendingOf(s) \/ (s.step = "list" /\ s.dir = d)

\* d is the root or has been admitted.
Reached(s, d) == d = <<>> \/ \E e \in s.entries : e.path = d /\ e.kind = "directory"

OnePathEach(items) == \A a, b \in items : a.path = b.path => a = b

\* No two entries, items or waiting directories are one path, each is in a directory that was
\* admitted, and nothing in a directory that waits has been read.
OncePerPath(s) ==
  /\ OnePathEach(s.entries) /\ OnePathEach(s.queue) /\ Different(s.pending)
  /\ \A e \in s.entries : Reached(s, Up(e.path)) /\ ~ Waits(s, Up(e.path))
  /\ \A a \in s.queue :
       /\ Reached(s, Up(a.path)) /\ ~ Waits(s, Up(a.path))
       /\ a.path \notin Scan!PathsOf(s.entries)
  /\ \A d \in PendingOf(s) : Reached(s, d)
  /\ s.step = "list" =>
       /\ s.queue = {} /\ Reached(s, s.dir) /\ s.dir \notin PendingOf(s)
       /\ OnePathEach(s.found) /\ \A a \in s.found : Up(a.path) = s.dir
  /\ s.step = "hash" => s.queue # {}

LEMMA OnceLess ==
  ASSUME NEW s, NEW t, OncePerPath(s), t.entries = s.entries, t.queue \subseteq s.queue,
         t.step \in {"walk", "ended"}, PendingOf(t) \subseteq PendingOf(s), Different(t.pending)
  PROVE  OncePerPath(t)
  BY DEF OncePerPath, Waits, Reached, OnePathEach

LEMMA OncePopped ==
  ASSUME NEW s \in Scan!ScanType, s.pending # <<>>, Different(s.pending),
         NEW t, t.pending = Scan!Front(s.pending)
  PROVE  /\ Different(t.pending) /\ Scan!Last(s.pending) \notin PendingOf(t)
         /\ PendingOf(s) = PendingOf(t) \cup {Scan!Last(s.pending)}
  <1> DEFINE n == Len(s.pending)
  <1>1. s.pending \in Seq(Paths)
    BY ScanFields
  <1>2. /\ n \in Nat \ {0} /\ Len(t.pending) = n - 1 /\ Scan!Last(s.pending) = s.pending[n]
        /\ \A i \in 1 .. n - 1 : t.pending[i] = s.pending[i]
    BY <1>1, FrontAndLast
  <1> HIDE DEF n
  <1>3. 1 .. n = (1 .. n - 1) \cup {n} /\ n \notin 1 .. n - 1
    BY <1>2
  <1>4. \A i, j \in 1 .. n : s.pending[i] = s.pending[j] => i = j
    BY DEF Different, n
  <1>5. PendingOf(s) = {s.pending[i] : i \in 1 .. n}
    BY DEF PendingOf, n
  <1>6. PendingOf(t) = {s.pending[i] : i \in 1 .. n - 1}
    BY <1>2 DEF PendingOf
  <1>7. Different(t.pending)
    BY <1>2, <1>3, <1>4 DEF Different
  <1> QED
    BY <1>2, <1>3, <1>4, <1>5, <1>6, <1>7

LEMMA OncePushed ==
  ASSUME NEW s \in Scan!ScanType, Different(s.pending), NEW p \in Paths, p \notin PendingOf(s),
         NEW t, t.pending = Append(s.pending, p)
  PROVE  Different(t.pending) /\ PendingOf(t) = PendingOf(s) \cup {p}
  <1> DEFINE n == Len(s.pending)
  <1>1. s.pending \in Seq(Paths)
    BY ScanFields
  <1>2. /\ n \in Nat /\ Len(t.pending) = n + 1 /\ t.pending[n + 1] = p
        /\ \A i \in 1 .. n : t.pending[i] = s.pending[i]
    BY <1>1, AppendProperties, LenProperties
  <1> HIDE DEF n
  <1>3. 1 .. n + 1 = (1 .. n) \cup {n + 1}
    BY <1>2
  <1>4. \A i, j \in 1 .. n : s.pending[i] = s.pending[j] => i = j
    BY DEF Different, n
  <1>5. PendingOf(s) = {s.pending[i] : i \in 1 .. n}
    BY DEF PendingOf, n
  <1>6. PendingOf(t) = {t.pending[i] : i \in 1 .. n + 1}
    BY <1>2 DEF PendingOf
  <1>7. Different(t.pending)
    BY <1>2, <1>3, <1>4, <1>5 DEF Different
  <1> QED
    BY <1>2, <1>3, <1>5, <1>6, <1>7

LEMMA OnceOpened ==
  ASSUME NEW s \in Scan!ScanType, OncePerPath(s), s.step = "walk", s.pending # <<>>,
         NEW t, t.pending = Scan!Front(s.pending), t.entries = s.entries, t.queue = {},
         t.step = "list", t.dir = Scan!Last(s.pending), t.found = {}
  PROVE  OncePerPath(t)
  <1>1. /\ Different(t.pending) /\ t.dir \notin PendingOf(t)
        /\ PendingOf(s) = PendingOf(t) \cup {t.dir}
    BY OncePopped DEF OncePerPath
  <1> QED
    BY <1>1 DEF OncePerPath, Waits, Reached, OnePathEach

LEMMA OnceListed ==
  ASSUME NEW s, OncePerPath(s), s.step = "list", NEW a, Up(a.path) = s.dir,
         a.path \notin Scan!PathsOf(s.found),
         NEW t, t.pending = s.pending, t.entries = s.entries, t.queue = s.queue,
         t.step = "list", t.dir = s.dir, t.found = s.found \cup {a}
  PROVE  OncePerPath(t)
  BY DEF OncePerPath, Waits, Reached, OnePathEach, PendingOf, Scan!PathsOf

LEMMA OnceClosed ==
  ASSUME NEW s, OncePerPath(s), s.step = "list",
         NEW t, t.pending = s.pending, t.entries = s.entries, t.queue = s.found, t.step = "walk"
  PROVE  OncePerPath(t)
  <1>1. PendingOf(t) = PendingOf(s)
    BY DEF PendingOf
  <1>2. \A a \in s.found : /\ Reached(t, Up(a.path)) /\ ~ Waits(t, Up(a.path))
                           /\ a.path \notin Scan!PathsOf(t.entries)
    BY <1>1 DEF OncePerPath, Waits, Reached, Scan!PathsOf
  <1> QED
    BY <1>1, <1>2 DEF OncePerPath, Waits, Reached, OnePathEach

LEMMA OnceAdmitted ==
  ASSUME NEW s \in Scan!ScanType, OncePerPath(s), s.step # "list", NEW item \in s.queue,
         NEW e \in Scan!EntryType, e.path = item.path,
         NEW t, t.entries = s.entries \cup {e}, t.queue = s.queue \ {item}, t.step = "walk",
         \/ t.pending = s.pending
         \/ (e.kind = "directory" /\ t.pending = Append(s.pending, e.path))
  PROVE  OncePerPath(t)
  <1> DEFINE p == e.path
  <1>1. p \in Paths \ {<<>>} /\ p \notin Scan!PathsOf(s.entries)
    BY DEF OncePerPath, Scan!EntryType, Scan!Root
  <1>2. ~ Reached(s, p) /\ p \notin PendingOf(s)
    BY <1>1 DEF OncePerPath, Reached, Scan!PathsOf
  <1>3. /\ Different(t.pending) /\ PendingOf(s) \subseteq PendingOf(t)
        /\ PendingOf(t) \subseteq PendingOf(s) \cup (IF e.kind = "directory" THEN {p} ELSE {})
    <2>1. CASE t.pending = s.pending
      BY <2>1 DEF PendingOf, OncePerPath
    <2>2. CASE e.kind = "directory" /\ t.pending = Append(s.pending, p)
      <3>1. Different(s.pending)
        BY DEF OncePerPath
      <3>2. Different(t.pending) /\ PendingOf(t) = PendingOf(s) \cup {p}
        BY <2>2, <3>1, <1>1, <1>2, OncePushed
      <3> QED
        BY <2>2, <3>2
    <2> QED
      BY <2>1, <2>2
  <1>4. \A d : Reached(s, d) => Reached(t, d) /\ (Waits(t, d) => Waits(s, d))
    BY <1>2, <1>3 DEF Reached, Waits
  <1>5. \A d \in PendingOf(t) : Reached(t, d)
    BY <1>3, <1>4 DEF OncePerPath, Reached
  <1>6. OnePathEach(t.entries) /\ OnePathEach(t.queue)
    BY <1>1 DEF OncePerPath, OnePathEach, Scan!PathsOf
  <1>7. \A f \in t.entries : Reached(t, Up(f.path)) /\ ~ Waits(t, Up(f.path))
    BY <1>4 DEF OncePerPath
  <1>8. \A a \in t.queue : /\ Reached(t, Up(a.path)) /\ ~ Waits(t, Up(a.path))
                           /\ a.path \notin Scan!PathsOf(t.entries)
    <2> TAKE a \in t.queue
    <2>1. a.path # item.path
      BY DEF OncePerPath, OnePathEach
    <2> QED
      BY <1>4, <2>1 DEF OncePerPath, Scan!PathsOf
  <1> QED
    BY <1>3, <1>5, <1>6, <1>7, <1>8 DEF OncePerPath

LEMMA OnceBegun ==
  ASSUME NEW t, t.entries = {}, t.queue = {}, t.step = "walk", t.pending = <<Scan!Root>>
  PROVE  OncePerPath(t)
  <1>1. PendingOf(t) = {<<>>} /\ Different(t.pending)
    BY DEF PendingOf, Different, Scan!Root
  <1> QED
    BY <1>1 DEF OncePerPath, OnePathEach, Reached

LEMMA OnceNone == OncePerPath(Scan!NoScan)
  <1> DEFINE t == Scan!NoScan
  <1>1. t.entries = {} /\ t.queue = {} /\ t.step = "idle" /\ t.pending = <<>>
    BY DEF Scan!NoScan
  <1> HIDE DEF t
  <1>2. PendingOf(t) = {} /\ Different(t.pending)
    BY <1>1 DEF PendingOf, Different
  <1>3. OncePerPath(t)
    BY <1>1, <1>2 DEF OncePerPath, OnePathEach
  <1> QED
    BY <1>3 DEF t

\* No step of the scan but these.
ScanSteps ==
  \/ Scan!OpenDirectory \/ Scan!Cancel \/ Scan!StopAtEntryLimit
  \/ (\E p \in Paths : Scan!ListEntry(p))
  \/ Scan!CloseDirectory \/ Scan!TakeEntry \/ Scan!OpenFile \/ Scan!CloseFile \/ Scan!FinishScan

LEMMA StepsKeepOnce ==
  ASSUME Scan!ScanConstants, AllTyped, OncePerPath(scan), ScanSteps
  PROVE  AllTyped' /\ OncePerPath(scan')
  <1>1. scan \in Scan!ScanType /\ Different(scan.pending)
    BY DEF AllTyped, OncePerPath
  <1>2. ASSUME NEW step, Goes(step) PROVE AllTyped'
    BY <1>2 DEF AllTyped, Goes
  <1>4. ASSUME scan'.pending = scan.pending
        PROVE  PendingOf(scan') \subseteq PendingOf(scan) /\ Different(scan'.pending)
    BY <1>1, <1>4 DEF PendingOf
  <1>5. CASE Scan!OpenDirectory
    <2>1. /\ Goes("walk") /\ scan.queue = {} /\ scan'.queue = {} /\ scan.pending # <<>>
          /\ scan'.pending = Scan!Front(scan.pending)
      BY <1>5, OpenDirectorySays
    <2>2. PendingOf(scan') \subseteq PendingOf(scan) /\ Different(scan'.pending)
      BY <1>1, <2>1, OncePopped
    <2>3. CASE Fails
      BY <2>1, <2>2, <2>3, <1>2, OnceLess DEF Fails
    <2>4. CASE ~ Fails
      <3>1. /\ scan'.step = "list" /\ scan'.dir = Scan!Last(scan.pending) /\ scan'.found = {}
            /\ scan'.entries = scan.entries
        BY <1>5, <2>4, OpenDirectorySays
      <3> QED
        BY <1>1, <1>2, <2>1, <3>1, OnceOpened DEF Goes
    <2> QED
      BY <2>3, <2>4
  <1>6. CASE Scan!Cancel \/ Scan!StopAtEntryLimit
    <2>1. Goes("list") /\ GivesUp
      BY <1>6, StopsSay
    <2> QED
      BY <2>1, <1>2, <1>4, OnceLess DEF GivesUp
  <1>7. ASSUME NEW p \in Paths, Scan!ListEntry(p)
        PROVE  AllTyped' /\ OncePerPath(scan')
    <2>1. /\ Goes("list") /\ p \in Unlisted /\ TakenFor(p).path = p
          /\ scan'.found = scan.found \cup {TakenFor(p)} /\ scan'.step = "list" /\ scan'.dir = scan.dir
          /\ scan'.queue = scan.queue /\ scan'.pending = scan.pending
          /\ scan'.entries = scan.entries
      BY <1>7, ListEntrySays DEF TakenFor
    <2>2. Up(p) = scan.dir /\ p \notin Scan!PathsOf(scan.found)
      BY <2>1 DEF Unlisted
    <2> QED
      BY <1>2, <2>1, <2>2, OnceListed DEF Goes
  <1>8. CASE Scan!CloseDirectory
    <2>1. Goes("list") /\ scan'.pending = scan.pending
      BY <1>8, CloseDirectorySays
    <2>2. CASE Fails /\ scan'.queue = scan.queue
      BY <2>1, <2>2, <1>2, <1>4, OnceLess DEF Fails
    <2>3. CASE scan'.step = "walk" /\ scan'.queue = scan.found /\ scan'.entries = scan.entries
      BY <2>1, <2>3, <1>2, OnceClosed DEF Goes
    <2> QED
      BY <1>8, <2>2, <2>3, CloseDirectorySays
  <1>9. CASE Scan!TakeEntry
    <2> DEFINE item == NextOf(scan.queue)
    <2>1. Goes("walk") /\ scan.queue # {}
      BY <1>9, TakeEntrySays
    <2>2. item \in scan.queue
      BY <2>1, NextItemIs
    <2> HIDE DEF item
    <2>3. CASE scan'.step = "walk" /\ scan'.queue = scan.queue \ {item} /\ scan'.pending = scan.pending
               /\ scan'.entries = scan.entries
      BY <2>1, <2>3, <1>2, <1>4, OnceLess
    <2>4. CASE /\ Admits(item, [path |-> item.path, kind |-> "directory", digest |-> <<>>])
               /\ scan'.pending = Append(scan.pending, item.path)
      <3> DEFINE e == [path |-> item.path, kind |-> "directory", digest |-> <<>>]
      <3>1. e.kind = "directory" /\ Admits(item, e)
        BY <2>4
      <3> HIDE DEF e
      <3> QED
        BY <1>1, <1>2, <2>1, <2>2, <2>4, <3>1, OnceAdmitted DEF Admits, Goes
    <2> QED
      BY <1>9, <2>3, <2>4, TakeEntrySays DEF Fails, item
  <1>10. CASE Scan!OpenFile
    <2> DEFINE item == NextOf(scan.queue)
    <2>1. Goes("walk") /\ scan.queue # {}
      BY <1>10, OpenFileSays
    <2>2. CASE Fails /\ scan'.queue = scan.queue \ {item} /\ scan'.pending = scan.pending
      BY <2>1, <2>2, <1>2, <1>4, OnceLess DEF Fails
    <2>3. CASE GivesUp
      BY <2>1, <2>3, <1>2, <1>4, OnceLess DEF GivesUp
    <2>4. CASE /\ scan'.step = "hash" /\ scan'.queue = scan.queue /\ scan'.pending = scan.pending
               /\ scan'.entries = scan.entries
      BY <2>1, <2>4, <1>2 DEF OncePerPath, Goes, Waits, Reached, PendingOf
    <2> QED
      BY <1>10, <2>2, <2>3, <2>4, OpenFileSays
  <1>11. CASE Scan!CloseFile
    <2> DEFINE item == NextOf(scan.queue)
               e == [path |-> item.path, kind |-> "file", digest |-> <<scan.chunk, tree[item.path].content>>]
    <2>1. scan.step = "hash"
      BY <1>11 DEF Scan!CloseFile
    <2>2. scan.queue # {}
      BY <2>1 DEF OncePerPath
    <2>3. item \in scan.queue
      BY <2>2, NextItemIs
    <2>4. /\ Goes("hash") /\ scan'.pending = scan.pending
          /\ (Fails /\ scan'.queue = scan.queue \ {item}) \/ Admits(item, e)
      BY <1>11, <2>2, CloseFileSays
    <2> HIDE DEF item, e
    <2>5. CASE Fails /\ scan'.queue = scan.queue \ {item}
      BY <2>4, <2>5, <1>2, <1>4, OnceLess DEF Fails
    <2>6. CASE Admits(item, e)
      BY <1>1, <1>2, <2>1, <2>3, <2>4, <2>6, OnceAdmitted DEF Admits, Goes
    <2> QED
      BY <2>4, <2>5, <2>6
  <1>12. CASE Scan!FinishScan
    <2>1. /\ Goes("walk") /\ scan'.step = "ended" /\ scan'.queue = scan.queue
          /\ scan'.pending = scan.pending /\ scan'.entries = scan.entries
      BY <1>12, FinishSays
    <2> QED
      BY <2>1, <1>2, <1>4, OnceLess
  <1> QED
    BY <1>5, <1>6, <1>7, <1>8, <1>9, <1>10, <1>11, <1>12 DEF ScanSteps

-----------------------------------------------------------------------------
(***************************************************************************)
(* Scan: nothing that holds still is missed or misreported                 *)
(***************************************************************************)

\* What entry e says of its path is what tree t has there.
Describes(e, t) ==
  /\ t[e.path].kind = e.kind
  /\ e.digest = IF e.kind = "file" THEN Scan!Whole(t[e.path].content) ELSE <<>>

EntriesTrue(s, t, known, ex) ==
  \A e \in s.entries :
    /\ ~ Covered(s.policy, e.path)
    /\ e.kind = "file" => <<e.path, e.digest>> \in ex
    /\ e.path \in known => Describes(e, t)

ItemsTrue(items, policy, t, known) ==
  \A a \in items :
    /\ a.kind = "excluded" <=> Covered(policy, a.path)
    /\ a.kind # "excluded" /\ a.path \in known => t[a.path].kind = a.kind

\* While the observed stamp of an open file is its stamp, its content is what was read.
ReadTrue(s, t, n) ==
  s.step = "hash" =>
    LET item == NextOf(s.queue)
        node == t[item.path]
    IN /\ item.kind = "file" /\ s.stamp \in 0 .. n
       /\ node.kind = "file" /\ node.stamp = s.stamp => node.content = s.chunk

\* What is to become an entry of a complete manifest.
Due(s, t, p) == p # <<>> /\ There(t, p) /\ ~ Covered(s.policy, p)

\* A path of a directory that was admitted has an entry, or still waits for its turn.
NothingLost(s, t, known) ==
  ~ s.incomplete /\ s.step \in {"walk", "list", "hash"} =>
    \A p \in known :
      Due(s, t, p) /\ Reached(s, Up(p)) =>
        Waits(s, Up(p)) \/ p \in Scan!PathsOf(s.entries) \/ p \in Scan!PathsOf(s.queue)

\* A complete manifest has an entry for everything that held still.
CompleteSays(s, t, known) ==
  s.outcome = "complete" => \A p \in known : Due(s, t, p) => p \in Scan!PathsOf(s.entries)

\* The tree t has n as its newest stamp, and since the scan began it has held what ex holds and
\* left alone what known holds.
ScanTrue(s, t, n, known, ex) ==
  /\ EntriesTrue(s, t, known, ex)
  /\ ItemsTrue(s.queue, s.policy, t, known)
  /\ s.step = "list" => ItemsTrue(s.found, s.policy, t, known)
  /\ ReadTrue(s, t, n)
  /\ NothingLost(s, t, known)
  /\ CompleteSays(s, t, known)
  /\ s.step # "ended" => s.outcome = "none"

\* What held still is in a directory that did.
StillAbove(t, known) ==
  known \subseteq Paths /\ \A p \in known \ {<<>>} : There(t, p) => Up(p) \in known

LEMMA EverythingReached ==
  ASSUME Scan!ScanConstants, NEW s \in Scan!ScanType, NEW t, NEW n, TreeOK(t, n), NEW known, NEW ex,
         StillAbove(t, known), EntriesTrue(s, t, known, ex), NothingLost(s, t, known),
         ~ s.incomplete, s.step = "walk", s.queue = {}, s.pending = <<>>
  PROVE  \A p \in known : Due(s, t, p) => p \in Scan!PathsOf(s.entries)
  <1> DEFINE Missed == {p \in known : Due(s, t, p) /\ p \notin Scan!PathsOf(s.entries)}
             lengths == {Len(p) : p \in Missed}
  <1>1. SUFFICES ASSUME Missed # {} PROVE FALSE
    OBVIOUS
  <1>2. \A p \in Missed : p \in Paths \ {<<>>} /\ Len(p) \in Nat
    BY UpIsShorter DEF Due, StillAbove
  <1>3. lengths \in SUBSET Nat /\ lengths # {}
    BY <1>1, <1>2
  <1>4. PICK p \in Missed : \A q \in Missed : Len(p) <= Len(q)
    <2>1. PICK k \in lengths : \A m \in lengths : k <= m
      BY <1>3, LeastExists
    <2>2. PICK p \in Missed : Len(p) = k
      BY <2>1
    <2>3. \A q \in Missed : Len(q) \in lengths
      OBVIOUS
    <2> QED
      BY <2>1, <2>2, <2>3
  <1> DEFINE d == Up(p)
  <1>5. /\ p \in Paths \ {<<>>} /\ p \in known /\ Due(s, t, p) /\ p \notin Scan!PathsOf(s.entries)
        /\ d \in Paths /\ Len(d) \in Nat /\ Len(p) \in Nat /\ Len(d) < Len(p)
    BY <1>2, <1>4, UpIsShorter
  <1>6. t[d].kind = "directory" /\ d \in known
    BY <1>5 DEF TreeOK, Due, StillAbove
  <1>7. Reached(s, d)
    <2>1. CASE d = <<>>
      BY <2>1 DEF Reached
    <2>2. CASE d # <<>>
      <3>1. ~ Covered(s.policy, d)
        <4>1. s.policy \in Policies \cup {{}}
          BY ScanFields
        <4> QED
          BY <4>1, <1>5, CoveredBelow DEF Due
      <3>2. Due(s, t, d)
        BY <2>2, <3>1, <1>6 DEF Due, There
      <3>3. d \notin Missed
        BY <1>4, <1>5
      <3>4. d \in Scan!PathsOf(s.entries)
        BY <3>2, <3>3, <1>6
      <3>5. PICK e \in s.entries : e.path = d
        BY <3>4 DEF Scan!PathsOf
      <3>6. e.kind = "directory"
        BY <3>5, <1>6 DEF EntriesTrue, Describes
      <3> QED
        BY <3>5, <3>6 DEF Reached
    <2> QED
      BY <2>1, <2>2
  <1>8. ~ Waits(s, d) /\ p \notin Scan!PathsOf(s.queue)
    BY DEF Waits, PendingOf, Scan!PathsOf
  <1> QED
    BY <1>5, <1>7, <1>8 DEF NothingLost

\* Another program leaves what is known true.
LEMMA DisturbedTrue ==
  ASSUME Scan!ScanConstants, AllTyped, NEW p \in Paths, Disturbed(p), NEW known \in SUBSET Paths
  PROVE  /\ \A q \in known \ {p} : There(tree', q) <=> There(tree, q)
         /\ StillAbove(tree, known) => StillAbove(tree', known \ {p})
         /\ \A e \in Scan!EntryType : e.path \in known \ {p} /\ Describes(e, tree) => Describes(e, tree')
  <1>1. \A q \in known \ {p} : tree'[q].kind = tree[q].kind /\ tree'[q].content = tree[q].content
    BY DEF Disturbed
  <1>2. ASSUME StillAbove(tree, known), NEW q \in (known \ {p}) \ {<<>>}, There(tree', q)
        PROVE  Up(q) \in known \ {p}
    BY <1>1, <1>2 DEF StillAbove, There, Disturbed
  <1> QED
    BY <1>1, <1>2 DEF There, StillAbove, Describes

LEMMA DisturbedScan ==
  ASSUME Scan!ScanConstants, AllTyped, NEW p \in Paths, Disturbed(p), steady \subseteq Paths,
         ScanTrue(scan, tree, treeChanges, steady, existed), OncePerPath(scan)
  PROVE  ScanTrue(scan', tree', treeChanges', steady', existed')
  <1>1. /\ scan' = scan /\ steady' = steady \ {p} /\ existed \subseteq existed' /\ treeChanges' = treeChanges + 1
        /\ treeChanges \in Nat /\ scan \in Scan!ScanType
    BY DEF Disturbed, AllTyped
  <1>2. /\ \A q \in steady \ {p} : There(tree', q) <=> There(tree, q)
        /\ \A e \in Scan!EntryType : e.path \in steady \ {p} /\ Describes(e, tree) => Describes(e, tree')
    BY DisturbedTrue
  <1>3. scan.entries \subseteq Scan!EntryType /\ scan.queue \subseteq Scan!ItemType
    BY <1>1, ScanFields
  <1>4. EntriesTrue(scan, tree', steady \ {p}, existed')
    BY <1>1, <1>2, <1>3 DEF ScanTrue, EntriesTrue
  <1>5. \A items : ItemsTrue(items, scan.policy, tree, steady)
                     => ItemsTrue(items, scan.policy, tree', steady \ {p})
    BY DEF ItemsTrue, Disturbed
  <1>6. ReadTrue(scan, tree', treeChanges + 1)
    <2> SUFFICES ASSUME scan.step = "hash" PROVE ReadTrue(scan, tree', treeChanges + 1)
      BY DEF ReadTrue
    <2> DEFINE q == NextOf(scan.queue).path
    <2>1. scan.queue # {}
      BY DEF OncePerPath
    <2>2. q \in Paths
      BY <2>1, NextItemIs
    <2> HIDE DEF q
    <2>3. /\ scan.stamp \in 0 .. treeChanges /\ NextOf(scan.queue).kind = "file"
          /\ tree[q].kind = "file" /\ tree[q].stamp = scan.stamp => tree[q].content = scan.chunk
      BY DEF ScanTrue, ReadTrue, q
    <2>4. /\ tree'[q].stamp = scan.stamp
             => tree'[q].kind = tree[q].kind /\ tree'[q].content = tree[q].content
                /\ tree[q].stamp = scan.stamp
      BY <1>1, <2>2, <2>3 DEF Disturbed
    <2> QED
      BY <1>1, <2>3, <2>4 DEF ReadTrue, q
  <1>7. \A q \in steady \ {p} : Due(scan, tree', q) <=> Due(scan, tree, q)
    BY <1>2 DEF Due
  <1>8. NothingLost(scan, tree', steady \ {p}) /\ CompleteSays(scan, tree', steady \ {p})
    BY <1>7 DEF ScanTrue, NothingLost, CompleteSays
  <1> QED
    BY <1>1, <1>4, <1>5, <1>6, <1>8 DEF ScanTrue

\* A scan that will not be complete, or is over, has less to keep.
LEMMA TrueLess ==
  ASSUME ScanTrue(scan, tree, treeChanges, steady, existed),
         scan'.entries = scan.entries, scan'.policy = scan.policy, scan'.queue \subseteq scan.queue,
         \/ scan'.step = "walk" /\ scan'.incomplete = TRUE /\ scan'.outcome = "none"
         \/ scan'.step = "ended" /\ scan'.outcome # "complete"
  PROVE  ScanTrue(scan', tree, treeChanges, steady, existed)
  <1>1. /\ EntriesTrue(scan', tree, steady, existed)
        /\ ItemsTrue(scan'.queue, scan'.policy, tree, steady)
    BY DEF ScanTrue, EntriesTrue, ItemsTrue
  <1>2. ReadTrue(scan', tree, treeChanges) /\ NothingLost(scan', tree, steady)
        /\ CompleteSays(scan', tree, steady)
    BY DEF ReadTrue, NothingLost, CompleteSays
  <1> QED
    BY <1>1, <1>2 DEF ScanTrue

LEMMA AdmitsTrue ==
  ASSUME ScanTrue(scan, tree, treeChanges, steady, existed), scan \in Scan!ScanType,
         scan.step \in {"walk", "hash"}, scan'.policy = scan.policy,
         NEW item \in scan.queue, NEW e, Admits(item, e),
         ~ Covered(scan.policy, item.path), e.kind = "file" => <<e.path, e.digest>> \in existed,
         item.path \in steady => Describes(e, tree),
         \/ scan'.pending = scan.pending /\ e.kind = "file"
         \/ scan'.pending = Append(scan.pending, e.path)
  PROVE  ScanTrue(scan', tree, treeChanges, steady, existed)
  <1>1. /\ scan'.step = "walk" /\ scan'.queue = scan.queue \ {item} /\ e \in Scan!EntryType
        /\ e.path = item.path /\ scan'.entries = scan.entries \cup {e}
        /\ (~ scan'.incomplete => ~ scan.incomplete) /\ scan'.outcome = "none"
    BY DEF Admits, ScanTrue
  <1>2. /\ EntriesTrue(scan', tree, steady, existed)
        /\ ItemsTrue(scan'.queue, scan'.policy, tree, steady)
    BY <1>1 DEF ScanTrue, EntriesTrue, ItemsTrue
  <1>3. PendingOf(scan) \subseteq PendingOf(scan') /\ (e.kind = "directory" => e.path \in PendingOf(scan'))
    <2>1. CASE scan'.pending = scan.pending /\ e.kind = "file"
      BY <2>1 DEF PendingOf
    <2>2. CASE scan'.pending = Append(scan.pending, e.path)
      <3>1. scan.pending \in Seq(Paths) /\ e.path \in Paths
        BY <1>1, ScanFields DEF Scan!EntryType
      <3>2. /\ Len(scan'.pending) = Len(scan.pending) + 1 /\ Len(scan.pending) \in Nat
            /\ scan'.pending[Len(scan.pending) + 1] = e.path
            /\ \A i \in 1 .. Len(scan.pending) : scan'.pending[i] = scan.pending[i]
        BY <2>2, <3>1, AppendProperties, LenProperties
      <3> QED
        BY <3>2 DEF PendingOf
    <2> QED
      BY <2>1, <2>2
  <1>4. NothingLost(scan', tree, steady)
    <2> SUFFICES ASSUME ~ scan'.incomplete, NEW p \in steady, Due(scan', tree, p), Reached(scan', Up(p))
                 PROVE  Waits(scan', Up(p)) \/ p \in Scan!PathsOf(scan'.entries)
                          \/ p \in Scan!PathsOf(scan'.queue)
      BY DEF NothingLost
    <2>1. CASE Reached(scan, Up(p))
      <3>1. Due(scan, tree, p)
        BY DEF Due
      <3>2. Waits(scan, Up(p)) \/ p \in Scan!PathsOf(scan.entries) \/ p \in Scan!PathsOf(scan.queue)
        BY <2>1, <3>1, <1>1 DEF ScanTrue, NothingLost
      <3>3. Waits(scan, Up(p)) => Waits(scan', Up(p))
        BY <1>3 DEF Waits
      <3> QED
        BY <1>1, <3>2, <3>3 DEF Scan!PathsOf
    <2>2. CASE ~ Reached(scan, Up(p))
      <3>1. Up(p) = e.path /\ e.kind = "directory"
        BY <2>2, <1>1 DEF Reached
      <3> QED
        BY <3>1, <1>3 DEF Waits
    <2> QED
      BY <2>1, <2>2
  <1>5. ReadTrue(scan', tree, treeChanges) /\ CompleteSays(scan', tree, steady)
    BY <1>1 DEF ReadTrue, CompleteSays
  <1> QED
    BY <1>1, <1>2, <1>4, <1>5 DEF ScanTrue

\* Whatever is a file now was one since the scan began.
FilesKnown == Scan!FilesOf(tree) \subseteq existed

LEMMA OpenDirectoryTrue ==
  ASSUME Scan!ScanConstants, AllTyped, OncePerPath(scan),
         ScanTrue(scan, tree, treeChanges, steady, existed), Scan!OpenDirectory
  PROVE  ScanTrue(scan', tree, treeChanges, steady, existed)
  <1>1. /\ Goes("walk") /\ scan.queue = {} /\ scan'.queue = {} /\ scan.pending # <<>>
        /\ scan'.pending = Scan!Front(scan.pending)
    BY OpenDirectorySays
  <1>2. CASE Fails
    BY <1>1, <1>2, TrueLess DEF Fails, Goes, ScanTrue
  <1>3. CASE ~ Fails
    <2>1. /\ scan'.step = "list" /\ scan'.dir = Scan!Last(scan.pending) /\ scan'.found = {}
          /\ scan'.incomplete = scan.incomplete /\ scan'.outcome = scan.outcome
          /\ scan'.entries = scan.entries /\ scan'.policy = scan.policy
      BY <1>1, <1>3, OpenDirectorySays DEF Goes
    <2>2. PendingOf(scan) = PendingOf(scan') \cup {scan'.dir}
      BY <1>1, <2>1, OncePopped DEF AllTyped, OncePerPath
    <2>3. \A d : /\ Reached(scan', d) => Reached(scan, d)
                 /\ Waits(scan, d) => Waits(scan', d)
      BY <1>1, <2>1, <2>2 DEF Reached, Waits, Goes
    <2>4. NothingLost(scan', tree, steady)
      BY <1>1, <2>1, <2>3 DEF ScanTrue, NothingLost, Due, Goes
    <2> QED
      BY <1>1, <2>1, <2>4
         DEF ScanTrue, EntriesTrue, ItemsTrue, ReadTrue, CompleteSays, Goes
  <1> QED
    BY <1>2, <1>3

LEMMA ListEntryTrue ==
  ASSUME Scan!ScanConstants, AllTyped, ScanTrue(scan, tree, treeChanges, steady, existed),
         NEW p \in Paths, Scan!ListEntry(p)
  PROVE  ScanTrue(scan', tree, treeChanges, steady, existed)
  <1>1. /\ Goes("list") /\ p \in Unlisted
        /\ scan'.found = scan.found \cup {TakenFor(p)} /\ scan'.step = "list" /\ scan'.dir = scan.dir
        /\ scan'.queue = scan.queue /\ scan'.pending = scan.pending
        /\ scan'.entries = scan.entries /\ scan'.incomplete = scan.incomplete
        /\ scan'.outcome = scan.outcome
    BY ListEntrySays
  <1>2. scan.step = "list" /\ scan'.policy = scan.policy
    BY <1>1 DEF Goes
  <1>3. /\ TakenFor(p).path = p /\ (TakenFor(p).kind = "excluded" <=> Covered(scan.policy, p))
        /\ (TakenFor(p).kind # "excluded" => TakenFor(p).kind = tree[p].kind)
    <2>1. tree[p].kind # "excluded"
      BY DEF AllTyped, TreeOK, NodeType
    <2> QED
      BY <2>1 DEF TakenFor
  <1>4. ItemsTrue(scan'.found, scan'.policy, tree, steady)
    BY <1>1, <1>2, <1>3 DEF ScanTrue, ItemsTrue
  <1>5. NothingLost(scan', tree, steady)
    BY <1>1, <1>2 DEF ScanTrue, NothingLost, Due, Reached, Waits, PendingOf
  <1> QED
    BY <1>1, <1>2, <1>4, <1>5 DEF ScanTrue, EntriesTrue, ReadTrue, CompleteSays

LEMMA CloseDirectoryTrue ==
  ASSUME Scan!ScanConstants, AllTyped, StillAbove(tree, steady),
         ScanTrue(scan, tree, treeChanges, steady, existed), OncePerPath(scan), Scan!CloseDirectory
  PROVE  ScanTrue(scan', tree, treeChanges, steady, existed)
  <1>1. Goes("list") /\ scan'.pending = scan.pending
    BY CloseDirectorySays
  <1>2. CASE Fails /\ scan'.queue = scan.queue
    BY <1>1, <1>2, TrueLess DEF Fails, Goes, ScanTrue
  <1>3. CASE /\ scan'.step = "walk" /\ scan'.queue = scan.found /\ Unlisted = {}
             /\ scan'.incomplete = scan.incomplete /\ scan'.outcome = scan.outcome
             /\ scan'.entries = scan.entries
    <2>1. scan.step = "list" /\ scan'.policy = scan.policy /\ scan.queue = {}
      BY <1>1 DEF Goes, OncePerPath
    <2>2. NothingLost(scan', tree, steady)
      <3> SUFFICES ASSUME ~ scan'.incomplete, NEW p \in steady, Due(scan', tree, p), Reached(scan', Up(p))
                   PROVE  Waits(scan', Up(p)) \/ p \in Scan!PathsOf(scan'.entries)
                            \/ p \in Scan!PathsOf(scan'.queue)
        BY DEF NothingLost
      <3>1. Waits(scan, Up(p)) \/ p \in Scan!PathsOf(scan.entries)
        BY <1>3, <2>1 DEF ScanTrue, NothingLost, Due, Reached, Scan!PathsOf
      <3>2. CASE Up(p) = scan.dir
        <4>1. p \in Paths \ {<<>>} /\ There(tree, p)
          BY DEF StillAbove, Due
        <4> QED
          BY <3>2, <4>1, <1>3 DEF Unlisted
      <3>3. CASE Up(p) # scan.dir
        BY <3>1, <3>3, <1>1, <1>3 DEF Waits, PendingOf
      <3> QED
        BY <3>2, <3>3
    <2> QED
      BY <1>1, <1>3, <2>1, <2>2 DEF ScanTrue, EntriesTrue, ReadTrue, CompleteSays
  <1> QED
    BY <1>2, <1>3, CloseDirectorySays

LEMMA TakeEntryTrue ==
  ASSUME Scan!ScanConstants, AllTyped, ScanTrue(scan, tree, treeChanges, steady, existed), Scan!TakeEntry
  PROVE  ScanTrue(scan', tree, treeChanges, steady, existed)
  <1> DEFINE item == NextOf(scan.queue)
             e == [path |-> item.path, kind |-> "directory", digest |-> <<>>]
  <1>1. Goes("walk") /\ scan.queue # {}
    BY TakeEntrySays
  <1>2. item \in scan.queue
    BY <1>1, NextItemIs
  <1>3. \/ /\ item.kind = "excluded" /\ scan'.step = "walk" /\ scan'.queue = scan.queue \ {item}
           /\ scan'.pending = scan.pending /\ scan'.entries = scan.entries
           /\ scan'.incomplete = scan.incomplete /\ scan'.outcome = scan.outcome
        \/ item.kind = "directory" /\ Admits(item, e) /\ scan'.pending = Append(scan.pending, item.path)
        \/ Fails /\ scan'.queue = scan.queue \ {item}
    BY TakeEntrySays
  <1>4. /\ item.kind = "excluded" <=> Covered(scan.policy, item.path)
        /\ item.kind # "excluded" /\ item.path \in steady => tree[item.path].kind = item.kind
    BY <1>2 DEF ScanTrue, ItemsTrue
  <1>5. e.path = item.path /\ e.kind = "directory" /\ e.digest = <<>>
    OBVIOUS
  <1> HIDE DEF item, e
  <1>6. scan.step = "walk" /\ scan'.policy = scan.policy /\ scan \in Scan!ScanType
    BY <1>1 DEF Goes, AllTyped
  <1>7. CASE /\ item.kind = "excluded" /\ scan'.step = "walk" /\ scan'.queue = scan.queue \ {item}
             /\ scan'.pending = scan.pending /\ scan'.entries = scan.entries
             /\ scan'.incomplete = scan.incomplete /\ scan'.outcome = scan.outcome
    <2>1. NothingLost(scan', tree, steady)
      <3> SUFFICES ASSUME ~ scan'.incomplete, NEW p \in steady, Due(scan', tree, p), Reached(scan', Up(p))
                   PROVE  Waits(scan', Up(p)) \/ p \in Scan!PathsOf(scan'.entries)
                            \/ p \in Scan!PathsOf(scan'.queue)
        BY DEF NothingLost
      <3>1. Waits(scan, Up(p)) \/ p \in Scan!PathsOf(scan.entries) \/ p \in Scan!PathsOf(scan.queue)
        BY <1>6, <1>7 DEF ScanTrue, NothingLost, Due, Reached
      <3>2. p # item.path
        BY <1>4, <1>6, <1>7 DEF Due
      <3> QED
        BY <1>6, <1>7, <3>1, <3>2 DEF Waits, PendingOf, Scan!PathsOf
    <2>2. ItemsTrue(scan'.queue, scan'.policy, tree, steady)
      BY <1>6, <1>7 DEF ScanTrue, ItemsTrue
    <2> QED
      BY <1>6, <1>7, <2>1, <2>2 DEF ScanTrue, EntriesTrue, ReadTrue, CompleteSays
  <1>8. CASE item.kind = "directory" /\ Admits(item, e) /\ scan'.pending = Append(scan.pending, item.path)
    <2>1. ~ Covered(scan.policy, item.path) /\ (item.path \in steady => Describes(e, tree))
      BY <1>4, <1>5, <1>8 DEF Describes
    <2> QED
      BY <1>2, <1>5, <1>6, <1>8, <2>1, AdmitsTrue
  <1>9. CASE Fails /\ scan'.queue = scan.queue \ {item}
    BY <1>6, <1>9, TrueLess DEF Fails, ScanTrue
  <1> QED
    BY <1>3, <1>7, <1>8, <1>9

LEMMA OpenFileTrue ==
  ASSUME Scan!ScanConstants, AllTyped, ScanTrue(scan, tree, treeChanges, steady, existed), Scan!OpenFile
  PROVE  ScanTrue(scan', tree, treeChanges, steady, existed)
  <1> DEFINE item == NextOf(scan.queue)
  <1>1. Goes("walk") /\ scan.queue # {} /\ item.kind = "file"
    BY OpenFileSays
  <1>2. scan.step = "walk" /\ scan'.policy = scan.policy
    BY <1>1 DEF Goes
  <1>3. CASE Fails /\ scan'.queue = scan.queue \ {item}
    BY <1>2, <1>3, TrueLess DEF Fails, ScanTrue
  <1>4. CASE GivesUp
    BY <1>2, <1>4, TrueLess DEF GivesUp
  <1>5. CASE /\ scan'.step = "hash" /\ scan'.queue = scan.queue /\ scan'.pending = scan.pending
             /\ scan'.entries = scan.entries /\ scan'.incomplete = scan.incomplete
             /\ scan'.outcome = scan.outcome /\ scan'.stamp = tree[item.path].stamp
             /\ scan'.chunk = tree[item.path].content
    <2>1. tree[item.path].stamp \in 0 .. treeChanges
      BY <1>1, NextItemIs DEF NodeType
    <2>2. ReadTrue(scan', tree, treeChanges)
      BY <1>1, <1>5, <2>1 DEF ReadTrue
    <2>3. NothingLost(scan', tree, steady)
      BY <1>2, <1>5 DEF ScanTrue, NothingLost, Due, Reached, Waits, PendingOf
    <2> QED
      BY <1>2, <1>5, <2>2, <2>3 DEF ScanTrue, EntriesTrue, ItemsTrue, CompleteSays
  <1> QED
    BY <1>3, <1>4, <1>5, OpenFileSays

LEMMA CloseFileTrue ==
  ASSUME Scan!ScanConstants, AllTyped, FilesKnown, OncePerPath(scan),
         ScanTrue(scan, tree, treeChanges, steady, existed), Scan!CloseFile
  PROVE  ScanTrue(scan', tree, treeChanges, steady, existed)
  <1> DEFINE item == NextOf(scan.queue)
             node == tree[item.path]
             e == [path |-> item.path, kind |-> "file", digest |-> <<scan.chunk, node.content>>]
  <1>1. scan.step = "hash"
    BY DEF Scan!CloseFile
  <1>2. scan.queue # {}
    BY <1>1 DEF OncePerPath
  <1>3. item \in scan.queue /\ item.path \in Paths
    BY <1>2, NextItemIs
  <1>4. /\ Goes("hash") /\ scan'.pending = scan.pending
        /\ \/ Fails /\ scan'.queue = scan.queue \ {item}
           \/ node.kind = "file" /\ node.stamp = scan.stamp /\ Admits(item, e)
    BY <1>2, CloseFileSays
  <1>5. /\ item.kind = "file"
        /\ node.kind = "file" /\ node.stamp = scan.stamp => node.content = scan.chunk
    BY <1>1 DEF ScanTrue, ReadTrue
  <1>6. node.kind = "file" => <<item.path, Scan!Whole(node.content)>> \in existed
    BY <1>3 DEF FilesKnown, Scan!FilesOf
  <1>7. e.path = item.path /\ e.kind = "file" /\ e.digest = <<scan.chunk, node.content>>
    OBVIOUS
  <1>8. node = tree[item.path]
    OBVIOUS
  <1> HIDE DEF item, node, e
  <1>9. scan'.policy = scan.policy /\ scan \in Scan!ScanType
    BY <1>4 DEF Goes, AllTyped
  <1>10. CASE Fails /\ scan'.queue = scan.queue \ {item}
    BY <1>1, <1>9, <1>10, TrueLess DEF Fails, ScanTrue
  <1>11. CASE node.kind = "file" /\ node.stamp = scan.stamp /\ Admits(item, e)
    <2>1. ~ Covered(scan.policy, item.path)
      BY <1>3, <1>5 DEF ScanTrue, ItemsTrue
    <2>2. e.digest = Scan!Whole(node.content)
      BY <1>5, <1>7, <1>11 DEF Scan!Whole
    <2>3. Describes(e, tree)
      BY <1>7, <1>8, <1>11, <2>2 DEF Describes
    <2> QED
      BY <1>1, <1>3, <1>4, <1>6, <1>7, <1>9, <1>11, <2>1, <2>2, <2>3, AdmitsTrue
  <1> QED
    BY <1>4, <1>10, <1>11

LEMMA FinishTrue ==
  ASSUME Scan!ScanConstants, AllTyped, StillAbove(tree, steady),
         ScanTrue(scan, tree, treeChanges, steady, existed), Scan!FinishScan
  PROVE  ScanTrue(scan', tree, treeChanges, steady, existed)
  <1>1. /\ Goes("walk") /\ scan.queue = {} /\ scan.pending = <<>>
        /\ scan'.step = "ended" /\ scan'.queue = scan.queue /\ scan'.pending = scan.pending
        /\ scan'.entries = scan.entries /\ (scan'.outcome = "complete" => ~ scan.incomplete)
    BY FinishSays
  <1>2. scan.step = "walk" /\ scan'.policy = scan.policy /\ scan \in Scan!ScanType /\ TreeOK(tree, treeChanges)
    BY <1>1 DEF Goes, AllTyped
  <1>3. ~ scan.incomplete => \A p \in steady : Due(scan, tree, p) => p \in Scan!PathsOf(scan.entries)
    BY <1>1, <1>2, EverythingReached DEF ScanTrue
  <1>4. CompleteSays(scan', tree, steady)
    BY <1>1, <1>2, <1>3 DEF CompleteSays, Due
  <1> QED
    BY <1>1, <1>2, <1>4 DEF ScanTrue, EntriesTrue, ItemsTrue, ReadTrue, NothingLost

LEMMA StepsKeepTrue ==
  ASSUME Scan!ScanConstants, AllTyped, StillAbove(tree, steady), OncePerPath(scan),
         FilesKnown \/ scan.step = "idle",
         ScanTrue(scan, tree, treeChanges, steady, existed), ScanSteps
  PROVE  /\ ScanTrue(scan', tree, treeChanges, steady, existed)
         /\ \E step \in {"walk", "list", "hash"} : Goes(step)
         /\ scan'.step # "idle"
  <1>1. CASE Scan!OpenDirectory
    BY <1>1, OpenDirectorySays, OpenDirectoryTrue DEF Fails
  <1>2. CASE Scan!Cancel \/ Scan!StopAtEntryLimit
    BY <1>2, StopsSay, TrueLess DEF Goes, GivesUp
  <1>3. ASSUME NEW p \in Paths, Scan!ListEntry(p)
        PROVE  ScanTrue(scan', tree, treeChanges, steady, existed) /\ Goes("list") /\ scan'.step = "list"
    BY <1>3, ListEntrySays, ListEntryTrue
  <1>4. CASE Scan!CloseDirectory
    BY <1>4, CloseDirectorySays, CloseDirectoryTrue DEF Fails
  <1>5. CASE Scan!TakeEntry
    BY <1>5, TakeEntrySays, TakeEntryTrue DEF Fails, Admits
  <1>6. CASE Scan!OpenFile
    BY <1>6, OpenFileSays, OpenFileTrue DEF Fails, GivesUp
  <1>7. CASE Scan!CloseFile
    <2>1. scan.step = "hash"
      BY <1>7 DEF Scan!CloseFile
    <2>2. scan.queue # {} /\ FilesKnown
      BY <2>1 DEF OncePerPath
    <2> QED
      BY <1>7, <2>2, CloseFileSays, CloseFileTrue DEF Fails, Admits
  <1>8. CASE Scan!FinishScan
    BY <1>8, FinishSays, FinishTrue
  <1> QED
    BY <1>1, <1>2, <1>3, <1>4, <1>5, <1>6, <1>7, <1>8 DEF ScanSteps

\* What manifest m says of the paths of known is what tree t has there.
ManifestTrue(m, t, known) ==
  /\ m.entries \subseteq Scan!EntryType
  /\ \A e \in m.entries : ~ Covered(m.policy, e.path) /\ (e.path \in known => Describes(e, t))
  /\ CompleteSays(m, t, known)

\* The first scan's manifest, kept by a later one, is about what it saw.
KeptTrue(t, number, known, still, m) ==
  /\ number = 1 => still = known
  /\ number > 0 => still \subseteq known
  /\ number > 1 => ManifestTrue(m, t, still)

DiffTrue(r, still) ==
  r.diff = "complete" => still \cap (r.added \cup r.removed \cup r.changed) = {}

ScanInv ==
  /\ AllTyped /\ OncePerPath(scan)
  /\ StillAbove(tree, steady) /\ unmoved \subseteq Paths
  /\ scans \in Nat /\ (scans = 0 <=> scan.step = "idle")
  /\ scans > 0 => FilesKnown
  /\ ScanTrue(scan, tree, treeChanges, steady, existed)
  /\ KeptTrue(tree, scans, steady, unmoved, kept)
  /\ DiffTrue(verdict, unmoved)

LEMMA DescribedIsDue ==
  ASSUME NEW m, NEW t, NEW known, ManifestTrue(m, t, known), NEW e \in m.entries, e.path \in known
  PROVE  e \in Scan!EntryType /\ Due(m, t, e.path) /\ Describes(e, t)
  <1>1. e \in Scan!EntryType /\ ~ Covered(m.policy, e.path) /\ Describes(e, t)
    BY DEF ManifestTrue
  <1>2. e.path # <<>> /\ e.kind \in {"file", "directory"}
    BY <1>1 DEF Scan!EntryType, Scan!Root
  <1> QED
    BY <1>1, <1>2 DEF Due, There, Describes

LEMMA ManifestOfScan ==
  ASSUME scan \in Scan!ScanType, ScanTrue(scan, tree, treeChanges, steady, existed)
  PROVE  ManifestTrue(scan, tree, steady)
  BY ScanFields DEF ManifestTrue, ScanTrue, EntriesTrue

LEMMA ManifestAgain ==
  ASSUME NEW m, NEW t, NEW u, NEW known, ManifestTrue(m, t, known), NEW less \in SUBSET known,
         \A q \in less : There(u, q) <=> There(t, q),
         \A e \in Scan!EntryType : e.path \in less /\ Describes(e, t) => Describes(e, u)
  PROVE  ManifestTrue(m, u, less)
  BY DEF ManifestTrue, CompleteSays, Due

\* Two complete manifests under one policy differ only where something moved.
LEMMA SameWhereStill ==
  ASSUME NEW m, NEW n, NEW t, NEW known, ManifestTrue(m, t, known), ManifestTrue(n, t, known),
         m.policy = n.policy, m.outcome = "complete", n.outcome = "complete"
  PROVE  /\ \A p \in known : p \in Scan!PathsOf(m.entries) => p \in Scan!PathsOf(n.entries)
         /\ \A p \in known : p \notin Scan!PathsOf(m.entries \ n.entries)
  <1>1. \A p \in known : Due(m, t, p) => p \in Scan!PathsOf(n.entries)
    BY DEF ManifestTrue, CompleteSays, Due
  <1>2. \A p \in known : p \in Scan!PathsOf(m.entries) => p \in Scan!PathsOf(n.entries)
    BY <1>1, DescribedIsDue DEF Scan!PathsOf
  <1>3. ASSUME NEW e \in m.entries, e.path \in known
        PROVE  e \in n.entries
    <2>1. PICK f \in n.entries : f.path = e.path
      BY <1>2, <1>3 DEF Scan!PathsOf
    <2>2. e \in Scan!EntryType /\ f \in Scan!EntryType /\ Describes(e, t) /\ Describes(f, t)
      BY <1>3, <2>1, DescribedIsDue
    <2>3. e.kind = f.kind /\ e.digest = f.digest
      BY <2>1, <2>2 DEF Describes
    <2>4. e = f
      BY <2>1, <2>2, <2>3 DEF Scan!EntryType
    <2> QED
      BY <2>1, <2>4
  <1> QED
    BY <1>2, <1>3 DEF Scan!PathsOf

LEMMA CompareTrue ==
  ASSUME ScanInv, Scan!Compare
  PROVE  DiffTrue(verdict', unmoved)
  <1>1. /\ scan.step = "ended" /\ scans = 2 /\ scan.policy = kept.policy
        /\ verdict'.added = Scan!PathsOf(scan.entries) \ Scan!PathsOf(kept.entries)
        /\ verdict'.removed = Scan!PathsOf(kept.entries) \ Scan!PathsOf(scan.entries)
        /\ verdict'.changed = Scan!PathsOf(kept.entries \ scan.entries)
                               \cap Scan!PathsOf(scan.entries \ kept.entries)
        /\ verdict'.diff = "complete" => {kept.outcome, scan.outcome} = {"complete"}
    BY DEF Scan!Compare, Scan!Differing
  <1>2. SUFFICES ASSUME verdict'.diff = "complete"
                 PROVE  unmoved \cap (verdict'.added \cup verdict'.removed \cup verdict'.changed) = {}
    BY DEF DiffTrue
  <1>3. kept.outcome = "complete" /\ scan.outcome = "complete"
    BY <1>1, <1>2
  <1>4. ManifestTrue(kept, tree, unmoved) /\ unmoved \subseteq steady
    BY <1>1 DEF ScanInv, KeptTrue
  <1>5. ManifestTrue(scan, tree, unmoved)
    <2>1. ManifestTrue(scan, tree, steady)
      BY ManifestOfScan DEF ScanInv, AllTyped
    <2> QED
      BY <1>4, <2>1 DEF ManifestTrue, CompleteSays
  <1>6. \A p \in unmoved : /\ p \in Scan!PathsOf(scan.entries) <=> p \in Scan!PathsOf(kept.entries)
                           /\ p \notin Scan!PathsOf(kept.entries \ scan.entries)
    BY <1>1, <1>3, <1>4, <1>5, SameWhereStill
  <1> QED
    BY <1>1, <1>6

LEMMA BeginKeeps ==
  ASSUME Scan!ScanConstants, ScanInv, NEW policy \in Policies, NEW limits \in Limits,
         Scan!BeginScan(policy, limits)
  PROVE  ScanInv'
  <1>1. /\ scan' \in Scan!ScanType /\ scan'.policy = policy /\ scan'.step = "walk"
        /\ scan'.pending = <<Scan!Root>> /\ scan'.queue = {} /\ scan'.entries = {}
        /\ scan'.outcome = "none"
    BY BeginSays
  <1>2. /\ scan.step \in {"idle", "ended"} /\ scans' = scans + 1 /\ steady' = Paths
        /\ existed' = Scan!FilesOf(tree) /\ tree' = tree /\ treeChanges' = treeChanges /\ verdict' = verdict
        /\ kept' = (IF scans = 1
                    THEN [outcome |-> scan.outcome, policy |-> scan.policy, entries |-> scan.entries]
                    ELSE kept)
        /\ unmoved' = (IF scans = 0 THEN Paths ELSE unmoved)
        /\ verdict = Scan!NoReport
    BY DEF Scan!BeginScan
  <1>3. AllTyped' /\ OncePerPath(scan')
    BY <1>1, <1>2, OnceBegun DEF ScanInv, AllTyped
  <1>4. StillAbove(tree', steady') /\ unmoved' \subseteq Paths
    BY <1>2, UpIsShorter DEF ScanInv, StillAbove
  <1>5. scans' \in Nat /\ scans' # 0 /\ FilesKnown'
    BY <1>2 DEF ScanInv, FilesKnown, Scan!FilesOf
  <1>6. ScanTrue(scan', tree', treeChanges', steady', existed')
    <2>1. PendingOf(scan') = {<<>>}
      BY <1>1 DEF PendingOf, Scan!Root
    <2>2. NothingLost(scan', tree', steady')
      BY <1>1, <2>1 DEF NothingLost, Reached, Waits
    <2> QED
      BY <1>1, <2>2 DEF ScanTrue, EntriesTrue, ItemsTrue, ReadTrue, CompleteSays
  <1>7. KeptTrue(tree', scans', steady', unmoved', kept')
    <2>1. CASE scans = 0
      BY <1>2, <2>1 DEF KeptTrue
    <2>2. CASE scans = 1
      <3>1. ManifestTrue(scan, tree, unmoved)
        BY <2>2, ManifestOfScan DEF ScanInv, AllTyped, KeptTrue
      <3>2. ManifestTrue(kept', tree, unmoved)
        BY <1>2, <2>2, <3>1 DEF ManifestTrue, CompleteSays, Due
      <3> QED
        BY <1>2, <1>4, <2>2, <3>2 DEF KeptTrue
    <2>3. CASE scans > 1
      BY <1>2, <1>4, <2>3 DEF KeptTrue, ScanInv
    <2> QED
      BY <2>1, <2>2, <2>3 DEF ScanInv
  <1>8. DiffTrue(verdict', unmoved')
    BY <1>2 DEF DiffTrue, Scan!NoReport
  <1> QED
    BY <1>1, <1>3, <1>4, <1>5, <1>6, <1>7, <1>8 DEF ScanInv

LEMMA OthersKeepScan ==
  ASSUME Scan!ScanConstants, ScanInv, OtherPrograms
  PROVE  ScanInv'
  <1>1. treeChanges \in Nat /\ TreeOK(tree, treeChanges) /\ scan \in Scan!ScanType
    BY DEF ScanInv, AllTyped
  <1>2. PICK p \in Paths : Disturbed(p) /\ TreeOK(tree', treeChanges + 1)
    BY <1>1, OthersDisturb
  <1>3. /\ treeChanges < MaxChanges /\ treeChanges' = treeChanges + 1 /\ steady' = steady \ {p}
        /\ unmoved' = unmoved \ {p} /\ existed' = existed \cup Scan!FilesOf(tree')
        /\ scan' = scan /\ scans' = scans /\ kept' = kept /\ verdict' = verdict
    BY <1>2 DEF Disturbed
  <1>4. AllTyped'
    BY <1>1, <1>2, <1>3 DEF AllTyped, Scan!ScanConstants
  <1>5. steady \in SUBSET Paths /\ unmoved \in SUBSET Paths /\ AllTyped
    BY DEF ScanInv, StillAbove
  <1>6. StillAbove(tree', steady')
    BY <1>2, <1>3, <1>5, DisturbedTrue DEF ScanInv
  <1>7. ScanTrue(scan', tree', treeChanges', steady', existed')
    BY <1>2, <1>5, DisturbedScan DEF ScanInv
  <1>8. FilesKnown'
    BY <1>3 DEF FilesKnown, Scan!FilesOf
  <1>9. KeptTrue(tree', scans', steady', unmoved', kept')
    <2>1. scans > 1 => ManifestTrue(kept, tree', unmoved \ {p})
      BY <1>2, <1>5, DisturbedTrue, ManifestAgain DEF ScanInv, KeptTrue
    <2> QED
      BY <1>3, <2>1 DEF ScanInv, KeptTrue
  <1>10. DiffTrue(verdict', unmoved')
    BY <1>3 DEF ScanInv, DiffTrue
  <1> QED
    BY <1>3, <1>4, <1>5, <1>6, <1>7, <1>8, <1>9, <1>10 DEF ScanInv

LEMMA StepsKeepScan ==
  ASSUME Scan!ScanConstants, ScanInv, ScanSteps
  PROVE  ScanInv'
  <1>1. AllTyped' /\ OncePerPath(scan')
    BY StepsKeepOnce DEF ScanInv
  <1>2. /\ ScanTrue(scan', tree, treeChanges, steady, existed) /\ scan'.step # "idle"
        /\ \E step \in {"walk", "list", "hash"} : Goes(step)
    BY StepsKeepTrue DEF ScanInv
  <1>3. /\ scan.step # "idle"
        /\ UNCHANGED <<tree, treeChanges, scans, kept, verdict, steady, unmoved, existed>>
    BY <1>2 DEF Goes
  <1> QED
    BY <1>1, <1>2, <1>3 DEF ScanInv, FilesKnown, Scan!FilesOf

LEMMA NextScan ==
  ASSUME Scan!ScanConstants, ScanInv, [Scan!Next]_(Scan!vars)
  PROVE  ScanInv'
  <1>1. CASE OtherPrograms
    BY <1>1, OthersKeepScan
  <1>2. CASE \E policy \in Policies, limits \in Limits : Scan!BeginScan(policy, limits)
    BY <1>2, BeginKeeps
  <1>3. CASE ScanSteps
    BY <1>3, StepsKeepScan
  <1>4. CASE Scan!Compare
    <2>1. /\ UNCHANGED <<tree, treeChanges, scan, scans, kept, steady, unmoved, existed>>
          /\ DiffTrue(verdict', unmoved)
      BY <1>4, CompareTrue DEF Scan!Compare
    <2> QED
      BY <2>1 DEF ScanInv, AllTyped, FilesKnown, Scan!FilesOf
  <1>5. CASE \E policy \in Policies : Scan!RefusePolicy(policy)
    <2>1. /\ UNCHANGED <<tree, treeChanges, scan, scans, kept, steady, unmoved, existed>>
          /\ verdict'.diff = "none"
      BY <1>5 DEF Scan!RefusePolicy, Scan!NoReport
    <2> QED
      BY <2>1 DEF ScanInv, AllTyped, FilesKnown, Scan!FilesOf, DiffTrue
  <1>6. CASE UNCHANGED Scan!vars
    BY <1>6 DEF Scan!vars, ScanInv, AllTyped, FilesKnown, Scan!FilesOf
  <1> QED
    BY <1>1, <1>2, <1>3, <1>4, <1>5, <1>6 DEF Scan!Next, OtherPrograms, ScanSteps

LEMMA InitScan ==
  ASSUME Scan!ScanConstants, Scan!Init
  PROVE  ScanInv
  <1>1. /\ treeChanges = 0 /\ scans = 0 /\ scan = Scan!NoScan /\ verdict = Scan!NoReport
        /\ steady = {} /\ unmoved = {}
    BY DEF Scan!Init
  <1>2. PICK kinds \in Initial :
          tree = [p \in Paths |-> Scan!Node(kinds[p], IF kinds[p] = "file" THEN 1 ELSE 0, 0)]
    BY DEF Scan!Init
  <1>3. /\ kinds \in [Paths -> {"absent", "file", "directory", "odd"}] /\ 1 \in Content
        /\ \A p \in Paths \ {<<>>} : kinds[p] # "absent" => kinds[Up(p)] = "directory"
    BY DEF Scan!ScanConstants, Scan!Root, Up
  <1>4. \A p \in Paths : tree[p] \in NodeType(0) /\ tree[p].kind = kinds[p]
    BY <1>2, <1>3 DEF NodeType, Scan!Node
  <1>5. tree \in [Paths -> NodeType(0)]
    BY <1>2, <1>4
  <1>6. TreeOK(tree, treeChanges)
    BY <1>1, <1>3, <1>4, <1>5, UpIsShorter DEF TreeOK, There
  <1>7. AllTyped /\ OncePerPath(scan)
    BY <1>1, <1>6, NoScanTyped, OnceNone DEF AllTyped, Scan!ScanConstants
  <1>8. scan.step = "idle" /\ scan.entries = {} /\ scan.queue = {} /\ scan.outcome = "none"
    BY <1>1 DEF Scan!NoScan
  <1>9. ScanTrue(scan, tree, treeChanges, steady, existed)
    BY <1>8 DEF ScanTrue, EntriesTrue, ItemsTrue, ReadTrue, NothingLost, CompleteSays
  <1> QED
    BY <1>1, <1>7, <1>8, <1>9 DEF ScanInv, StillAbove, KeptTrue, DiffTrue, Scan!NoReport

\* The kept manifest and the report hold what they may.
ManifestsTyped == kept \in Scan!ManifestType /\ verdict \in Scan!ReportType

LEMMA ManifestsStayTyped ==
  ASSUME Scan!ScanConstants, ScanInv, ManifestsTyped, [Scan!Next]_(Scan!vars)
  PROVE  ManifestsTyped'
  <1>1. CASE UNCHANGED <<kept, verdict>>
    BY <1>1 DEF ManifestsTyped
  <1>2. ASSUME NEW policy \in Policies, NEW limits \in Limits, Scan!BeginScan(policy, limits)
        PROVE  ManifestsTyped'
    <2>1. [outcome |-> scan.outcome, policy |-> scan.policy, entries |-> scan.entries] \in Scan!ManifestType
      BY ScanFields DEF ScanInv, AllTyped, Scan!ManifestType, Scan!Outcomes
    <2> QED
      BY <1>2, <2>1 DEF Scan!BeginScan, ManifestsTyped
  <1>3. CASE Scan!Compare
    <2>1. kept.entries \subseteq Scan!EntryType /\ scan.entries \subseteq Scan!EntryType
      BY ScanFields DEF ManifestsTyped, Scan!ManifestType, ScanInv, AllTyped
    <2>2. \A entries \in SUBSET Scan!EntryType : Scan!PathsOf(entries) \subseteq Paths
      BY DEF Scan!PathsOf, Scan!EntryType
    <2>3. /\ Scan!PathsOf(kept.entries) \subseteq Paths /\ Scan!PathsOf(scan.entries) \subseteq Paths
          /\ Scan!Differing \subseteq Paths
      <3>1. Scan!PathsOf(kept.entries \ scan.entries) \subseteq Paths
        BY <2>1, <2>2
      <3> QED
        BY <2>1, <2>2, <3>1 DEF Scan!Differing
    <2>4. Scan!Verdict \in {"incomplete", "digest-mismatch", "verified"}
      BY DEF Scan!Verdict
    <2> DEFINE plus == Scan!PathsOf(scan.entries) \ Scan!PathsOf(kept.entries)
               minus == Scan!PathsOf(kept.entries) \ Scan!PathsOf(scan.entries)
               whole == IF {kept.outcome, scan.outcome} = {"complete"} THEN "complete" ELSE "partial"
    <2>5. /\ verdict' = [verdict |-> Scan!Verdict, diff |-> whole, added |-> plus, removed |-> minus,
                         changed |-> Scan!Differing]
          /\ UNCHANGED kept
      BY <1>3 DEF Scan!Compare
    <2>6. plus \in SUBSET Paths /\ minus \in SUBSET Paths /\ whole \in {"partial", "complete"}
      BY <2>3
    <2> HIDE DEF plus, minus, whole
    <2> QED
      BY <2>3, <2>4, <2>5, <2>6 DEF ManifestsTyped, Scan!ReportType
  <1>4. ASSUME NEW policy \in Policies, Scan!RefusePolicy(policy) PROVE ManifestsTyped'
    <2>1. Scan!PolicyVerdict(policy) \in {"policy-required", "unsupported"}
      BY <1>4 DEF Scan!RefusePolicy, Scan!PolicyVerdict
    <2> QED
      BY <1>4, <2>1 DEF Scan!RefusePolicy, Scan!NoReport, ManifestsTyped, Scan!ReportType
  <1>5. CASE OtherPrograms
    BY <1>1, <1>5 DEF OtherPrograms, Scan!Rewrite, Scan!Create, Scan!Delete, Scan!Relink, Scan!Changed
  <1>6. CASE ScanSteps
    BY <1>1, <1>6 DEF ScanSteps, Scan!OpenDirectory, Scan!Cancel, Scan!StopAtEntryLimit, Scan!ListEntry,
       Scan!CloseDirectory, Scan!TakeEntry, Scan!OpenFile, Scan!CloseFile, Scan!FinishScan, Scan!Scanning
  <1> QED
    BY <1>1, <1>2, <1>3, <1>4, <1>5, <1>6 DEF Scan!Next, Scan!vars, OtherPrograms, ScanSteps

LEMMA ScanTypes ==
  ASSUME Scan!ScanConstants, ScanInv, ManifestsTyped
  PROVE  Scan!TypeOK
  <1>1. /\ treeChanges \in 0 .. MaxChanges /\ tree \in [Paths -> NodeType(treeChanges)]
        /\ scan \in Scan!ScanType /\ OncePerPath(scan) /\ steady \subseteq Paths /\ unmoved \subseteq Paths
        /\ scans \in Nat /\ (scan.step = "idle" <=> scans = 0)
    BY DEF ScanInv, AllTyped, TreeOK, StillAbove
  <1>2. NodeType(treeChanges) \subseteq [kind : {"absent", "file", "directory", "odd"},
                                     content : Content \cup {0}, stamp : 0 .. MaxChanges]
    BY <1>1 DEF NodeType, Scan!ScanConstants
  <1>3. tree \in [Paths -> [kind : {"absent", "file", "directory", "odd"},
                            content : Content \cup {0}, stamp : 0 .. MaxChanges]]
    BY <1>1, <1>2
  <1>4. scan.entries \subseteq Scan!EntryType /\ (scan.step = "hash" => scan.queue # {})
    BY <1>1, ScanFields DEF OncePerPath
  <1>5. \A e \in scan.entries : e.path # <<>>
    BY <1>4 DEF Scan!EntryType, Scan!Root
  <1>6. /\ \A e, f \in scan.entries : e.path = f.path => e = f
        /\ \A e \in scan.entries :
             \/ Scan!Front(e.path) = Scan!Root
             \/ \E d \in scan.entries : d.path = Scan!Front(e.path) /\ d.kind = "directory"
    BY <1>1, <1>5, Zenon DEF OncePerPath, OnePathEach, Reached, Up, Scan!Root
  <1> QED
    BY <1>1, <1>3, <1>4, <1>6 DEF Scan!TypeOK, ManifestsTyped

LEMMA ScanAccounts ==
  ASSUME ScanInv
  PROVE  Scan!CompleteAccounts
  <1>1. ManifestTrue(scan, tree, steady)
    BY ManifestOfScan DEF ScanInv, AllTyped
  <1>2. ASSUME scan.outcome = "complete", NEW e \in scan.entries, e.kind = "file"
        PROVE  <<e.path, e.digest>> \in existed
    BY <1>2 DEF ScanInv, ScanTrue, EntriesTrue
  <1>3. ASSUME scan.outcome = "complete", NEW p \in steady \ {Scan!Root}
        PROVE  CASE ~ Scan!Present(p) -> p \notin Scan!PathsOf(scan.entries)
                 [] Scan!Excluded(p) -> p \notin Scan!PathsOf(scan.entries)
                 [] OTHER -> \E e \in scan.entries :
                               /\ e.path = p /\ e.kind = tree[p].kind
                               /\ e.kind = "file" => e.digest = Scan!Whole(tree[p].content)
    <2>1. /\ Scan!Present(p) <=> There(tree, p)
          /\ Scan!Excluded(p) <=> Covered(scan.policy, p)
      BY DEF Scan!Present, There, Scan!Excluded, Covered
    <2>2. p \in Scan!PathsOf(scan.entries) => Due(scan, tree, p)
      BY <1>1, DescribedIsDue DEF Scan!PathsOf
    <2>3. Due(scan, tree, p) =>
            \E e \in scan.entries :
              /\ e.path = p /\ e.kind = tree[p].kind
              /\ e.kind = "file" => e.digest = Scan!Whole(tree[p].content)
      <3>1. Due(scan, tree, p) => \E e \in scan.entries : e.path = p
        BY <1>1, <1>3 DEF ManifestTrue, CompleteSays, Scan!PathsOf
      <3> QED
        BY <1>1, <3>1, DescribedIsDue DEF Describes
    <2>4. Due(scan, tree, p) <=> Scan!Present(p) /\ ~ Scan!Excluded(p)
      BY <2>1 DEF Due, Scan!Root
    <2> QED
      BY <2>2, <2>3, <2>4
  <1>4. verdict.diff = "complete" =>
          unmoved \cap (verdict.added \cup verdict.removed \cup verdict.changed) = {}
    BY DEF ScanInv, DiffTrue
  <1> QED
    BY <1>2, <1>3, <1>4 DEF Scan!CompleteAccounts

(***************************************************************************)
(* For any tree, however often it changes, and any number of scans: what a *)
(* complete manifest says of a path that held still while it was made is   *)
(* what is there, nothing that held still is missing from it unless the    *)
(* policy excludes it, every file it lists had that content at some moment *)
(* of the scan, and a complete diff names only what moved (_walk,          *)
(* scan_path, diff_manifests).                                             *)
(***************************************************************************)
THEOREM ManifestsAccount ==
  ASSUME Scan!ScanConstants
  PROVE  Scan!Spec => [](Scan!TypeOK /\ Scan!CompleteAccounts)
  <1>1. Scan!Init => ScanInv /\ ManifestsTyped
    BY InitScan DEF Scan!Init, ManifestsTyped, Scan!NoManifest, Scan!NoReport, Scan!ManifestType,
       Scan!ReportType, Scan!Outcomes
  <1>2. ScanInv /\ ManifestsTyped /\ [Scan!Next]_(Scan!vars) => ScanInv' /\ ManifestsTyped'
    BY NextScan, ManifestsStayTyped
  <1>3. ScanInv /\ ManifestsTyped => Scan!TypeOK /\ Scan!CompleteAccounts
    BY ScanTypes, ScanAccounts
  <1> QED
    BY <1>1, <1>2, <1>3, PTL DEF Scan!Spec

-----------------------------------------------------------------------------
(***************************************************************************)
(* Archive: one inspection                                                 *)
(***************************************************************************)
PathsOf(c) == {c[i].path : i \in 1 .. Len(c)}

FoldsOf(c) == {Archive!FoldPath(c[i].path) : i \in 1 .. Len(c)}

Codes ==
  {"path-traversal", "duplicate-entry", "case-collision", "path-conflict", "link-entry",
   "unsupported-entry-kind", "encrypted-entry", "unsupported-compression", "decompression-limit",
   "corrupt-entry", "entry-count-limit"}

\* What an inspection of c may have come to.
StateOf(c) ==
  [paths : SUBSET PathsOf(c), folded : SUBSET FoldsOf(c), files : SUBSET PathsOf(c),
   directories : SUBSET PathsOf(c), read : Nat, entries : SUBSET Archive!TreeOf(c),
   diagnostics : SUBSET Codes, stopped : BOOLEAN, index : Nat]

\* In state s nothing is wrong with e.
Accepts(s, e) ==
  /\ ~ s.stopped /\ s.index < MaxEntries
  /\ Archive!EntryRefused(s, e) = "none"
  /\ Archive!FeatureRefused(e) = "none"
  /\ e.kind = "file" => e.reads = "whole" /\ s.read + e.size <= MaxBytes

\* From state s to t, an entry e with which nothing is wrong is noted.
Taken(s, e, t) ==
  /\ t.paths = s.paths \cup {e.path} /\ t.folded = s.folded \cup {Archive!FoldPath(e.path)}
  /\ t.files = IF e.kind = "file" THEN s.files \cup {e.path} ELSE s.files
  /\ t.directories = IF e.kind = "directory" THEN s.directories \cup {e.path} ELSE s.directories
  /\ t.read = s.read + Archive!FileSize(e)
  /\ t.entries = IF e.kind = "file" THEN s.entries \cup {<<e.path, e.size>>} ELSE s.entries
  /\ t.diagnostics = s.diagnostics /\ t.stopped = s.stopped /\ t.index = s.index + 1

LEMMA ContainerFacts ==
  ASSUME Archive!ArchiveConstants, NEW c \in Containers
  PROVE  /\ Len(c) \in Nat /\ DOMAIN c = 1 .. Len(c)
         /\ \A i \in 1 .. Len(c) :
              /\ c[i].kind \in Archive!EntryKinds /\ c[i].size \in Nat
              /\ c[i].path \in PathsOf(c) /\ Archive!FoldPath(c[i].path) \in FoldsOf(c)
              /\ c[i].kind = "file" => <<c[i].path, c[i].size>> \in Archive!TreeOf(c)
  <1>1. Len(c) \in Nat /\ DOMAIN c = 1 .. Len(c)
    BY LenProperties DEF Archive!ArchiveConstants
  <1>2. \A i \in 1 .. Len(c) : c[i].kind \in Archive!EntryKinds /\ c[i].size \in Nat
    BY <1>1 DEF Archive!ArchiveConstants
  <1>3. \A i \in 1 .. Len(c) : c[i].path \in PathsOf(c) /\ Archive!FoldPath(c[i].path) \in FoldsOf(c)
    BY DEF PathsOf, FoldsOf
  <1>4. ASSUME NEW i \in 1 .. Len(c), c[i].kind = "file"
        PROVE  <<c[i].path, c[i].size>> \in Archive!TreeOf(c)
    <2>1. c[i] \in {c[j] : j \in {k \in DOMAIN c : c[k].kind = "file"}}
      BY <1>1, <1>4
    <2> QED
      BY <2>1 DEF Archive!TreeOf
  <1> QED
    BY <1>1, <1>2, <1>3, <1>4

LEMMA StateFields ==
  ASSUME NEW c, NEW s \in StateOf(c)
  PROVE  /\ s.paths \in SUBSET PathsOf(c) /\ s.folded \in SUBSET FoldsOf(c) /\ s.files \in SUBSET PathsOf(c)
         /\ s.directories \in SUBSET PathsOf(c) /\ s.read \in Nat
         /\ s.entries \in SUBSET Archive!TreeOf(c) /\ s.diagnostics \in SUBSET Codes
         /\ s.stopped \in BOOLEAN /\ s.index \in Nat
  BY DEF StateOf

LEMMA DiagnoseTyped ==
  ASSUME NEW c, NEW s \in StateOf(c), NEW code \in Codes
  PROVE  /\ Archive!Diagnose(s, code) \in StateOf(c) /\ Archive!Stop(s, code) \in StateOf(c)
         /\ Archive!Diagnose(s, code).diagnostics = s.diagnostics \cup {code}
         /\ Archive!Stop(s, code).diagnostics = s.diagnostics \cup {code}
  <1> DEFINE d == Archive!Diagnose(s, code)
  <1>1. s.diagnostics \cup {code} \in SUBSET Codes
    BY StateFields
  <1>2. d \in StateOf(c) /\ d.diagnostics = s.diagnostics \cup {code}
    BY <1>1 DEF Archive!Diagnose, StateOf
  <1> HIDE DEF d
  <1>3. [d EXCEPT !.stopped = TRUE] \in StateOf(c) /\ [d EXCEPT !.stopped = TRUE].diagnostics = d.diagnostics
    BY <1>2 DEF StateOf
  <1> QED
    BY <1>2, <1>3 DEF Archive!Stop, d

LEMMA RefusalCodes ==
  ASSUME NEW s, NEW e
  PROVE  /\ Archive!EntryRefused(s, e) \in Codes \cup {"none"}
         /\ Archive!FeatureRefused(e) \in Codes \cup {"none"}
  BY DEF Archive!EntryRefused, Archive!FeatureRefused, Codes

\* Each turn of the loop either takes the entry, or says what is wrong.
Turned(c, e, s, t) ==
  /\ t \in StateOf(c)
  /\ s.diagnostics \subseteq t.diagnostics
  /\ Accepts(s, e) => Taken(s, e, t)
  /\ ~ s.stopped /\ ~ Accepts(s, e) => t.diagnostics # {}

LEMMA Objecting ==
  ASSUME NEW c, NEW e, NEW s, NEW t \in StateOf(c), NEW code,
         t.diagnostics = s.diagnostics \cup {code}, ~ Accepts(s, e)
  PROVE  Turned(c, e, s, t)
  BY DEF Turned

LEMMA Taking ==
  ASSUME NEW c, NEW e, NEW s, NEW t \in StateOf(c), Taken(s, e, t), Accepts(s, e)
  PROVE  Turned(c, e, s, t)
  BY DEF Turned, Taken

LEMMA OneEntry ==
  ASSUME Archive!ArchiveConstants, NEW c \in Containers, NEW i \in 1 .. Len(c), NEW s \in StateOf(c)
  PROVE  Turned(c, c[i], s, Archive!InspectEntry(c[i], s))
  <1> DEFINE e == c[i]
             state == [s EXCEPT !.index = @ + 1]
             result == Archive!InspectEntry(e, s)
             dirs == IF e.kind = "directory" THEN s.directories \cup {e.path} ELSE s.directories
             named == Archive!Named(state, e)
             filed == [named EXCEPT !.files = @ \cup {e.path}]
  <1>1. /\ e.kind \in Archive!EntryKinds /\ e.size \in Nat
        /\ e.path \in PathsOf(c) /\ Archive!FoldPath(e.path) \in FoldsOf(c)
        /\ e.kind = "file" => <<e.path, e.size>> \in Archive!TreeOf(c)
    BY ContainerFacts
  <1> SUFFICES Turned(c, e, s, result)
    OBVIOUS
  <1> HIDE DEF e
  <1>2. /\ s.index + 1 \in Nat
        /\ state.paths = s.paths /\ state.folded = s.folded /\ state.files = s.files
        /\ state.directories = s.directories /\ state.read = s.read /\ state.entries = s.entries
        /\ state.diagnostics = s.diagnostics /\ state.stopped = s.stopped /\ state.index = s.index + 1
    BY StateFields DEF StateOf
  <1>3. state \in StateOf(c)
    BY <1>2 DEF StateOf
  <1> HIDE DEF state
  <1>4. Archive!EntryRefused(state, e) = Archive!EntryRefused(s, e)
    BY <1>2 DEF Archive!EntryRefused, Archive!Conflicts
  <1>5. /\ named.paths = s.paths \cup {e.path} /\ named.folded = s.folded \cup {Archive!FoldPath(e.path)}
        /\ named.files = s.files /\ named.directories = dirs /\ named.read = s.read
        /\ named.entries = s.entries /\ named.diagnostics = s.diagnostics /\ named.stopped = s.stopped
        /\ named.index = s.index + 1
    BY <1>2, <1>3 DEF Archive!Named, StateOf
  <1>6. /\ s.paths \cup {e.path} \in SUBSET PathsOf(c)
        /\ s.folded \cup {Archive!FoldPath(e.path)} \in SUBSET FoldsOf(c)
        /\ s.files \cup {e.path} \in SUBSET PathsOf(c)
        /\ dirs \in SUBSET PathsOf(c)
    BY <1>1, StateFields
  <1>7. named \in StateOf(c)
    BY <1>2, <1>3, <1>6 DEF Archive!Named, StateOf
  <1> HIDE DEF dirs, named
  <1>8. /\ filed.paths = named.paths /\ filed.folded = named.folded /\ filed.files = s.files \cup {e.path}
        /\ filed.directories = dirs /\ filed.read = s.read /\ filed.entries = s.entries
        /\ filed.diagnostics = s.diagnostics /\ filed.stopped = s.stopped /\ filed.index = s.index + 1
    BY <1>5, <1>7 DEF StateOf
  <1>9. filed \in StateOf(c)
    BY <1>5, <1>6, <1>7 DEF StateOf
  <1>10. named.diagnostics = s.diagnostics /\ filed.diagnostics = s.diagnostics /\ filed.read = s.read
         /\ state.diagnostics = s.diagnostics
    BY <1>2, <1>5, <1>8
  <1> HIDE DEF filed, result
  <1>11. CASE s.stopped
    <2>1. result = s
      BY <1>11 DEF result, Archive!InspectEntry
    <2> QED
      BY <1>11, <2>1 DEF Turned, Accepts
  <1>12. CASE ~ s.stopped /\ ~ (s.index < MaxEntries)
    <2>1. result = Archive!Stop(s, "entry-count-limit")
      BY <1>12, StateFields DEF result, Archive!InspectEntry, Archive!ArchiveConstants
    <2> QED
      BY <1>12, <2>1, DiagnoseTyped DEF Turned, Accepts, Codes
  <1>13. CASE ~ s.stopped /\ s.index < MaxEntries /\ Archive!EntryRefused(s, e) # "none"
    <2>1. result = Archive!Diagnose(state, Archive!EntryRefused(s, e))
      BY <1>4, <1>13, StateFields DEF result, Archive!InspectEntry, Archive!ArchiveConstants, state
    <2>2. Archive!EntryRefused(s, e) \in Codes
      BY <1>13, RefusalCodes
    <2>3. result \in StateOf(c) /\ result.diagnostics = s.diagnostics \cup {Archive!EntryRefused(s, e)}
      BY <1>3, <1>10, <2>1, <2>2, DiagnoseTyped
    <2>4. ~ Accepts(s, e)
      BY <1>13 DEF Accepts
    <2> QED
      BY <2>3, <2>4, Objecting
  <1>14. CASE /\ ~ s.stopped /\ s.index < MaxEntries /\ Archive!EntryRefused(s, e) = "none"
              /\ Archive!FeatureRefused(e) # "none"
    <2>1. result = Archive!Diagnose(named, Archive!FeatureRefused(e))
      BY <1>4, <1>14, StateFields DEF result, Archive!InspectEntry, Archive!ArchiveConstants, state, named
    <2>2. Archive!FeatureRefused(e) \in Codes
      BY <1>14, RefusalCodes
    <2>3. result \in StateOf(c) /\ result.diagnostics = s.diagnostics \cup {Archive!FeatureRefused(e)}
      BY <1>7, <1>10, <2>1, <2>2, DiagnoseTyped
    <2>4. ~ Accepts(s, e)
      BY <1>14 DEF Accepts
    <2> QED
      BY <2>3, <2>4, Objecting
  <1>15. CASE /\ ~ s.stopped /\ s.index < MaxEntries /\ Archive!EntryRefused(s, e) = "none"
              /\ Archive!FeatureRefused(e) = "none" /\ e.kind = "directory"
    <2>1. result = named
      BY <1>4, <1>15, StateFields DEF result, Archive!InspectEntry, Archive!ArchiveConstants, state, named
    <2>2. /\ e.kind # "file" /\ e.kind = "directory" /\ Archive!FileSize(e) = 0 /\ s.read + 0 = s.read
          /\ dirs = s.directories \cup {e.path}
      BY <1>15, StateFields DEF Archive!FileSize, dirs
    <2>4. Taken(s, e, named)
      BY <1>5, <2>2 DEF Taken
    <2>3. Accepts(s, e)
      BY <1>15 DEF Accepts
    <2> QED
      BY <1>7, <2>1, <2>3, <2>4, Taking
  <1>16. CASE /\ ~ s.stopped /\ s.index < MaxEntries /\ Archive!EntryRefused(s, e) = "none"
              /\ Archive!FeatureRefused(e) = "none" /\ e.kind # "directory"
    <2>1. result = Archive!Filed(named, e)
      BY <1>4, <1>16, StateFields DEF result, Archive!InspectEntry, Archive!ArchiveConstants, state, named
    <2>2. e.kind = "file"
      BY <1>1, <1>16 DEF Archive!FeatureRefused, Archive!EntryKinds
    <2>3. CASE e.reads = "unsupported-compression"
      <3>1. result = Archive!Diagnose(filed, "unsupported-compression")
        BY <2>1, <2>3 DEF Archive!Filed, filed
      <3>2. result \in StateOf(c) /\ result.diagnostics = s.diagnostics \cup {"unsupported-compression"}
        BY <1>9, <1>10, <3>1, DiagnoseTyped DEF Codes
      <3>3. ~ Accepts(s, e)
        BY <2>2, <2>3 DEF Accepts
      <3> QED
        BY <3>2, <3>3, Objecting
    <2>4. CASE e.reads # "unsupported-compression" /\ s.read + e.size > MaxBytes
      <3>1. result = Archive!Stop(filed, "decompression-limit")
        BY <1>10, <2>1, <2>4 DEF Archive!Filed, filed
      <3>2. ~ Accepts(s, e)
        BY <1>1, <2>2, <2>4, StateFields DEF Accepts, Archive!ArchiveConstants
      <3>3. result \in StateOf(c) /\ result.diagnostics = s.diagnostics \cup {"decompression-limit"}
        BY <1>9, <1>10, <3>1, DiagnoseTyped DEF Codes
      <3> QED
        BY <3>2, <3>3, Objecting
    <2>5. CASE e.reads \notin {"unsupported-compression", "whole"} /\ ~ (s.read + e.size > MaxBytes)
      <3>1. result = Archive!Stop(filed, "corrupt-entry")
        BY <1>10, <2>1, <2>5 DEF Archive!Filed, filed
      <3>2. result \in StateOf(c) /\ result.diagnostics = s.diagnostics \cup {"corrupt-entry"}
        BY <1>9, <1>10, <3>1, DiagnoseTyped DEF Codes
      <3>3. ~ Accepts(s, e)
        BY <2>2, <2>5 DEF Accepts
      <3> QED
        BY <3>2, <3>3, Objecting
    <2>6. CASE e.reads = "whole" /\ ~ (s.read + e.size > MaxBytes)
      <3>1. result = [filed EXCEPT !.read = @ + e.size, !.entries = @ \cup {<<e.path, e.size>>}]
        BY <1>10, <2>1, <2>6 DEF Archive!Filed, filed
      <3>2. s.read + e.size <= MaxBytes /\ s.read + e.size \in Nat
        BY <1>1, <2>6, StateFields DEF Archive!ArchiveConstants
      <3>3. Accepts(s, e)
        BY <1>16, <2>6, <3>2 DEF Accepts
      <3>4. s.entries \cup {<<e.path, e.size>>} \in SUBSET Archive!TreeOf(c)
        BY <1>1, <2>2, StateFields
      <3>5. result \in StateOf(c)
        BY <1>8, <1>9, <3>1, <3>2, <3>4 DEF StateOf
      <3>6. /\ result.paths = named.paths /\ result.folded = named.folded /\ result.files = s.files \cup {e.path}
            /\ result.directories = dirs /\ result.read = s.read + e.size
            /\ result.entries = s.entries \cup {<<e.path, e.size>>}
            /\ result.diagnostics = s.diagnostics /\ result.stopped = s.stopped /\ result.index = s.index + 1
        BY <1>8, <1>9, <3>1 DEF StateOf
      <3>7. Taken(s, e, result)
        BY <1>5, <2>2, <3>6 DEF Taken, Archive!FileSize, dirs
      <3> QED
        BY <3>3, <3>5, <3>7, Taking
    <2> QED
      BY <2>3, <2>4, <2>5, <2>6
  <1> QED
    BY <1>11, <1>12, <1>13, <1>14, <1>15, <1>16

LooksThrough(g, c) ==
  /\ g \in [0 .. Len(c) -> StateOf(c)]
  /\ g[0] = Archive!Begun
  /\ \A n \in 1 .. Len(c) : g[n] = Archive!InspectEntry(c[n], g[n - 1])

LEMMA LookedLoops ==
  ASSUME Archive!ArchiveConstants, NEW c \in Containers
  PROVE  \E g : LooksThrough(g, c) /\ Archive!Looked(c) = g[Len(c)]
  <1> DEFINE Runs(h) == h = [n \in 0 .. Len(c) |->
                              IF n = 0 THEN Archive!Begun ELSE Archive!InspectEntry(c[n], h[n - 1])]
             g == CHOOSE h : Runs(h)
             next == [z \in (1 .. Len(c)) \X StateOf(c) |-> Archive!InspectEntry(c[z[1]], z[2])]
  <1>1. Len(c) \in Nat /\ Archive!Begun \in StateOf(c)
    BY ContainerFacts DEF StateOf, Archive!Begun
  <1>2. next \in [(1 .. Len(c)) \X StateOf(c) -> StateOf(c)]
    BY OneEntry DEF Turned
  <1>3. \E h : Runs(h) /\ h \in [0 .. Len(c) -> StateOf(c)]
    <2> HIDE DEF next, Runs
    <2>1. PICK h : LoopOf(h, StateOf(c), Archive!Begun, next, Len(c))
      BY <1>1, <1>2, LoopExists
    <2> USE DEF next
    <2>2. ASSUME NEW n \in 0 .. Len(c), n # 0
          PROVE  next[<<n, h[n - 1]>>] = Archive!InspectEntry(c[n], h[n - 1])
      <3>1. n \in 1 .. Len(c) /\ n - 1 \in 0 .. Len(c)
        BY <1>1, <2>2
      <3>2. <<n, h[n - 1]>> \in (1 .. Len(c)) \X StateOf(c)
        BY <2>1, <3>1 DEF LoopOf
      <3> QED
        BY <3>2
    <2> HIDE DEF next
    <2>3. h = [n \in 0 .. Len(c) |->
                IF n = 0 THEN Archive!Begun ELSE Archive!InspectEntry(c[n], h[n - 1])]
      BY <2>1, <2>2 DEF LoopOf
    <2>4. h \in [0 .. Len(c) -> StateOf(c)]
      BY <2>1 DEF LoopOf
    <2> QED
      BY <2>3, <2>4 DEF Runs
  <1>4. Runs(g) /\ Archive!Looked(c) = g[Len(c)]
    BY <1>3 DEF Archive!Looked
  <1> HIDE DEF g
  <1>5. \A n \in 0 .. Len(c) :
          g[n] = IF n = 0 THEN Archive!Begun ELSE Archive!InspectEntry(c[n], g[n - 1])
    BY <1>4
  <1>6. \A n \in 1 .. Len(c) : n \in 0 .. Len(c) /\ n # 0 /\ n - 1 \in 0 .. Len(c)
    BY <1>1
  <1>7. g[0] = Archive!Begun /\ \A n \in 1 .. Len(c) : g[n] = Archive!InspectEntry(c[n], g[n - 1])
    BY <1>1, <1>5, <1>6
  <1>8. \A n \in 0 .. Len(c) : g[n] \in StateOf(c)
    BY <1>1, <1>7, StaysIn, OneEntry DEF Turned
  <1>9. g \in [0 .. Len(c) -> StateOf(c)]
    BY <1>4, <1>8
  <1> QED
    BY <1>4, <1>7, <1>9 DEF LooksThrough

\* The sizes of c's prefixes.
Sizes(z, c) ==
  /\ z \in [0 .. Len(c) -> Nat]
  /\ z[0] = 0
  /\ \A n \in 1 .. Len(c) : z[n] = z[n - 1] + Archive!FileSize(c[n])

LEMMA SizeLoops ==
  ASSUME Archive!ArchiveConstants, NEW c \in Containers
  PROVE  \E z : Sizes(z, c) /\ Archive!Size(c) = z[Len(c)]
  <1> DEFINE Runs(h) == h = [n \in 0 .. Len(c) |-> IF n = 0 THEN 0 ELSE h[n - 1] + Archive!FileSize(c[n])]
             g == CHOOSE h : Runs(h)
             next == [z \in (1 .. Len(c)) \X Nat |-> z[2] + Archive!FileSize(c[z[1]])]
  <1>1. Len(c) \in Nat /\ 0 \in Nat /\ \A n \in 1 .. Len(c) : Archive!FileSize(c[n]) \in Nat
    BY ContainerFacts DEF Archive!FileSize
  <1>2. next \in [(1 .. Len(c)) \X Nat -> Nat]
    BY <1>1
  <1>3. \E h : Runs(h)
    <2> HIDE DEF next, Runs
    <2>1. PICK h : LoopOf(h, Nat, 0, next, Len(c))
      BY <1>1, <1>2, LoopExists
    <2> USE DEF next
    <2>2. ASSUME NEW n \in 0 .. Len(c), n # 0
          PROVE  next[<<n, h[n - 1]>>] = h[n - 1] + Archive!FileSize(c[n])
      <3>1. n \in 1 .. Len(c) /\ n - 1 \in 0 .. Len(c)
        BY <1>1, <2>2
      <3>2. <<n, h[n - 1]>> \in (1 .. Len(c)) \X Nat
        BY <2>1, <3>1 DEF LoopOf
      <3> QED
        BY <3>2
    <2> HIDE DEF next
    <2>3. h = [n \in 0 .. Len(c) |-> IF n = 0 THEN 0 ELSE h[n - 1] + Archive!FileSize(c[n])]
      BY <2>1, <2>2 DEF LoopOf
    <2> QED
      BY <2>3 DEF Runs
  <1>4. Runs(g) /\ Archive!Size(c) = g[Len(c)]
    BY <1>3 DEF Archive!Size
  <1> HIDE DEF g
  <1>5. \A n \in 0 .. Len(c) : g[n] = IF n = 0 THEN 0 ELSE g[n - 1] + Archive!FileSize(c[n])
    BY <1>4
  <1>6. \A n \in 1 .. Len(c) : n \in 0 .. Len(c) /\ n # 0 /\ n - 1 \in 0 .. Len(c)
    BY <1>1
  <1>7. g[0] = 0 /\ \A n \in 1 .. Len(c) : g[n] = g[n - 1] + Archive!FileSize(c[n])
    BY <1>1, <1>5, <1>6
  <1>8. \A n \in 0 .. Len(c) : g[n] \in Nat
    <2>1. g[0] \in Nat /\ \A n \in 1 .. Len(c) : g[n - 1] \in Nat => g[n] \in Nat
      BY <1>1, <1>7
    <2> QED
      BY <1>1, <2>1, StaysIn
  <1>9. g \in [0 .. Len(c) -> Nat]
    BY <1>4, <1>8
  <1> QED
    BY <1>4, <1>7, <1>9 DEF Sizes

\* An entry a careful reader takes, and two entries that do not touch.
Fine(e) ==
  /\ e.safe /\ e.kind \in {"file", "directory"} /\ ~ e.encrypted
  /\ e.kind = "file" => e.reads = "whole"

Apart(d, e) ==
  /\ Archive!FoldPath(d.path) # Archive!FoldPath(e.path)
  /\ d.kind = "file" => ~ Archive!Below(d.path, e.path)

\* The first n entries of c would be a safe container.
Harmless(c, z, n) ==
  /\ n <= MaxEntries /\ z[n] <= MaxBytes
  /\ \A i \in 1 .. n : Fine(c[i]) /\ \A j \in 1 .. n : j # i => Apart(c[i], c[j])

Those(c, n, kind) == {i \in 1 .. n : c[i].kind = kind}

\* State s holds the first n entries of c.
Holds(s, c, z, n) ==
  /\ ~ s.stopped /\ s.index = n /\ s.read = z[n]
  /\ s.paths = {c[i].path : i \in 1 .. n}
  /\ s.folded = {Archive!FoldPath(c[i].path) : i \in 1 .. n}
  /\ s.files = {c[i].path : i \in Those(c, n, "file")}
  /\ s.directories = {c[i].path : i \in Those(c, n, "directory")}
  /\ s.entries = {<<c[i].path, c[i].size>> : i \in Those(c, n, "file")}

\* After n turns nothing is wrong exactly when nothing is, and then all is noted.
LookedOK(s, c, z, n) ==
  /\ s.diagnostics = {} <=> Harmless(c, z, n)
  /\ s.diagnostics = {} => Holds(s, c, z, n)

LEMMA NothingLooked ==
  ASSUME Archive!ArchiveConstants, NEW c \in Containers, NEW z, Sizes(z, c)
  PROVE  LookedOK(Archive!Begun, c, z, 0)
  BY DEF LookedOK, Harmless, Holds, Those, Archive!Begun, Sizes, Archive!ArchiveConstants

\* With n entries held and nothing wrong, the next is taken just when it is
\* harmless too.
LEMMA AcceptsHarmless ==
  ASSUME Archive!ArchiveConstants, NEW c \in Containers, NEW z, Sizes(z, c), NEW n \in 1 .. Len(c),
         NEW s \in StateOf(c), Harmless(c, z, n - 1), Holds(s, c, z, n - 1)
  PROVE  Accepts(s, c[n]) <=> Harmless(c, z, n)
  <1> DEFINE e == c[n]
             m == n - 1
  <1>1. /\ m \in Nat /\ n \in Nat /\ m + 1 = n /\ m < n /\ n \in 1 .. n
        /\ \A i \in 1 .. n : i = n \/ i \in 1 .. m
        /\ \A i \in 1 .. m : i \in 1 .. n /\ i # n
        /\ \A i \in 1 .. n : i \in 1 .. Len(c)
    BY ContainerFacts
  <1>2. /\ e.kind \in Archive!EntryKinds /\ e.size \in Nat
        /\ z[n] = z[m] + Archive!FileSize(e) /\ z[m] \in Nat /\ z[m] <= MaxBytes
        /\ m \in 0 .. Len(c)
    <2>1. m \in 0 .. Len(c) /\ z[n] = z[m] + Archive!FileSize(e)
      BY ContainerFacts DEF Sizes
    <2>2. z[m] \in Nat /\ z[m] <= MaxBytes
      BY <2>1 DEF Sizes, Harmless
    <2> QED
      BY <2>1, <2>2, ContainerFacts
  <1>3. \A i \in 1 .. m : Fine(c[i]) /\ \A j \in 1 .. m : j # i => Apart(c[i], c[j])
    BY DEF Harmless
  <1> HIDE DEF e, m
  <1>4. s.index < MaxEntries <=> n <= MaxEntries
    BY <1>1 DEF Holds, Archive!ArchiveConstants, m
  <1>5. /\ ~ s.stopped /\ s.read = z[m]
        /\ s.paths = {c[i].path : i \in 1 .. m}
        /\ s.folded = {Archive!FoldPath(c[i].path) : i \in 1 .. m}
        /\ s.files = {c[i].path : i \in Those(c, m, "file")}
        /\ s.directories = {c[i].path : i \in Those(c, m, "directory")}
    BY DEF Holds, m
  <1>6. \A i \in 1 .. m : c[i].kind = "file" \/ c[i].kind = "directory"
    BY <1>3 DEF Fine
  <1>7. ASSUME Accepts(s, e)
        PROVE  Harmless(c, z, n)
    <2>1. /\ e.safe /\ e.path \notin s.paths /\ Archive!FoldPath(e.path) \notin s.folded
          /\ ~ Archive!Conflicts(s, e)
      BY <1>7 DEF Accepts, Archive!EntryRefused
    <2>2. e.kind \in {"file", "directory"} /\ ~ e.encrypted /\ (e.kind = "file" => e.reads = "whole")
      BY <1>2, <1>7 DEF Accepts, Archive!FeatureRefused, Archive!EntryKinds
    <2>3. z[n] <= MaxBytes
      <3>1. CASE e.kind = "file"
        BY <1>2, <1>5, <1>7, <3>1 DEF Accepts, Archive!FileSize
      <3>2. CASE e.kind # "file"
        BY <1>2, <3>2 DEF Archive!FileSize
      <3> QED
        BY <3>1, <3>2
    <2>4. ASSUME NEW i \in 1 .. m
          PROVE  Apart(c[i], e) /\ Apart(e, c[i])
      <3>1. Archive!FoldPath(c[i].path) # Archive!FoldPath(e.path)
        BY <1>5, <2>1
      <3>2. ASSUME c[i].kind = "file" PROVE ~ Archive!Below(c[i].path, e.path)
        <4>1. c[i].path \in s.files
          BY <1>5, <3>2 DEF Those
        <4> QED
          BY <2>1, <4>1 DEF Archive!Conflicts
      <3>3. ASSUME e.kind = "file" PROVE ~ Archive!Below(e.path, c[i].path)
        <4>1. c[i].path \in s.files \cup s.directories
          BY <1>5, <1>6 DEF Those
        <4> QED
          BY <2>1, <3>3, <4>1 DEF Archive!Conflicts
      <3> QED
        BY <3>1, <3>2, <3>3 DEF Apart
    <2>5. Fine(e)
      BY <2>1, <2>2 DEF Fine
    <2>6. n <= MaxEntries
      BY <1>4, <1>7 DEF Accepts
    <2>7. c[n] = e
      BY DEF e
    <2>8. ASSUME NEW i \in 1 .. n, NEW j \in 1 .. n, j # i
          PROVE  Fine(c[i]) /\ Apart(c[i], c[j])
      <3>1. CASE i = n
        BY <1>1, <2>4, <2>5, <2>7, <2>8, <3>1
      <3>2. CASE i # n
        BY <1>1, <1>3, <2>4, <2>7, <2>8, <3>2
      <3> QED
        BY <3>1, <3>2
    <2>9. \A i \in 1 .. n : Fine(c[i])
      BY <1>1, <1>3, <2>5, <2>7
    <2> QED
      BY <2>3, <2>6, <2>8, <2>9 DEF Harmless
  <1>8. ASSUME Harmless(c, z, n)
        PROVE  Accepts(s, e)
    <2>1. Fine(e) /\ \A i \in 1 .. m : Apart(c[i], e) /\ Apart(e, c[i])
      BY <1>1, <1>8 DEF Harmless, e
    <2>2. e.safe /\ Archive!FeatureRefused(e) = "none" /\ (e.kind = "file" => e.reads = "whole")
      BY <2>1 DEF Fine, Archive!FeatureRefused
    <2>3. Archive!FoldPath(e.path) \notin s.folded
      BY <1>5, <2>1 DEF Apart
    <2>4. e.path \notin s.paths
      BY <1>5, <2>1 DEF Apart
    <2>5. ASSUME NEW f \in s.files PROVE ~ Archive!Below(f, e.path)
      <3>1. PICK i \in 1 .. m : c[i].kind = "file" /\ f = c[i].path
        BY <1>5, <2>5 DEF Those
      <3> QED
        BY <2>1, <3>1 DEF Apart
    <2>6. ASSUME e.kind = "file", NEW p \in s.files \cup s.directories PROVE ~ Archive!Below(e.path, p)
      <3>1. PICK i \in 1 .. m : p = c[i].path
        BY <1>5, <2>6 DEF Those
      <3> QED
        BY <2>1, <2>6, <3>1 DEF Apart
    <2>7. ~ Archive!Conflicts(s, e)
      BY <2>5, <2>6 DEF Archive!Conflicts
    <2>8. Archive!EntryRefused(s, e) = "none"
      BY <2>2, <2>3, <2>4, <2>7 DEF Archive!EntryRefused
    <2>9. s.index < MaxEntries /\ z[n] <= MaxBytes
      BY <1>4, <1>8 DEF Harmless
    <2>10. e.kind = "file" => s.read + e.size <= MaxBytes
      BY <1>2, <1>5, <2>9 DEF Archive!FileSize
    <2> QED
      BY <1>5, <2>2, <2>8, <2>9, <2>10 DEF Accepts
  <1> QED
    BY <1>7, <1>8 DEF e

LEMMA HarmlessBefore ==
  ASSUME Archive!ArchiveConstants, NEW c \in Containers, NEW z, Sizes(z, c), NEW n \in 1 .. Len(c), Harmless(c, z, n)
  PROVE  Harmless(c, z, n - 1)
  <1>1. /\ n - 1 <= n /\ n - 1 \in 0 .. Len(c) /\ n \in Nat
        /\ \A i \in 1 .. n - 1 : i \in 1 .. n
    BY ContainerFacts
  <1>2. Archive!FileSize(c[n]) \in Nat /\ z[n] = z[n - 1] + Archive!FileSize(c[n]) /\ z[n - 1] \in Nat
    BY <1>1, ContainerFacts DEF Sizes, Archive!FileSize
  <1>3. z[n - 1] <= MaxBytes /\ n - 1 <= MaxEntries
    BY <1>1, <1>2 DEF Harmless, Archive!ArchiveConstants
  <1> QED
    BY <1>1, <1>3 DEF Harmless

LEMMA OneMoreHeld ==
  ASSUME Archive!ArchiveConstants, NEW c \in Containers, NEW z, Sizes(z, c), NEW n \in 1 .. Len(c), NEW s, NEW t,
         Holds(s, c, z, n - 1), Taken(s, c[n], t)
  PROVE  Holds(t, c, z, n)
  <1>1. /\ \A i : i \in 1 .. n <=> i = n \/ i \in 1 .. n - 1
        /\ z[n] = z[n - 1] + Archive!FileSize(c[n])
    BY ContainerFacts DEF Sizes
  <1>2. \A kind : Those(c, n, kind) = Those(c, n - 1, kind) \cup (IF c[n].kind = kind THEN {n} ELSE {})
    BY <1>1 DEF Those
  <1>3. t.paths = {c[i].path : i \in 1 .. n} /\ t.folded = {Archive!FoldPath(c[i].path) : i \in 1 .. n}
    BY <1>1 DEF Holds, Taken
  <1>4. t.files = {c[i].path : i \in Those(c, n, "file")}
    BY <1>2 DEF Holds, Taken
  <1>5. t.directories = {c[i].path : i \in Those(c, n, "directory")}
    BY <1>2 DEF Holds, Taken
  <1>6. t.entries = {<<c[i].path, c[i].size>> : i \in Those(c, n, "file")}
    BY <1>2 DEF Holds, Taken
  <1>7. ~ t.stopped /\ t.index = n /\ t.read = z[n]
    BY <1>1, ContainerFacts DEF Holds, Taken
  <1> QED
    BY <1>3, <1>4, <1>5, <1>6, <1>7 DEF Holds

LEMMA OneMoreLooked ==
  ASSUME Archive!ArchiveConstants, NEW c \in Containers, NEW z, Sizes(z, c), NEW n \in 1 .. Len(c),
         NEW s \in StateOf(c), NEW t, Turned(c, c[n], s, t), LookedOK(s, c, z, n - 1)
  PROVE  LookedOK(t, c, z, n)
  <1>1. CASE s.diagnostics = {} /\ Accepts(s, c[n])
    BY <1>1, AcceptsHarmless, OneMoreHeld DEF LookedOK, Turned, Taken
  <1>2. CASE s.diagnostics = {} /\ ~ Accepts(s, c[n])
    BY <1>2, AcceptsHarmless DEF LookedOK, Turned, Holds
  <1>3. CASE s.diagnostics # {}
    BY <1>3, HarmlessBefore DEF LookedOK, Turned
  <1> QED
    BY <1>1, <1>2, <1>3

LEMMA HarmlessIsSafe ==
  ASSUME Archive!ArchiveConstants, NEW c \in Containers, NEW z, Archive!Size(c) = z[Len(c)]
  PROVE  Harmless(c, z, Len(c)) <=> Archive!Safe(c)
  BY ContainerFacts DEF Harmless, Archive!Safe, Fine, Apart

\* An inspection of a container nobody touches calls it supported exactly when it
\* is safe, and then with exactly its files; it never lists a file that is not there.
LEMMA InspectionRight ==
  ASSUME Archive!ArchiveConstants, NEW c \in Containers
  PROVE  LET found == Archive!Inspected(c)
         IN /\ (found.outcome = "supported") <=> Archive!Safe(c)
            /\ found.outcome = "supported" => found.entries = Archive!TreeOf(c)
            /\ found.entries \subseteq Archive!TreeOf(c)
  <1>1. PICK g : LooksThrough(g, c) /\ Archive!Looked(c) = g[Len(c)]
    BY LookedLoops
  <1>2. PICK z : Sizes(z, c) /\ Archive!Size(c) = z[Len(c)]
    BY SizeLoops
  <1> DEFINE Right == {n \in 0 .. Len(c) : LookedOK(g[n], c, z, n)}
             s == Archive!Looked(c)
  <1>3. Len(c) \in Nat
    BY ContainerFacts
  <1>4. \A n \in 0 .. Len(c) : n \in Right
    <2> DEFINE id == [n \in 0 .. Len(c) |-> n]
    <2>1. id[0] \in Right
      BY <1>1, <1>2, <1>3, NothingLooked DEF LooksThrough
    <2>2. ASSUME NEW n \in 1 .. Len(c), id[n - 1] \in Right
          PROVE  id[n] \in Right
      <3>1. n - 1 \in 0 .. Len(c) /\ n \in 0 .. Len(c) /\ id[n - 1] = n - 1 /\ id[n] = n
        BY <1>3
      <3>2. g[n - 1] \in StateOf(c) /\ LookedOK(g[n - 1], c, z, n - 1) /\ g[n] = Archive!InspectEntry(c[n], g[n - 1])
        BY <1>1, <2>2, <3>1 DEF LooksThrough
      <3>3. LookedOK(g[n], c, z, n)
        BY <1>2, <3>2, OneEntry, OneMoreLooked
      <3> QED
        BY <3>1, <3>3
    <2>3. \A n \in 0 .. Len(c) : id[n] = n
      OBVIOUS
    <2> HIDE DEF id, Right
    <2>4. \A n \in 0 .. Len(c) : id[n] \in Right
      BY <1>3, <2>1, <2>2, StaysIn
    <2> QED
      BY <2>3, <2>4
  <1>5. LookedOK(s, c, z, Len(c)) /\ s \in StateOf(c)
    BY <1>1, <1>3, <1>4 DEF LooksThrough
  <1> HIDE DEF s
  <1>6. s.diagnostics = {} <=> Archive!Safe(c)
    BY <1>2, <1>5, HarmlessIsSafe DEF LookedOK
  <1>7. ASSUME s.diagnostics = {}
        PROVE  s.entries = Archive!TreeOf(c)
    <2>1. s.entries = {<<c[i].path, c[i].size>> : i \in Those(c, Len(c), "file")}
      BY <1>5, <1>7 DEF LookedOK, Holds
    <2> QED
      BY <2>1, ContainerFacts DEF Archive!TreeOf, Those
  <1>8. s.entries \subseteq Archive!TreeOf(c)
    BY <1>5, StateFields
  <1>9. /\ Archive!Inspected(c).entries = s.entries
        /\ Archive!Inspected(c).outcome = "supported" <=> s.diagnostics = {}
    BY DEF Archive!Inspected, s
  <1> QED
    BY <1>6, <1>7, <1>8, <1>9

-----------------------------------------------------------------------------
(***************************************************************************)
(* Archive: the inductive invariant                                        *)
(***************************************************************************)

\* What one reading of held finds.
Reading(held) ==
  IF held = Broken THEN [entries |-> {}, outcome |-> "failed"] ELSE Archive!Inspected(held)

\* What an inspection q has seen of its inode is what it hashed first, or the
\* inode has held that only earlier.
InspectionOK(q) ==
  \/ q = Archive!Idle
  \/ /\ q = [step |-> q.step, inode |-> q.inode, before |-> q.before, listed |-> q.listed, found |-> q.found]
     /\ q.step \in {"opened", "listed", "read", "stable"}
     /\ q.inode \in Inode /\ q.before \in Containers \cup {Broken}
     /\ q.step # "opened" => q.listed \in Containers \cup {Broken}
     /\ q.before \notin earlier[q.inode] =>
          /\ contents[q.inode] = q.before
          /\ q.step = "listed" => q.listed = q.before
          /\ q.step \in {"read", "stable"} => q.found = Reading(q.before)
     /\ q.step \in {"read", "stable"} =>
          q.found.outcome \in {"supported", "unsupported", "partial", "failed"}

\* A receipt says what one reading of the container it names says, unless the file
\* held other contents for a while and then the same again.
ReceiptOfOneReading(r) ==
  r # Nothing /\ r.container # Nothing /\ r.inode \notin restored =>
    r.entries = Reading(r.container).entries /\ r.outcome = Reading(r.container).outcome

ArchiveInv ==
  /\ inode \in Inode \cup {Nothing}
  /\ contents \in [Inode -> Containers \cup {Broken}]
  /\ swaps \in 0 .. MaxChanges
  /\ earlier = [i \in Inode |-> earlier[i]]
  /\ \A i \in Inode : contents[i] \in earlier[i] => i \in restored
  /\ InspectionOK(inspection)
  /\ ReceiptOfOneReading(receipt)
  /\ receipt # Nothing => receipt.outcome \in {"supported", "unsupported", "partial", "failed"}
  /\ receipt # Nothing => receipt.container \in Containers \cup {Broken, Nothing}

-----------------------------------------------------------------------------
LEMMA RewriteKeeps ==
  ASSUME Archive!ArchiveConstants, ArchiveInv, NEW i \in Inode, NEW content \in Containers \cup {Broken},
         Archive!Rewrite(i, content)
  PROVE  ArchiveInv'
  <1>1. /\ contents' = [contents EXCEPT ![i] = content] /\ content # contents[i]
        /\ earlier' = [earlier EXCEPT ![i] = earlier[i] \cup {contents[i]}]
        /\ restored \subseteq restored' /\ (content \in earlier[i] => i \in restored')
        /\ swaps < MaxChanges /\ swaps' = swaps + 1 /\ UNCHANGED <<inode, inspection, receipt>>
    BY DEF Archive!Rewrite, Archive!Changing
  <1>2. contents' \in [Inode -> Containers \cup {Broken}] /\ earlier' = [j \in Inode |-> earlier'[j]]
    BY <1>1 DEF ArchiveInv
  <1>3. \A j \in Inode : contents'[j] \in earlier'[j] => j \in restored'
    BY <1>1 DEF ArchiveInv
  <1>4. \A j \in Inode : earlier[j] \subseteq earlier'[j] /\ (contents'[j] = contents[j] \/ contents[j] \in earlier'[j])
    BY <1>1 DEF ArchiveInv
  <1>5. InspectionOK(inspection)'
    BY <1>1, <1>4 DEF ArchiveInv, InspectionOK
  <1>6. ReceiptOfOneReading(receipt)'
    BY <1>1 DEF ArchiveInv, ReceiptOfOneReading
  <1>7. swaps' \in 0 .. MaxChanges
    BY <1>1 DEF ArchiveInv, Archive!ArchiveConstants
  <1> QED
    BY <1>1, <1>2, <1>3, <1>5, <1>6, <1>7 DEF ArchiveInv

LEMMA RenamedKeeps ==
  ASSUME Archive!ArchiveConstants, ArchiveInv, NEW i \in Inode \cup {Nothing}, Archive!Replace(i)
  PROVE  ArchiveInv'
  BY DEF Archive!Replace, Archive!Changing, Archive!ArchiveConstants, ArchiveInv, InspectionOK, ReceiptOfOneReading

\* A step of the inspection that answers with a true receipt, or does not answer.
LEMMA Inspects ==
  ASSUME ArchiveInv, UNCHANGED <<inode, contents, swaps, earlier, restored>>, InspectionOK(inspection'),
         \/ receipt' = receipt
         \/ /\ ReceiptOfOneReading(receipt')
            /\ receipt'.outcome \in {"supported", "unsupported", "partial", "failed"}
            /\ receipt'.container \in Containers \cup {Broken, Nothing}
  PROVE  ArchiveInv'
  BY DEF ArchiveInv, InspectionOK, ReceiptOfOneReading

LEMMA OpenKeeps ==
  ASSUME Archive!ArchiveConstants, ArchiveInv, Archive!Open
  PROVE  ArchiveInv'
  <1>1. CASE inode = Nothing
    BY <1>1, Inspects DEF Archive!Open, Archive!Answer, Archive!Failed, Archive!world, InspectionOK,
       ReceiptOfOneReading
  <1>2. CASE inode # Nothing
    <2>1. inode \in Inode /\ contents[inode] \in Containers \cup {Broken}
      BY <1>2 DEF ArchiveInv
    <2>2. InspectionOK(inspection')
      BY <1>2, <2>1 DEF Archive!Open, InspectionOK
    <2> QED
      BY <1>2, <2>2, Inspects DEF Archive!Open, Archive!world
  <1> QED
    BY <1>1, <1>2

\* An inspection that runs, and what it saw.
LEMMA RunningFacts ==
  ASSUME ArchiveInv, inspection.step # "idle"
  PROVE  /\ inspection = [step |-> inspection.step, inode |-> inspection.inode, before |-> inspection.before,
                          listed |-> inspection.listed, found |-> inspection.found]
         /\ inspection.step \in {"opened", "listed", "read", "stable"}
         /\ inspection.inode \in Inode /\ inspection.before \in Containers \cup {Broken}
         /\ contents[inspection.inode] \in Containers \cup {Broken}
         /\ inspection.step # "opened" => inspection.listed \in Containers \cup {Broken}
         /\ inspection.before \notin earlier[inspection.inode] =>
              /\ contents[inspection.inode] = inspection.before
              /\ inspection.step = "listed" => inspection.listed = inspection.before
              /\ inspection.step \in {"read", "stable"} => inspection.found = Reading(inspection.before)
         /\ inspection.step \in {"read", "stable"} =>
              inspection.found.outcome \in {"supported", "unsupported", "partial", "failed"}
  BY DEF ArchiveInv, InspectionOK, Archive!Idle

LEMMA ListDirectoryKeeps ==
  ASSUME Archive!ArchiveConstants, ArchiveInv, Archive!ListDirectory
  PROVE  ArchiveInv'
  <1>1. /\ inspection.step = "opened" /\ UNCHANGED <<inode, contents, swaps, earlier, restored, receipt>>
        /\ inspection' = [step |-> "listed", inode |-> inspection.inode, before |-> inspection.before,
                          listed |-> contents[inspection.inode], found |-> inspection.found]
    BY RunningFacts DEF Archive!ListDirectory, Archive!world, Archive!Held
  <1>2. InspectionOK(inspection')
    BY <1>1, RunningFacts DEF InspectionOK
  <1> QED
    BY <1>1, <1>2, Inspects

\* Entries read from the contents that were listed are the entries listed.
LEMMA ReadAsListed ==
  ASSUME Archive!ArchiveConstants, NEW c \in Containers
  PROVE  Archive!AsListed(c, c) = c
  <1>1. c \in Seq({c[i] : i \in DOMAIN c})
    BY DEF Archive!ArchiveConstants
  <1>2. c = [i \in DOMAIN c |-> c[i]]
    BY <1>1, ContainerFacts, LenProperties
  <1> QED
    BY <1>2 DEF Archive!AsListed

LEMMA InspectedOutcome ==
  ASSUME NEW c
  PROVE  Archive!Inspected(c).outcome \in {"supported", "unsupported", "partial", "failed"}
  BY DEF Archive!Inspected

LEMMA ReadEntriesKeeps ==
  ASSUME Archive!ArchiveConstants, ArchiveInv, Archive!ReadEntries
  PROVE  ArchiveInv'
  <1> DEFINE listed == inspection.listed
             held == contents[inspection.inode]
             found == IF listed = Broken THEN [entries |-> {}, outcome |-> "failed"]
                      ELSE Archive!Inspected(Archive!AsListed(listed, IF held = Broken THEN <<>> ELSE held))
  <1>1. /\ inspection.step = "listed" /\ UNCHANGED <<inode, contents, swaps, earlier, restored, receipt>>
        /\ inspection' = [inspection EXCEPT !.step = "read", !.found = found]
    BY DEF Archive!ReadEntries, Archive!world, Archive!Held
  <1>2. found.outcome \in {"supported", "unsupported", "partial", "failed"}
    BY InspectedOutcome
  <1>3. inspection.before \notin earlier[inspection.inode] => found = Reading(inspection.before)
    BY <1>1, RunningFacts, ReadAsListed DEF Reading
  <1> HIDE DEF found
  <1>4. inspection' = [step |-> "read", inode |-> inspection.inode, before |-> inspection.before,
                       listed |-> inspection.listed, found |-> found]
    BY <1>1, RunningFacts
  <1>5. InspectionOK(inspection')
    BY <1>1, <1>2, <1>3, <1>4, RunningFacts DEF InspectionOK
  <1> QED
    BY <1>1, <1>5, Inspects

LEMMA HashAgainKeeps ==
  ASSUME Archive!ArchiveConstants, ArchiveInv, Archive!HashAgain
  PROVE  ArchiveInv'
  <1>1. UNCHANGED <<inode, contents, swaps, earlier, restored>> /\ inspection.step = "read"
    BY DEF Archive!HashAgain, Archive!world
  <1>2. CASE Archive!HashesAlike
    <2>1. /\ inspection' = [step |-> "stable", inode |-> inspection.inode, before |-> inspection.before,
                            listed |-> inspection.listed, found |-> inspection.found]
          /\ receipt' = receipt
      BY <1>1, <1>2, RunningFacts DEF Archive!HashAgain
    <2>2. InspectionOK(inspection')
      BY <1>1, <2>1, RunningFacts DEF InspectionOK
    <2> QED
      BY <1>1, <2>1, <2>2, Inspects
  <1>3. CASE ~Archive!HashesAlike
    BY <1>1, <1>3, Inspects DEF Archive!HashAgain, Archive!Answer, Archive!Failed, InspectionOK, ReceiptOfOneReading
  <1> QED
    BY <1>2, <1>3

\* Hashes alike and nothing that came back: nothing was rewritten at all.
LEMMA CheckNameKeeps ==
  ASSUME Archive!ArchiveConstants, ArchiveInv, Archive!CheckName
  PROVE  ArchiveInv'
  <1>1. /\ UNCHANGED <<inode, contents, swaps, earlier, restored>> /\ inspection.step = "stable"
        /\ InspectionOK(inspection')
    BY DEF Archive!CheckName, Archive!world, Archive!Answer, InspectionOK
  <1>2. CASE inode = inspection.inode /\ Archive!HashesAlike
    <2>1. receipt' = [outcome |-> inspection.found.outcome, container |-> inspection.before,
                      inode |-> inode, entries |-> inspection.found.entries]
      BY <1>2 DEF Archive!CheckName, Archive!Answer
    <2>2. inspection.inode \notin restored => inspection.before \notin earlier[inspection.inode]
      BY <1>1, <1>2, RunningFacts DEF ArchiveInv, Archive!HashesAlike, Archive!Held
    <2>3. ReceiptOfOneReading(receipt')
      BY <1>1, <1>2, <2>1, <2>2, RunningFacts DEF ReceiptOfOneReading
    <2> QED
      BY <1>1, <2>1, <2>3, RunningFacts, Inspects
  <1>3. CASE ~(inode = inspection.inode /\ Archive!HashesAlike)
    BY <1>1, <1>3, Inspects DEF Archive!CheckName, Archive!Answer, Archive!Failed, ReceiptOfOneReading
  <1> QED
    BY <1>2, <1>3

LEMMA NextArchive ==
  ASSUME Archive!ArchiveConstants, ArchiveInv, [Archive!Next]_Archive!vars
  PROVE  ArchiveInv'
  <1>1. CASE UNCHANGED Archive!vars
    BY <1>1 DEF Archive!vars, ArchiveInv, InspectionOK, ReceiptOfOneReading
  <1> QED
    BY <1>1, RewriteKeeps, RenamedKeeps, OpenKeeps, ListDirectoryKeeps, ReadEntriesKeeps, HashAgainKeeps,
       CheckNameKeeps DEF Archive!Next

(***************************************************************************)
(* However the container is rewritten or replaced while inspect_zip opens  *)
(* it, hashes it, reads its directory, its entries and its hash again, a   *)
(* receipt says of the container it names what an inspection nobody        *)
(* disturbs says of it, unless other contents were in the file for a       *)
(* while.  So it calls the container supported just when every reader can  *)
(* take it as the same tree, and lists exactly that tree.                  *)
(***************************************************************************)
THEOREM ReceiptsOfOneContainer ==
  ASSUME Archive!ArchiveConstants
  PROVE  Archive!Spec => [](Archive!TypeOK /\ Archive!ReceiptOfContainer)
  <1>1. Archive!Init => ArchiveInv
    BY DEF Archive!Init, Archive!ArchiveConstants, ArchiveInv, InspectionOK, ReceiptOfOneReading
  <1>2. ArchiveInv => Archive!TypeOK
    BY DEF ArchiveInv, InspectionOK, Archive!TypeOK, Archive!InspectionTyped, Archive!Outcomes
  <1>3. ArchiveInv => Archive!ReceiptOfContainer
    <2> SUFFICES ASSUME ArchiveInv, receipt # Nothing, receipt.container \notin {Nothing, Broken},
                        receipt.inode \notin restored
                 PROVE  /\ (receipt.outcome = "supported") <=> Archive!Safe(receipt.container)
                        /\ receipt.outcome = "supported" => receipt.entries = Archive!TreeOf(receipt.container)
                        /\ receipt.entries \subseteq Archive!TreeOf(receipt.container)
      BY DEF Archive!ReceiptOfContainer
    <2>1. receipt.container \in Containers
      BY DEF ArchiveInv
    <2>2. /\ receipt.entries = Archive!Inspected(receipt.container).entries
          /\ receipt.outcome = Archive!Inspected(receipt.container).outcome
      BY DEF ArchiveInv, ReceiptOfOneReading, Reading
    <2> QED
      BY <2>1, <2>2, InspectionRight
  <1> QED
    BY <1>1, <1>2, <1>3, NextArchive, PTL DEF Archive!Spec

-----------------------------------------------------------------------------
(***************************************************************************)
(* Adapters: the inductive invariant                                       *)
(***************************************************************************)

\* The packet admitted is one scan of the repository and commit asked about.
PacketIsOne(a) ==
  a # Nothing =>
    \E s \in Packets :
      /\ Adapters!ManifestOf(a.snapshot["scan-manifest.json"]) = Adapters!ManifestOf(s)
      /\ a.snapshot["facts.ndjson"].facts = s.facts
      /\ a.snapshot["index.sqlite"] = s
      /\ s.repo = a.request.repo /\ s.commit = a.request.commit
      /\ a.selected \subseteq s.facts /\ a.selected # {}
      /\ (a.outcome = "complete") <=> ~s.gaps

\* The projection bound answers for the records it is bound to.
ProjectionIsOne(b) ==
  b # Nothing =>
    /\ b.answer.admission = "admitted"
    /\ b.version = 2 => b.answer.request.refs = b.refs /\ b.answer.request.kind = b.kind /\ ~b.superseded
    /\ DOMAIN b.expected = DOMAIN b.refs /\ b.version = 1 /\ b.expected = b.answer.request.refs =>
         b.refs = b.answer.request.refs

AdapterInv ==
  /\ file \in [Adapters!Artifacts -> Packets \cup {Missing}]
  /\ linked \subseteq Adapters!Artifacts
  /\ sidecar \in Packets \cup {Nothing}
  /\ adapter \in [Adapter -> Adapters!CopyType]
  /\ record \in [RecordId -> [revision : 0 .. MaxEdits, superseded : BOOLEAN]]
  /\ admitted # Nothing => admitted.outcome \in {"complete", "partial-evidence-admitted"}
  /\ PacketIsOne(admitted)
  /\ bound # Nothing => bound.version \in {1, 2}
  /\ ProjectionIsOne(bound)

-----------------------------------------------------------------------------
LEMMA ScannerKeeps ==
  ASSUME Adapters!AdapterConstants, AdapterInv,
         \/ \E n \in Adapters!Artifacts, s \in Packets : Adapters!WriteFile(n, s)
         \/ \E s \in Packets : Adapters!OpenIndex(s)
         \/ Adapters!CloseIndex
         \/ \E n \in Adapters!Artifacts : Adapters!LoseFile(n) \/ Adapters!LinkFile(n)
  PROVE  AdapterInv'
  <1>1. UNCHANGED <<adapter, admitted, record, bound>>
    BY DEF Adapters!WriteFile, Adapters!OpenIndex, Adapters!CloseIndex, Adapters!LoseFile,
           Adapters!LinkFile, Adapters!wits
  <1>2. /\ file' \in [Adapters!Artifacts -> Packets \cup {Missing}]
        /\ linked' \subseteq Adapters!Artifacts /\ sidecar' \in Packets \cup {Nothing}
    BY DEF Adapters!WriteFile, Adapters!OpenIndex, Adapters!CloseIndex, Adapters!LoseFile,
           Adapters!LinkFile, AdapterInv, Adapters!AdapterConstants
  <1> QED
    BY <1>1, <1>2 DEF AdapterInv

LEMMA CopyKeeps ==
  ASSUME Adapters!AdapterConstants, AdapterInv, NEW p \in Adapter,
         (\E q \in PacketRequests : Adapters!BeginPacket(p, q)) \/ Adapters!CopyNext(p)
  PROVE  AdapterInv'
  <1>1. UNCHANGED <<file, linked, sidecar, admitted, record, bound>>
    BY DEF Adapters!BeginPacket, Adapters!CopyNext, Adapters!wits
  <1>2. \E state \in Adapters!CopyType : adapter' = [adapter EXCEPT ![p] = state]
    <2>1. ASSUME NEW q \in PacketRequests, Adapters!BeginPacket(p, q)
          PROVE  \E state \in Adapters!CopyType : adapter' = [adapter EXCEPT ![p] = state]
      BY <2>1 DEF Adapters!BeginPacket, Adapters!Work, Adapters!CopyType
    <2>2. CASE Adapters!CopyNext(p)
      <3> DEFINE n == Adapters!CopyOrder[6 - Adapters!Cardinality(Adapters!ToCopy(p))]
                 state == IF file[n] = Missing THEN Adapters!Idle
                          ELSE [adapter[p] EXCEPT !.snapshot[n] = file[n]]
      <3>1. adapter' = [adapter EXCEPT ![p] = state] /\ adapter[p].step = "copying"
        BY <2>2 DEF Adapters!CopyNext, Adapters!Work
      <3>2. adapter[p] \in [step : {"copying"}, request : PacketRequests,
                            snapshot : [Adapters!Artifacts -> Packets \cup {Nothing}]]
        BY <3>1 DEF AdapterInv, Adapters!CopyType, Adapters!Idle
      <3>3. n \in Adapters!Artifacts /\ file[n] # Missing => file[n] \in Packets
        BY DEF AdapterInv
      <3> HIDE DEF n
      <3>4. state \in Adapters!CopyType
        BY <3>2, <3>3 DEF Adapters!CopyType
      <3> QED
        BY <3>1, <3>4
    <2> QED
      BY <2>1, <2>2
  <1> QED
    BY <1>1, <1>2 DEF AdapterInv

\* What is admitted of five copied files is what the index says, and the manifest
\* and the facts say the same.
LEMMA BindPacketKeeps ==
  ASSUME Adapters!AdapterConstants, AdapterInv, NEW p \in Adapter, Adapters!BindPacket(p)
  PROVE  AdapterInv'
  <1> DEFINE q == adapter[p].request
             snapshot == adapter[p].snapshot
             m == snapshot["scan-manifest.json"]
             f == snapshot["facts.ndjson"]
             i == snapshot["index.sqlite"]
             outcome == Adapters!Outcome(q, m, f, i)
  <1>1. /\ UNCHANGED <<file, linked, sidecar, record, bound>>
        /\ adapter' = [adapter EXCEPT ![p] = Adapters!Idle]
        /\ admitted' = IF outcome \in Adapters!AdmittedOutcomes
                       THEN [request |-> q, snapshot |-> snapshot,
                             selected |-> Adapters!Selected(q, f), outcome |-> outcome]
                       ELSE admitted
    BY DEF Adapters!BindPacket, Adapters!Work, Adapters!wits
  <1>2. adapter' \in [Adapter -> Adapters!CopyType]
    BY <1>1 DEF AdapterInv, Adapters!CopyType
  <1>3. i \in Packets
    <2>1. adapter[p] \in [step : {"copying"}, request : PacketRequests,
                          snapshot : [Adapters!Artifacts -> Packets \cup {Nothing}]]
      BY DEF Adapters!BindPacket, AdapterInv, Adapters!CopyType, Adapters!Idle
    <2> QED
      BY <2>1 DEF Adapters!BindPacket, Adapters!ToCopy, Adapters!Artifacts
  <1>4. CASE outcome \in Adapters!AdmittedOutcomes
    <2>1. /\ Adapters!ProviderRefused(q, m, f) = "none" /\ Adapters!IndexParity(m, f, i)
          /\ Adapters!Selected(q, f) # {} /\ Adapters!Selected(q, f) \subseteq f.facts
          /\ outcome = IF m.gaps THEN "partial-evidence-admitted" ELSE "complete"
      BY <1>4 DEF Adapters!Outcome, Adapters!AdmittedOutcomes, Adapters!ProviderRefused
    <2>2. m.repo = q.repo /\ m.commit = q.commit
      BY <2>1 DEF Adapters!ProviderRefused
    <2>3. Adapters!ManifestOf(i) = Adapters!ManifestOf(m) /\ i.facts = f.facts
      BY <2>1 DEF Adapters!IndexParity
    <2>4. i.repo = m.repo /\ i.commit = m.commit /\ i.gaps = m.gaps
      BY <2>3 DEF Adapters!ManifestOf
    <2>5. admitted' = [request |-> q, snapshot |-> snapshot,
                       selected |-> Adapters!Selected(q, f), outcome |-> outcome]
      BY <1>1, <1>4
    <2> HIDE DEF q, snapshot, outcome
    <2>6. PacketIsOne(admitted')
      BY <1>3, <2>1, <2>2, <2>3, <2>4, <2>5 DEF PacketIsOne
    <2>7. admitted'.outcome \in {"complete", "partial-evidence-admitted"}
      BY <2>1, <2>5
    <2> QED
      BY <1>1, <1>2, <2>6, <2>7 DEF AdapterInv
  <1>5. CASE outcome \notin Adapters!AdmittedOutcomes
    BY <1>1, <1>2, <1>5 DEF AdapterInv
  <1> QED
    BY <1>4, <1>5

LEMMA RecordsKeep ==
  ASSUME Adapters!AdapterConstants, AdapterInv,
         \/ \E r \in RecordId, superseded \in BOOLEAN : Adapters!EditRecord(r, superseded)
         \/ \E ids \in (SUBSET RecordId) \ {{}}, kind \in Kind, evidence \in {{}, {1}} :
              Adapters!Ask(ids, kind, evidence)
         \/ \E request \in asked, admission \in {"admitted", "rejected"} :
              Adapters!ProviderAnswers(request, admission)
  PROVE  AdapterInv'
  <1>1. UNCHANGED <<file, linked, sidecar, adapter, admitted, bound>>
    BY DEF Adapters!EditRecord, Adapters!Ask, Adapters!ProviderAnswers, Adapters!packet
  <1>2. record' \in [RecordId -> [revision : 0 .. MaxEdits, superseded : BOOLEAN]]
    <2>1. ASSUME NEW r \in RecordId, NEW superseded \in BOOLEAN, Adapters!EditRecord(r, superseded)
          PROVE  record' \in [RecordId -> [revision : 0 .. MaxEdits, superseded : BOOLEAN]]
      <3>1. /\ record[r].revision < MaxEdits
            /\ record' = [record EXCEPT ![r] = [revision |-> record[r].revision + 1, superseded |-> superseded]]
        BY <2>1 DEF Adapters!EditRecord
      <3>2. record[r].revision + 1 \in 0 .. MaxEdits
        BY <3>1 DEF AdapterInv, Adapters!AdapterConstants
      <3> QED
        BY <3>1, <3>2 DEF AdapterInv
    <2> QED
      BY <2>1 DEF Adapters!Ask, Adapters!ProviderAnswers, AdapterInv
  <1> QED
    BY <1>1, <1>2 DEF AdapterInv

\* The request built again at version 2 is the one answered.
LEMMA BindV2Keeps ==
  ASSUME Adapters!AdapterConstants, AdapterInv, NEW a \in replies, NEW kind \in Kind, NEW evidence,
         NEW o \in Options, Adapters!BindProjectionV2(a, kind, evidence, o)
  PROVE  AdapterInv'
  <1> DEFINE ids == DOMAIN a.request.refs
             refs == Adapters!SourceRefs(ids)
             expected == IF o.expects THEN a.request.refs ELSE refs
             request == Adapters!Request(refs, expected, kind, evidence)
  <1>1. /\ UNCHANGED <<file, linked, sidecar, adapter, admitted, record>>
        /\ bound' = [version |-> 2, answer |-> a, refs |-> refs, kind |-> kind, expected |-> expected,
                     superseded |-> \E r \in DOMAIN refs : record[r].superseded]
        /\ Adapters!RefusedV2(ids, request, a, o) = "none"
    BY DEF Adapters!BindProjectionV2, Adapters!Bind, Adapters!packet
  <1>2. DOMAIN refs = ids
    BY DEF Adapters!SourceRefs
  <1>3. /\ a.admission = "admitted" /\ a.request = request
        /\ \A r \in ids : ~record[r].superseded
    BY <1>1 DEF Adapters!RefusedV2, Adapters!AnswersRequest
  <1>4. request.refs = refs /\ request.kind = kind
    BY DEF Adapters!Request
  <1> HIDE DEF refs, ids, expected, request
  <1>5. ProjectionIsOne(bound') /\ bound'.version = 2
    BY <1>1, <1>2, <1>3, <1>4 DEF ProjectionIsOne
  <1> QED
    BY <1>1, <1>5 DEF AdapterInv

\* At version 1 only a caller that named every revision is told of none that moved.
LEMMA BindV1Keeps ==
  ASSUME Adapters!AdapterConstants, AdapterInv, NEW a \in replies, NEW kind \in Kind, NEW o \in Options,
         Adapters!BindProjectionV1(a, kind, o)
  PROVE  AdapterInv'
  <1> DEFINE refs == Adapters!SourceRefs(DOMAIN a.request.refs)
             expected == [r \in IF o.expects THEN DOMAIN refs ELSE {} |-> a.request.refs[r]]
  <1>1. /\ UNCHANGED <<file, linked, sidecar, adapter, admitted, record>>
        /\ bound' = [version |-> 1, answer |-> a, refs |-> refs, kind |-> kind, expected |-> expected,
                     superseded |-> \E r \in DOMAIN refs : record[r].superseded]
        /\ Adapters!RefusedV1(refs, expected, kind, a, o) = "none"
    BY DEF Adapters!BindProjectionV1, Adapters!Bind, Adapters!packet
  <1>2. refs = [r \in DOMAIN a.request.refs |-> record[r].revision]
    BY DEF Adapters!SourceRefs
  <1>3. /\ a.admission = "admitted"
        /\ \A r \in DOMAIN expected : ~Adapters!Stale([x \in {r} |-> refs[x]], expected)
    BY <1>1 DEF Adapters!RefusedV1
  <1>4. \A r \in DOMAIN expected : expected[r] = refs[r]
    BY <1>3 DEF Adapters!Stale
  <1>5. DOMAIN expected = DOMAIN refs => expected = refs
    BY <1>2, <1>4
  <1> HIDE DEF refs, expected
  <1>6. ProjectionIsOne(bound') /\ bound'.version = 1
    BY <1>1, <1>3, <1>5 DEF ProjectionIsOne
  <1> QED
    BY <1>1, <1>6 DEF AdapterInv

LEMMA NextAdapters ==
  ASSUME Adapters!AdapterConstants, AdapterInv, [Adapters!Next]_Adapters!vars
  PROVE  AdapterInv'
  <1>1. CASE UNCHANGED Adapters!vars
    BY <1>1 DEF Adapters!vars, AdapterInv
  <1> QED
    BY <1>1, ScannerKeeps, CopyKeeps, BindPacketKeeps, RecordsKeep, BindV2Keeps, BindV1Keeps
       DEF Adapters!Next

(***************************************************************************)
(* Whatever a scanner writes over a packet while bind_trace_map_evidence   *)
(* copies it, what is admitted is one scan, of the repository and commit   *)
(* asked about; and however long a provider takes and however the records  *)
(* change, bind_projection binds at version 2 the answer to a request for  *)
(* exactly the records bound, at their revisions, none superseded, and at  *)
(* version 1 as much for a caller that names the revisions.                *)
(***************************************************************************)
THEOREM AdmittedStaysOne ==
  ASSUME Adapters!AdapterConstants
  PROVE  Adapters!Spec => [](Adapters!TypeOK /\ Adapters!AdmittedIsOne)
  <1>1. Adapters!Init => AdapterInv
    BY DEF Adapters!Init, Adapters!AdapterConstants, AdapterInv, Adapters!CopyType, PacketIsOne, ProjectionIsOne
  <1>2. AdapterInv => Adapters!TypeOK /\ Adapters!AdmittedIsOne
    <2> SUFFICES ASSUME AdapterInv PROVE Adapters!TypeOK /\ Adapters!AdmittedIsOne
      OBVIOUS
    <2>1. Adapters!TypeOK
      BY DEF AdapterInv, Adapters!CopyType, Adapters!Idle, Adapters!TypeOK
    <2>2. Adapters!AdmittedIsOne
      BY DEF AdapterInv, PacketIsOne, ProjectionIsOne, Adapters!AdmittedIsOne
    <2> QED
      BY <2>1, <2>2
  <1> QED
    BY <1>1, <1>2, NextAdapters, PTL DEF Adapters!Spec

-----------------------------------------------------------------------------
(***************************************************************************)
(* Retention: the loop                                                     *)
(***************************************************************************)
FoundType ==
  [latest : [Location -> [at : 0 .. MaxTime + 1, retrievable : BOOLEAN]], conflict : BOOLEAN]

\* Of the first n observations, said is what the latest of a location say.
SeenOK(said, list, n, l) ==
  \/ said = Retention!Unseen /\ \A i \in 1 .. n : list[i].location # l
  \/ /\ \E i \in 1 .. n : list[i].location = l /\ list[i].at = said.at
     /\ \A i \in 1 .. n : list[i].location = l =>
          /\ list[i].at <= said.at
          /\ list[i].at = said.at => (Retention!Retrievable(list[i]) <=> said.retrievable)

FoundOK(f, list, n) ==
  /\ f \in FoundType
  /\ ~ f.conflict => \A l \in Location : SeenOK(f.latest[l], list, n, l)

LEMMA NothingYet ==
  ASSUME Retention!RetentionConstants, NEW list
  PROVE  FoundOK(Retention!NothingFound, list, 0)
  BY DEF Retention!RetentionConstants, FoundOK, FoundType, SeenOK, Retention!NothingFound, Retention!Unseen

LEMMA ObservationFields ==
  ASSUME Retention!RetentionConstants, NEW o \in Retention!Observation
  PROVE  /\ o.location \in Location /\ o.at \in 0 .. MaxTime
         /\ Retention!Retrievable(o) \in BOOLEAN
  BY DEF Retention!Observation, Retention!Retrievable

LEMMA OneMoreNoted ==
  ASSUME Retention!RetentionConstants, NEW list \in Seq(Retention!Observation), NEW n \in 1 .. Len(list),
         NEW f, FoundOK(f, list, n - 1)
  PROVE  FoundOK(Retention!Noted(f, list[n]), list, n)
  <1> DEFINE o == list[n]
             said == f.latest[o.location]
             new == [at |-> o.at, retrievable |-> Retention!Retrievable(o)]
  <1>1. /\ n \in Nat /\ Len(list) \in Nat /\ o \in Retention!Observation
        /\ \A i \in 1 .. n : i \in 1 .. Len(list) /\ list[i] \in Retention!Observation
    BY ElementOfSeq, LenProperties
  <1>2. /\ o.location \in Location /\ o.at \in 0 .. MaxTime /\ Retention!Retrievable(o) \in BOOLEAN
        /\ \A i \in 1 .. n : list[i].at \in 0 .. MaxTime
    BY <1>1, ObservationFields
  <1>3. f \in FoundType /\ said \in [at : 0 .. MaxTime + 1, retrievable : BOOLEAN]
    BY <1>2 DEF FoundOK, FoundType
  <1>4. \A i \in 1 .. n : i = n \/ i \in 1 .. n - 1
    BY <1>1
  <1>5. CASE f.conflict
    BY <1>3, <1>5 DEF Retention!Noted, FoundOK
  <1>6. CASE ~ f.conflict /\ Retention!Supersedes(o, said)
    <2> DEFINE g == [f EXCEPT !.latest[o.location] = new]
    <2>1. Retention!Noted(f, o) = g
      BY <1>6 DEF Retention!Noted
    <2>2. new \in [at : 0 .. MaxTime + 1, retrievable : BOOLEAN]
      BY <1>2 DEF Retention!RetentionConstants
    <2>3. g \in FoundType /\ g.conflict = f.conflict /\ g.latest = [f.latest EXCEPT ![o.location] = new]
      BY <1>3, <2>2 DEF FoundType
    <2>4. f.latest \in [Location -> [at : 0 .. MaxTime + 1, retrievable : BOOLEAN]]
      BY <1>3 DEF FoundType
    <2> HIDE DEF g
    <2>5. ASSUME NEW l \in Location PROVE SeenOK(g.latest[l], list, n, l)
      <3>1. SeenOK(f.latest[l], list, n - 1, l)
        BY <1>6 DEF FoundOK
      <3>2. CASE l # o.location
        <4>1. g.latest[l] = f.latest[l]
          BY <2>3, <2>4, <3>2
        <4>2. 1 .. n - 1 \subseteq 1 .. n
          BY <1>1
        <4> HIDE DEF said, new
        <4> QED
          BY <1>4, <3>1, <3>2, <4>1, <4>2 DEF SeenOK
      <3>3. CASE l = o.location
        <4>1. g.latest[l] = new /\ f.latest[l] = said /\ n \in 1 .. n
          BY <1>1, <2>3, <2>4, <3>3
        <4>2. ASSUME NEW i \in 1 .. n - 1, list[i].location = l PROVE list[i].at < o.at
          <5>1. said # Retention!Unseen /\ list[i].at <= said.at
            <6>1. SeenOK(said, list, n - 1, l)
              BY <3>1, <4>1
            <6>2. \A j \in 1 .. n - 1 : list[j].at # Retention!Unseen.at
              <7>1. Retention!Unseen.at = MaxTime + 1
                BY DEF Retention!Unseen
              <7>2. \A j \in 1 .. n - 1 : list[j].at \in 0 .. MaxTime
                BY <1>1, <1>2
              <7> QED
                BY <7>1, <7>2 DEF Retention!RetentionConstants
            <6> HIDE DEF said, new
            <6> QED
              BY <4>2, <6>1, <6>2 DEF SeenOK
          <5>2. o.at > said.at
            BY <1>6, <5>1 DEF Retention!Supersedes
          <5>3. said.at \in Nat /\ o.at \in Nat /\ list[i].at \in Nat /\ i \in 1 .. n
            BY <1>1, <1>2, <1>3 DEF Retention!RetentionConstants
          <5> HIDE DEF said, o
          <5> QED
            BY <5>1, <5>2, <5>3
        <4>3. new.at = o.at /\ (new.retrievable <=> Retention!Retrievable(o))
          OBVIOUS
        <4>4. ASSUME NEW i \in 1 .. n, list[i].location = l
              PROVE  /\ list[i].at <= new.at
                     /\ list[i].at = new.at => (Retention!Retrievable(list[i]) <=> new.retrievable)
          <5>1. CASE i = n
            BY <1>2, <4>3, <5>1
          <5>2. CASE i # n
            <6>1. list[i].at < o.at /\ list[i].at \in Nat /\ o.at \in Nat
              BY <1>2, <1>4, <4>2, <4>4, <5>2
            <6> QED
              BY <4>3, <6>1
          <5> QED
            BY <5>1, <5>2
        <4> HIDE DEF new
        <4> QED
          BY <3>3, <4>1, <4>3, <4>4 DEF SeenOK
      <3> QED
        BY <3>2, <3>3
    <2> QED
      BY <2>1, <2>3, <2>5 DEF FoundOK
  <1>7. CASE ~ f.conflict /\ ~ Retention!Supersedes(o, said)
    <2> DEFINE g == [f EXCEPT !.conflict = Retention!Contradicts(o, said)]
    <2>1. Retention!Noted(f, o) = g
      BY <1>7 DEF Retention!Noted
    <2>2. Retention!Contradicts(o, said) \in BOOLEAN
      BY DEF Retention!Contradicts
    <2>3. g \in FoundType /\ g.latest = f.latest /\ g.conflict = Retention!Contradicts(o, said)
      BY <1>3, <2>2 DEF FoundType
    <2> HIDE DEF g
    <2>4. ASSUME ~ g.conflict, NEW l \in Location PROVE SeenOK(f.latest[l], list, n, l)
      <3>1. SeenOK(f.latest[l], list, n - 1, l) /\ 1 .. n - 1 \subseteq 1 .. n
        BY <1>1, <1>7 DEF FoundOK
      <3>2. CASE l # o.location
        <4> HIDE DEF said, new
        <4> QED
          BY <1>4, <3>1, <3>2 DEF SeenOK
      <3>3. CASE l = o.location
        <4>1. said # Retention!Unseen /\ ~ (o.at > said.at) /\ said.at \in Nat /\ o.at \in Nat
          BY <1>2, <1>3, <1>7 DEF Retention!Supersedes, Retention!RetentionConstants
        <4>2. o.at <= said.at /\ (o.at = said.at => (Retention!Retrievable(o) <=> said.retrievable))
          <5>1. o.at <= said.at
            BY <4>1
          <5>2. said.retrievable \in BOOLEAN
            BY <1>3
          <5> QED
            BY <1>2, <2>3, <2>4, <5>1, <5>2 DEF Retention!Contradicts
        <4>3. f.latest[l] = said
          BY <3>3
        <4> HIDE DEF said
        <4> QED
          BY <1>4, <3>1, <3>3, <4>1, <4>2, <4>3 DEF SeenOK
      <3> QED
        BY <3>2, <3>3
    <2> QED
      BY <2>1, <2>3, <2>4 DEF FoundOK
  <1> QED
    BY <1>5, <1>6, <1>7

LEMMA NotedTyped ==
  ASSUME Retention!RetentionConstants, NEW f \in FoundType, NEW o \in Retention!Observation
  PROVE  Retention!Noted(f, o) \in FoundType
  <1> DEFINE new == [at |-> o.at, retrievable |-> Retention!Retrievable(o)]
  <1>1. /\ o.location \in Location /\ new \in [at : 0 .. MaxTime + 1, retrievable : BOOLEAN]
        /\ Retention!Contradicts(o, f.latest[o.location]) \in BOOLEAN
    BY ObservationFields DEF Retention!RetentionConstants, Retention!Contradicts
  <1>2. f.latest \in [Location -> [at : 0 .. MaxTime + 1, retrievable : BOOLEAN]]
    BY DEF FoundType
  <1> HIDE DEF new
  <1>3. [f.latest EXCEPT ![o.location] = new] \in [Location -> [at : 0 .. MaxTime + 1, retrievable : BOOLEAN]]
    BY <1>1, <1>2
  <1>4. [f EXCEPT !.latest[o.location] = new] \in FoundType
    BY <1>3 DEF FoundType
  <1>5. [f EXCEPT !.conflict = Retention!Contradicts(o, f.latest[o.location])] \in FoundType
    BY <1>1 DEF FoundType
  <1> QED
    BY <1>4, <1>5 DEF Retention!Noted, new

LEMMA AllNoted ==
  ASSUME Retention!RetentionConstants, NEW list \in Seq(Retention!Observation)
  PROVE  FoundOK(Retention!NotedAll(list), list, Len(list))
  <1> DEFINE Loops(h) == h = [n \in 0 .. Len(list) |->
                               IF n = 0 THEN Retention!NothingFound ELSE Retention!Noted(h[n - 1], list[n])]
             g == CHOOSE h : Loops(h)
             next == [z \in (1 .. Len(list)) \X FoundType |-> Retention!Noted(z[2], list[z[1]])]
             Wrong == {n \in 0 .. Len(list) : ~ FoundOK(g[n], list, n)}
  <1>1. /\ Len(list) \in Nat /\ Retention!NothingFound \in FoundType
        /\ \A n \in 1 .. Len(list) : list[n] \in Retention!Observation
    BY NothingYet, LenProperties, ElementOfSeq DEF FoundOK
  <1>2. next \in [(1 .. Len(list)) \X FoundType -> FoundType]
    BY <1>1, NotedTyped
  <1>3. \E h : Loops(h)
    <2> HIDE DEF next, Loops
    <2>1. PICK h : LoopOf(h, FoundType, Retention!NothingFound, next, Len(list))
      BY <1>1, <1>2, LoopExists
    <2> USE DEF next, Loops
    <2>2. ASSUME NEW n \in 0 .. Len(list), n # 0
          PROVE  next[<<n, h[n - 1]>>] = Retention!Noted(h[n - 1], list[n])
      <3>1. n \in 1 .. Len(list) /\ n - 1 \in 0 .. Len(list)
        BY <1>1, <2>2
      <3>2. <<n, h[n - 1]>> \in (1 .. Len(list)) \X FoundType
        BY <2>1, <3>1 DEF LoopOf
      <3> QED
        BY <3>2
    <2> HIDE DEF next
    <2>3. h = [n \in 0 .. Len(list) |->
                IF n = 0 THEN Retention!NothingFound ELSE Retention!Noted(h[n - 1], list[n])]
      BY <2>1, <2>2 DEF LoopOf
    <2> QED
      BY <2>3
  <1>4. Loops(g) /\ Retention!NotedAll(list) = g[Len(list)]
    BY <1>3 DEF Retention!NotedAll
  <1> HIDE DEF g
  <1>5. \A n \in 0 .. Len(list) :
          g[n] = IF n = 0 THEN Retention!NothingFound ELSE Retention!Noted(g[n - 1], list[n])
    BY <1>4
  <1>6. Wrong = {}
    <2> SUFFICES ASSUME Wrong # {} PROVE FALSE
      OBVIOUS
    <2>1. PICK n \in Wrong : \A k \in Wrong : n <= k
      <3>1. Wrong \in SUBSET Nat
        OBVIOUS
      <3> HIDE DEF Wrong
      <3> QED
        BY <3>1, LeastExists
    <2>2. n \in 0 .. Len(list) /\ ~ FoundOK(g[n], list, n)
      BY <2>1
    <2>3. n # 0
      BY <1>5, <2>2, NothingYet
    <2>4. n \in 1 .. Len(list) /\ n - 1 \in 0 .. Len(list) /\ ~ (n <= n - 1)
      BY <1>1, <2>2, <2>3
    <2>5. FoundOK(g[n - 1], list, n - 1)
      BY <2>1, <2>4
    <2>6. FoundOK(Retention!Noted(g[n - 1], list[n]), list, n)
      BY <2>4, <2>5, OneMoreNoted
    <2> QED
      BY <1>5, <2>2, <2>3, <2>6
  <1> QED
    BY <1>1, <1>4, <1>6

-----------------------------------------------------------------------------
(***************************************************************************)
(* Retention: the summaries                                                *)
(***************************************************************************)
RetentionInv ==
  /\ observations \in Seq(Retention!Observation)
  /\ deletions \subseteq {r \in Retention!Receipt : Retention!Describable(r)}

LEMMA SameSize == \A S : Retention!Cardinality(S) = Cardinality(S)
  BY DEF Retention!Cardinality, Cardinality

\* What the latest observations of a location say.
Says(list, l) == {Retention!Retrievable(o) : o \in Retention!Latest(list, l)}

LEMMA LatestSay ==
  ASSUME Retention!RetentionConstants, NEW list \in Seq(Retention!Observation), NEW l \in Location,
         NEW said, SeenOK(said, list, Len(list), l), said.retrievable \in BOOLEAN
  PROVE  Says(list, l) \subseteq {said.retrievable} /\ (TRUE \in Says(list, l) <=> said.retrievable)
  <1> DEFINE observed == {o \in Retention!ToSet(list) : o.location = l}
  <1>1. /\ Retention!ToSet(list) = {list[i] : i \in 1 .. Len(list)}
        /\ \A i \in 1 .. Len(list) : list[i].at \in 0 .. MaxTime /\ Retention!Retrievable(list[i]) \in BOOLEAN
    <2>1. DOMAIN list = 1 .. Len(list) /\ \A i \in 1 .. Len(list) : list[i] \in Retention!Observation
      BY LenProperties, ElementOfSeq
    <2> QED
      BY <2>1, ObservationFields DEF Retention!ToSet
  <1>2. Retention!Latest(list, l) = {o \in observed : \A other \in observed : other.at <= o.at}
    BY DEF Retention!Latest
  <1>3. \A o \in observed : \E i \in 1 .. Len(list) : o = list[i] /\ list[i].location = l
    BY <1>1
  <1>4. \A i \in 1 .. Len(list) : list[i].location = l => list[i] \in observed
    BY <1>1
  <1> HIDE DEF observed
  <1>5. CASE said = Retention!Unseen /\ \A i \in 1 .. Len(list) : list[i].location # l
    <2>1. Says(list, l) = {}
      BY <1>2, <1>3, <1>5 DEF Says
    <2>2. said.retrievable = FALSE
      BY <1>5 DEF Retention!Unseen
    <2> QED
      BY <2>1, <2>2
  <1>6. CASE /\ \E i \in 1 .. Len(list) : list[i].location = l /\ list[i].at = said.at
             /\ \A i \in 1 .. Len(list) : list[i].location = l =>
                  /\ list[i].at <= said.at
                  /\ list[i].at = said.at => (Retention!Retrievable(list[i]) <=> said.retrievable)
    <2>1. PICK i \in 1 .. Len(list) : list[i].location = l /\ list[i].at = said.at
      BY <1>6
    <2>2. list[i] \in Retention!Latest(list, l)
      BY <1>2, <1>3, <1>4, <1>6, <2>1
    <2>3. ASSUME NEW o \in Retention!Latest(list, l) PROVE Retention!Retrievable(o) <=> said.retrievable
      <3>1. PICK j \in 1 .. Len(list) : o = list[j] /\ list[j].location = l
        BY <1>2, <1>3
      <3>2. list[i].at <= list[j].at /\ list[j].at <= said.at
        BY <1>2, <1>4, <1>6, <2>1, <3>1
      <3>3. list[j].at = said.at
        BY <1>1, <2>1, <3>2
      <3> QED
        BY <1>6, <3>1, <3>3
    <2>4. ASSUME NEW o \in Retention!Latest(list, l) PROVE Retention!Retrievable(o) = said.retrievable
      <3>1. Retention!Retrievable(o) \in BOOLEAN
        BY <1>1, <1>2, <1>3
      <3> QED
        BY <2>3, <3>1
    <2>5. said.retrievable \in Says(list, l)
      BY <2>2, <2>4 DEF Says
    <2> QED
      BY <2>4, <2>5 DEF Says
  <1> QED
    BY <1>5, <1>6 DEF SeenOK

\* An answer says what the latest observations say.
LEMMA AnswerHonestOfAll ==
  ASSUME Retention!RetentionConstants, RetentionInv,
         Retention!ContentRetrievability(observations) \notin {"refused", "conflict"}
  PROVE  LET latest == [l \in Location |-> Says(observations, l)]
         IN /\ \A l \in Location : Retention!Cardinality(latest[l]) <= 1
            /\ (Retention!ContentRetrievability(observations) = "verified-retrievable-location-observed")
                 <=> \E l \in Location : TRUE \in latest[l]
  <1> DEFINE found == Retention!NotedAll(observations)
  <1>1. observations \in Seq(Retention!Observation) /\ FoundOK(found, observations, Len(observations))
    BY AllNoted DEF RetentionInv
  <1>2. /\ ~ found.conflict
        /\ Retention!ContentRetrievability(observations) = "verified-retrievable-location-observed"
             <=> \E l \in Location : found.latest[l].retrievable
    BY DEF Retention!ContentRetrievability
  <1> HIDE DEF found
  <1>3. ASSUME NEW l \in Location
        PROVE  /\ Cardinality(Says(observations, l)) <= 1
               /\ TRUE \in Says(observations, l) <=> found.latest[l].retrievable
    <2>1. SeenOK(found.latest[l], observations, Len(observations), l) /\ found.latest[l].retrievable \in BOOLEAN
      BY <1>1, <1>2 DEF FoundOK, FoundType
    <2>2. /\ Says(observations, l) \subseteq {found.latest[l].retrievable}
          /\ TRUE \in Says(observations, l) <=> found.latest[l].retrievable
      BY <1>1, <2>1, LatestSay
    <2>3. IsFiniteSet({found.latest[l].retrievable}) /\ Cardinality({found.latest[l].retrievable}) = 1
      BY FS_Singleton
    <2>4. Cardinality(Says(observations, l)) <= 1
      BY <2>2, <2>3, FS_Subset
    <2> QED
      BY <2>2, <2>4
  <1> QED
    BY <1>2, <1>3, SameSize

\* What describable receipts of a deletion add up to.
LEMMA NeverCompleteUnknown ==
  \A rs : ~ Retention!IsComplete(rs, TRUE)
  BY DEF Retention!IsComplete, Retention!OverallDeletionStatus, Retention!Complete

LEMMA CompleteOutcomes ==
  ASSUME NEW rs
  PROVE  Retention!IsComplete(rs, FALSE) <=> rs # {} /\ \A r \in rs : r.outcome \in Retention!Complete
  <1> DEFINE outcomes == {r.outcome : r \in rs}
  <1>1. rs # {} <=> outcomes # {}
    OBVIOUS
  <1>2. (\A r \in rs : r.outcome \in Retention!Complete) <=> outcomes \subseteq Retention!Complete
    OBVIOUS
  <1>3. Retention!IsComplete(rs, FALSE) <=> rs # {} /\ outcomes \subseteq Retention!Complete
    BY <1>1 DEF Retention!IsComplete, Retention!OverallDeletionStatus, Retention!Complete, Retention!Retained
  <1> QED
    BY <1>2, <1>3

LEMMA CompleteDescribes ==
  ASSUME RetentionInv, Retention!IsComplete(deletions, FALSE), NEW r \in deletions
  PROVE  /\ r.scope # "unknown-replica"
         /\ Retention!IsComplete(deletions \ {r}, FALSE) \/ deletions = {r}
  <1>1. \A q \in deletions : q.outcome \in Retention!Complete
    BY CompleteOutcomes
  <1>2. r.scope # "unknown-replica"
    BY <1>1 DEF RetentionInv, Retention!Describable, Retention!Complete
  <1>3. CASE deletions \ {r} # {}
    BY <1>1, <1>2, <1>3, CompleteOutcomes
  <1>4. CASE deletions \ {r} = {}
    BY <1>2, <1>4
  <1> QED
    BY <1>3, <1>4

LEMMA RetentionStep ==
  ASSUME RetentionInv, [Retention!Next]_(Retention!vars)
  PROVE  RetentionInv'
  <1>1. CASE UNCHANGED Retention!vars
    BY <1>1 DEF Retention!vars, RetentionInv
  <1>2. ASSUME NEW o \in Retention!Observation, Retention!Arrive(o)
        PROVE  RetentionInv'
    <2>1. observations' = Append(observations, o) /\ deletions' = deletions
      BY <1>2 DEF Retention!Arrive
    <2>2. observations' \in Seq(Retention!Observation)
      BY <2>1, AppendProperties DEF RetentionInv
    <2> QED
      BY <2>1, <2>2 DEF RetentionInv
  <1>3. ASSUME NEW r \in Retention!Receipt, Retention!Describe(r)
        PROVE  RetentionInv'
    BY <1>3 DEF Retention!Describe, RetentionInv
  <1>4. ASSUME NEW scope \in Retention!Scope, NEW authorized \in BOOLEAN, NEW known \in BOOLEAN,
               NEW generation \in BOOLEAN, Retention!Request(scope, authorized, known, generation)
        PROVE  RetentionInv'
    <2>1. Retention!Requested(scope, authorized, known, generation) \in Retention!Receipt
      BY DEF Retention!Requested, Retention!Receipt, Retention!Outcome
    <2> QED
      BY <1>3, <1>4, <2>1 DEF Retention!Request
  <1> QED
    BY <1>1, <1>2, <1>3, <1>4 DEF Retention!Next

\* A summary of any number of observations and receipts is honest:
\* content_retrievability says what the latest observations of each location say,
\* whatever the order they arrived in, and overall_deletion_status never calls a
\* deletion complete while a replica may be unknown, nor makes it complete by one
\* receipt more.
THEOREM SummariesStayHonest ==
  ASSUME Retention!RetentionConstants
  PROVE  Retention!Spec => [](Retention!TypeOK /\ Retention!SummariesHonest)
  <1>1. Retention!Init => RetentionInv
    BY EmptySeq DEF Retention!Init, RetentionInv
  <1>2. RetentionInv /\ [Retention!Next]_(Retention!vars) => RetentionInv'
    BY RetentionStep
  <1>3. RetentionInv => Retention!SummariesHonest
    BY AnswerHonestOfAll, NeverCompleteUnknown, CompleteDescribes DEF Retention!SummariesHonest, Says
  <1>4. RetentionInv => Retention!TypeOK
    BY DEF RetentionInv, Retention!TypeOK
  <1> QED
    BY <1>1, <1>2, <1>3, <1>4, PTL DEF Retention!Spec

-----------------------------------------------------------------------------
(***************************************************************************)
(* The composition                                                         *)
(***************************************************************************)
\* ObservationsHold for the scans, archives, adapters and retention records of
\* the composition.
THEOREM ObservationsStayHonest ==
  ASSUME StoresConstants
  PROVE  StoresSpec => []ObservationsHold
  <1> DEFINE Scanning == part = "scan"
             Inspecting == part = "archive"
             Admitting == part = "adapters"
             Retaining == part = "retention"
  <1>1. /\ StoresInit /\ Scanning => Scan!Init
        /\ StoresInit /\ Inspecting => Archive!Init
        /\ StoresInit /\ Admitting => Adapters!Init
        /\ StoresInit /\ Retaining => Retention!Init
    BY DEF StoresInit
  <1>2. [StoresNext]_storesVars /\ Scanning => [Scan!Next]_(Scan!vars) /\ Scanning'
    BY PartStays DEF StoresNext, storesVars, scanVars, Scan!vars
  <1>3. [StoresNext]_storesVars /\ Inspecting => [Archive!Next]_(Archive!vars) /\ Inspecting'
    BY PartStays DEF StoresNext, storesVars, archiveVars, Archive!vars
  <1>4. [StoresNext]_storesVars /\ Admitting => [Adapters!Next]_(Adapters!vars) /\ Admitting'
    BY PartStays DEF StoresNext, storesVars, adapterVars, Adapters!vars
  <1>5. [StoresNext]_storesVars /\ Retaining => [Retention!Next]_(Retention!vars) /\ Retaining'
    BY PartStays DEF StoresNext, storesVars, lifecycleVars, retentionVars, Retention!vars
  <1>6. [StoresNext]_storesVars =>
          /\ ~Scanning => ~Scanning'
          /\ ~Inspecting => ~Inspecting'
          /\ ~Admitting => ~Admitting'
          /\ ~Retaining => ~Retaining'
    BY PartStays
  <1>7. Scan!Spec => [](Scan!TypeOK /\ Scan!CompleteAccounts)
    BY ManifestsAccount DEF StoresConstants
  <1>8. Archive!Spec => [](Archive!TypeOK /\ Archive!ReceiptOfContainer)
    BY ReceiptsOfOneContainer DEF StoresConstants
  <1>9. Adapters!Spec => [](Adapters!TypeOK /\ Adapters!AdmittedIsOne)
    BY AdmittedStaysOne DEF StoresConstants
  <1>10. Retention!Spec => [](Retention!TypeOK /\ Retention!SummariesHonest)
    BY SummariesStayHonest DEF StoresConstants
  <1>11. ObservationsHold <=>
          /\ Scanning => Scan!CompleteAccounts
          /\ Inspecting => Archive!ReceiptOfContainer
          /\ Admitting => Adapters!AdmittedIsOne
          /\ Retaining => Retention!SummariesHonest
    BY DEF ObservationsHold
  <1> HIDE DEF Scanning, Inspecting, Admitting, Retaining
  <1> QED
    BY <1>1, <1>2, <1>3, <1>4, <1>5, <1>6, <1>7, <1>8, <1>9, <1>10, <1>11, PTL
       DEF StoresSpec, Scan!Spec, Archive!Spec, Adapters!Spec, Retention!Spec

\* StoresTypeOK: whichever part a behaviour works on, its variables keep their
\* types, and an unfinished scan, inspection, copy, intake, import, bundle,
\* verification or attestation holds what its step reads; those of ImmutableStore
\* keep their types in the others too, where they rest.
THEOREM StoresTypesHold ==
  ASSUME StoresConstants
  PROVE  StoresSpec => []StoresTypeOK
  <1> DEFINE Scanning == part = "scan"
             Storing == part = "vault"
             Identifying == part = "repository"
             Importing == part = "imports"
             Admitting == part = "adapters"
             Inspecting == part = "archive"
             Releasing == part = "release"
             Retaining == part = "retention"
             Migrating == part = "custody"
  <1>1. /\ StoresInit => Init
        /\ StoresInit /\ Scanning => Scan!Init
        /\ StoresInit /\ Storing => VaultStore!Init
        /\ StoresInit /\ Identifying => RepoIdentity!Init
        /\ StoresInit /\ Importing => Imports!Init
        /\ StoresInit /\ Admitting => Adapters!Init
        /\ StoresInit /\ Inspecting => Archive!Init
        /\ StoresInit /\ Releasing => Release!Init
        /\ StoresInit /\ Retaining => Retention!Init
        /\ StoresInit /\ Migrating => Custody!Init
    BY DEF StoresInit
  <1>2. [StoresNext]_storesVars => [Next]_vars
    BY DEF StoresNext, storesVars, ButScan, ButVault, ButRepo, ButImports, ButAdapters, ButArchive,
           ButRelease, ButRetention, ButCustody
  <1>3. [StoresNext]_storesVars /\ Scanning => [Scan!Next]_(Scan!vars)
    BY DEF StoresNext, storesVars, scanVars, Scan!vars
  <1>4. [StoresNext]_storesVars /\ Storing => [VaultStore!Next]_(VaultStore!vars)
    BY DEF StoresNext, storesVars, vaultVars, VaultStore!vars
  <1>5. [StoresNext]_storesVars /\ Identifying => [RepoIdentity!Next]_(RepoIdentity!vars)
    BY DEF StoresNext, storesVars, repoVars, RepoIdentity!vars
  <1>6. [StoresNext]_storesVars /\ Importing => [Imports!Next]_(Imports!vars)
    BY DEF StoresNext, storesVars, importVars, Imports!vars
  <1>7. [StoresNext]_storesVars /\ Admitting => [Adapters!Next]_(Adapters!vars)
    BY DEF StoresNext, storesVars, adapterVars, Adapters!vars
  <1>8. [StoresNext]_storesVars /\ Inspecting => [Archive!Next]_(Archive!vars)
    BY DEF StoresNext, storesVars, archiveVars, Archive!vars
  <1>9. [StoresNext]_storesVars /\ Releasing => [Release!Next]_(Release!vars)
    BY DEF StoresNext, storesVars, releaseVars, Release!vars
  <1>10. [StoresNext]_storesVars /\ Retaining => [Retention!Next]_(Retention!vars)
    BY DEF StoresNext, storesVars, lifecycleVars, retentionVars, Retention!vars
  <1>11. [StoresNext]_storesVars /\ Migrating => [Custody!Next]_(Custody!vars)
    BY DEF StoresNext, storesVars, lifecycleVars, custodyVars, Custody!vars
  <1>12. [StoresNext]_storesVars =>
          /\ Scanning <=> Scanning'
          /\ Storing <=> Storing'
          /\ Identifying <=> Identifying'
          /\ Importing <=> Importing'
          /\ Admitting <=> Admitting'
          /\ Inspecting <=> Inspecting'
          /\ Releasing <=> Releasing'
          /\ Retaining <=> Retaining'
          /\ Migrating <=> Migrating'
    BY PartStays
  <1>13. Scan!Spec => [](Scan!TypeOK /\ Scan!CompleteAccounts)
    BY ManifestsAccount DEF StoresConstants
  <1>14. VaultStore!Spec => [](VaultStore!TypeOK /\ VaultStore!IntakesAgree)
    BY IntakesNeverDisagree DEF StoresConstants
  <1>15. RepoIdentity!Spec => [](RepoIdentity!TypeOK /\ RepoIdentity!AnswersTrue)
    BY IdentitiesStayTrue DEF StoresConstants
  <1>16. Imports!Spec => [](Imports!TypeOK /\ Imports!ImportsConverge)
    BY ImportsStayConvergent DEF StoresConstants
  <1>17. Adapters!Spec => [](Adapters!TypeOK /\ Adapters!AdmittedIsOne)
    BY AdmittedStaysOne DEF StoresConstants
  <1>18. Archive!Spec => [](Archive!TypeOK /\ Archive!ReceiptOfContainer)
    BY ReceiptsOfOneContainer DEF StoresConstants
  <1>19. Release!Spec => [](Release!TypeOK /\ Release!ReleaseBound)
    BY ReleasesStayBound DEF StoresConstants
  <1>20. Retention!Spec => [](Retention!TypeOK /\ Retention!SummariesHonest)
    BY SummariesStayHonest DEF StoresConstants
  <1>21. Custody!Spec => [](Custody!TypeOK /\ Custody!ReadyByOwner)
    BY OnlyOwnerReadies DEF StoresConstants
  <1>22. StoresTypeOK <=>
           /\ TypeOK
           /\ Scanning => Scan!TypeOK
           /\ Storing => VaultStore!TypeOK
           /\ Identifying => RepoIdentity!TypeOK
           /\ Importing => Imports!TypeOK
           /\ Admitting => Adapters!TypeOK
           /\ Inspecting => Archive!TypeOK
           /\ Releasing => Release!TypeOK
           /\ Retaining => Retention!TypeOK
           /\ Migrating => Custody!TypeOK
    BY DEF StoresTypeOK
  <1> HIDE DEF Scanning, Storing, Identifying, Importing, Admitting, Inspecting, Releasing,
               Retaining, Migrating
  <1> QED
    BY <1>1, <1>2, <1>3, <1>4, <1>5, <1>6, <1>7, <1>8, <1>9, <1>10, <1>11, <1>12,
       <1>13, <1>14, <1>15, <1>16, <1>17, <1>18, <1>19, <1>20, <1>21, <1>22,
       TypeCorrect, PTL
       DEF StoresSpec, Spec, Scan!Spec, VaultStore!Spec, RepoIdentity!Spec, Imports!Spec, Adapters!Spec,
           Archive!Spec, Release!Spec, Retention!Spec, Custody!Spec
=============================================================================
