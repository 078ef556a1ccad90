------------------------------- MODULE Kickoff -------------------------------
(***************************************************************************)
(* From the hub's answer to the pack a session starts from: the pages of a  *)
(* pull response and their verification, the verified pull put into one     *)
(* vault file by file, and the context and kickoff packs built from it      *)
(* (src/artifact_memory/coordination_sync.py, coordination_context.py,      *)
(* coordination_kickoff.py and the lookup in coordination_onboarding.py).   *)
(*                                                                          *)
(* A record is a TaskPacket revision [task, id, status, project, label]:    *)
(* task stands for its record_id, id for its taskId.  The hub is reduced to *)
(* what it would admit and show; CoordinationSync has it in full.           *)
(***************************************************************************)
EXTENDS Naturals, FiniteSets, Sequences, SequencesExt

CONSTANTS
  Record,          \* every open TaskPacket revision
  Label,           \* AccessLabel revisions
  Reads,           \* Reads[l]: the projects label l may see
  Link,            \* project links onboarding may write: [project, name, label]
  Nothing,
  Damages,         \* what may happen to a response on its way
  MaxPageRecords,  \* MAX_PAGE_RECORDS
  MaxTime,         \* bound on pulls, and their completion times
  MaxAppends       \* bound on records appended to the vault without the hub

Claim(r) == [r EXCEPT !.status = "claimed"]

Revision == Record \cup {Claim(r) : r \in Record}

VARIABLES
  hub,        \* [records, label, generation]
  issued,     \* issued[t]: what the hub showed in the answer completed at t
  time,       \* pulls so far
  links,      \* complete project links in the vault
  local,      \* coordination records in the vault
  marker,     \* last-successful.json and the projection it names
  puller,     \* the process pulling
  session,    \* the process building a pack
  appends

vars == <<hub, issued, time, links, local, marker, puller, session, appends>>

\* Task packets are finitely many records, their ids are numbers.
KickoffConstants ==
  /\ MaxTime \in Nat /\ MaxAppends \in Nat /\ Nothing \notin Link
  /\ IsFiniteSet(Revision)
  /\ \A r \in Record :
       /\ r = [task |-> r.task, id |-> r.id, status |-> "open", project |-> r.project, label |-> r.label]
       /\ r.id \in Nat
  /\ Damages \subseteq {"none", "cut", "repeated", "swapped", "bodies swapped", "mixed", "relabelled"}

Idle == [step |-> "idle"]

\* sorted_pairs: the canonical order of exact revisions.
Before(r, s) ==
  \/ r.task < s.task
  \/ r.task = s.task /\ r.status = "open" /\ s.status = "claimed"

Sorted(S) ==
  [i \in 1..Cardinality(S) |-> CHOOSE r \in S : Cardinality({s \in S : Before(s, r)}) = i - 1]

Leaves(S) == {r \in S : r.status = "claimed" \/ Claim(r) \notin S}

\* One genesis and its claim at most; every claim has its predecessor.
ChainsValid(S) ==
  \A r \in S :
    /\ r.status = "claimed" => [r EXCEPT !.status = "open"] \in S
    /\ \A s \in S : s.task = r.task /\ s.status = r.status => s = r

(***************************************************************************)
(* Pages                                                                    *)
(***************************************************************************)

\* Greedy: a record opens a page of its own when the current one is full.
Paged(groups, r) ==
  IF Len(Last(groups)) < MaxPageRecords
  THEN [groups EXCEPT ![Len(groups)] = Append(@, r)]
  ELSE Append(groups, <<r>>)

PageGroups(records) ==
  LET grouped[n \in 0..Len(records)] ==
        IF n = 0 THEN << <<>> >> ELSE Paged(grouped[n - 1], records[n])
  IN grouped[Len(records)]

MembershipPages(receipt, groups) ==
  [i \in 1..Len(groups) |-> [of |-> receipt, index |-> i, count |-> Len(groups), pairs |-> groups[i]]]

\* The receipt carries the digest, the count and the number of pages.
ResponseOf(t) ==
  LET groups == PageGroups(Sorted(issued[t].members))
      receipt == [issued[t] EXCEPT !.pages = Len(groups)]
  IN [receipt |-> receipt, pages |-> MembershipPages(receipt, groups), records |-> groups]

Swapped(s) == [i \in DOMAIN s |-> s[Len(s) + 1 - i]]

\* Kept in a file or sent over HTTP, an answer may be cut, repeat a page,
\* have its pages out of order, or hold a page of another answer.
Damaged(response, other, damage) ==
  CASE damage = "none" -> response
    [] damage = "cut" -> [response EXCEPT !.pages = Front(@), !.records = Front(@)]
    [] damage = "repeated" ->
         [response EXCEPT !.pages[Len(response.pages)] = response.pages[1],
                           !.records[Len(response.records)] = response.records[1]]
    [] damage = "swapped" -> [response EXCEPT !.pages = Swapped(@), !.records = Swapped(@)]
    [] damage = "bodies swapped" -> [response EXCEPT !.records = Swapped(@)]
    [] damage = "mixed" ->
         [response EXCEPT !.pages[1] = other.pages[1], !.records[1] = other.records[1]]
    [] damage = "relabelled" ->
         [response EXCEPT !.pages[1].pairs = other.pages[1].pairs, !.records[1] = other.records[1]]

PairsOf(pages) == FlattenSeq([i \in DOMAIN pages |-> pages[i].pairs])

\* validate_membership_pages: every index once, one receipt, no pair twice,
\* and the count and digest the receipt names.
PagesWhole(response) ==
  LET receipt == response.receipt
      pages == response.pages
      pairs == PairsOf(pages)
  IN /\ Len(pages) = receipt.pages
     /\ {pages[i].index : i \in DOMAIN pages} = 1..receipt.pages
     /\ \A i \in DOMAIN pages : pages[i].of = receipt /\ pages[i].count = receipt.pages
     /\ IsInjective(pairs)
     /\ ToSet(pairs) = receipt.members

\* _validated_pull_response: the bodies are those each page names.
BodiesMatch(response) ==
  /\ Len(response.records) = Len(response.pages)
  /\ \A i \in DOMAIN response.pages : ToSet(response.records[i]) = ToSet(response.pages[i].pairs)
  /\ IsInjective(FlattenSeq(response.records))
  /\ ChainsValid(ToSet(FlattenSeq(response.records)))

Verified(response) == PagesWhole(response) /\ BodiesMatch(response)

-----------------------------------------------------------------------------

ReceiptType ==
  [time : 1..MaxTime, label : Label, generation : Nat, members : SUBSET Revision, pages : Nat]

PullerTyped ==
  /\ puller.step \in {"idle", "answered", "verified", "applying"}
  /\ puller.step = "answered" => puller.time \in 1..time
  /\ puller.step \in {"verified", "applying"} =>
       puller.receipt \in ReceiptType /\ puller.pairs \subseteq Revision
  /\ puller.step = "applying" => puller.todo \subseteq Revision

SessionTyped ==
  /\ session.step \in {"idle", "linked", "open"}
  /\ session.step = "linked" => session.link \in links
  /\ session.step = "open" =>
       /\ session.link \in links \cup {Nothing} /\ session.receipt \in ReceiptType
       /\ session.count \in Nat
       /\ session.seen \subseteq Revision /\ session.selected \subseteq Revision
       /\ session.records \subseteq Revision

TypeOK ==
  /\ hub.records \subseteq Revision /\ hub.label \in Label /\ hub.generation \in Nat
  /\ time \in 0..MaxTime
  /\ issued \in [1..time -> ReceiptType]
  /\ links \subseteq Link
  /\ local \subseteq Revision
  /\ marker # Nothing => marker.receipt \in ReceiptType /\ marker.pairs \subseteq Revision
  /\ PullerTyped
  /\ SessionTyped
  /\ ~(puller.step = "applying" /\ session.step = "open")
  /\ appends \in 0..MaxAppends

Init ==
  /\ hub \in [records : {{}}, label : Label, generation : {0}]
  /\ issued = <<>> /\ time = 0
  /\ links = {} /\ local = {} /\ marker = Nothing
  /\ puller = Idle /\ session = Idle
  /\ appends = 0

(***************************************************************************)
(* The hub, onboarding and local appends                                    *)
(***************************************************************************)

\* A genesis of a free identity, or the claim of an open revision.
Admit(r) ==
  /\ r \notin hub.records
  /\ r.status = "open" => \A s \in hub.records : s.task # r.task
  /\ r.status = "claimed" => [r EXCEPT !.status = "open"] \in hub.records
  /\ hub' = [hub EXCEPT !.records = @ \cup {r}]
  /\ UNCHANGED <<issued, time, links, local, marker, puller, session, appends>>

Rebind(l) ==
  /\ hub.generation = 0 /\ hub.label # l
  /\ hub' = [hub EXCEPT !.label = l, !.generation = @ + 1]
  /\ UNCHANGED <<issued, time, links, local, marker, puller, session, appends>>

\* A link is written once per project and never replaced.
Onboard(link) ==
  /\ \A other \in links : other.project # link.project
  /\ links' = links \cup {link}
  /\ UNCHANGED <<hub, issued, time, local, marker, puller, session, appends>>

AppendLocal(r) ==
  /\ appends < MaxAppends
  /\ r \notin local
  /\ local' = local \cup {r} /\ appends' = appends + 1
  /\ UNCHANGED <<hub, issued, time, links, marker, puller, session>>

(***************************************************************************)
(* pull                                                                     *)
(***************************************************************************)

PullerOnly == UNCHANGED <<links, session, appends>>

BuildPullResponse ==
  /\ puller = Idle
  /\ time < MaxTime /\ time' = time + 1
  /\ issued' = Append(issued, [time |-> time', label |-> hub.label, generation |-> hub.generation,
                               members |-> {r \in hub.records : r.project \in Reads[hub.label]},
                               pages |-> 0])
  /\ puller' = [step |-> "answered", time |-> time']
  /\ UNCHANGED <<hub, local, marker>> /\ PullerOnly

\* An answer that does not verify is refused whole.
VerifyResponse(t, damage) ==
  /\ puller.step = "answered"
  /\ LET response == Damaged(ResponseOf(puller.time), ResponseOf(t), damage)
     IN puller' = IF Verified(response)
                  THEN [step |-> "verified", receipt |-> response.receipt,
                        pairs |-> ToSet(PairsOf(response.pages))]
                  ELSE Idle
  /\ UNCHANGED <<hub, issued, time, local, marker>> /\ PullerOnly

\* _apply_verified_pull against the projection already there.
SameScope(receipt, prior) == receipt.label = prior.label /\ receipt.generation = prior.generation

Follows(receipt, pairs) ==
  marker # Nothing =>
    /\ receipt.generation >= marker.receipt.generation
    /\ receipt.time >= marker.receipt.time
    /\ SameScope(receipt, marker.receipt) => marker.pairs \subseteq pairs

SameMembership(receipt) ==
  /\ marker # Nothing
  /\ SameScope(receipt, marker.receipt)
  /\ receipt.members = marker.receipt.members

ProjectionLockIgnored == TRUE

\* A session holds the lock while its pack is open.
ProjectionLockFree == session.step # "open"

\* Under the projection lock: refuse, do nothing, or write the projection.
\* An answer with outcomes or another excluded count is written in any case.
BeginApply(noted) ==
  /\ puller.step = "verified"
  /\ ProjectionLockFree
  /\ puller' = IF Follows(puller.receipt, puller.pairs) /\ (noted \/ ~SameMembership(puller.receipt))
               THEN [step |-> "applying", receipt |-> puller.receipt, pairs |-> puller.pairs,
                     todo |-> puller.pairs]
               ELSE Idle
  /\ UNCHANGED <<hub, issued, time, local, marker>> /\ PullerOnly

\* In canonical order.
WriteRecord ==
  /\ puller.step = "applying"
  /\ \E r \in puller.todo :
       /\ \A s \in puller.todo \ {r} : Before(r, s)
       /\ local' = local \cup {r}
       /\ puller' = [puller EXCEPT !.todo = @ \ {r}]
  /\ UNCHANGED <<hub, issued, time, marker>> /\ PullerOnly

PublishMarker ==
  /\ puller.step = "applying" /\ puller.todo = {}
  /\ marker' = [receipt |-> puller.receipt, pairs |-> puller.pairs]
  /\ puller' = Idle
  /\ UNCHANGED <<hub, issued, time, local>> /\ PullerOnly

PullerDies ==
  /\ puller # Idle
  /\ puller' = Idle
  /\ UNCHANGED <<hub, issued, time, local, marker>> /\ PullerOnly

(***************************************************************************)
(* open_kickoff_pack, open_coordination_context_pack                        *)
(***************************************************************************)

SessionOnly == UNCHANGED <<hub, issued, time, links, local, marker, puller, appends>>

\* An exact UUID wins; a display name must be unambiguous.
Matching(selector) ==
  LET byId == {l \in links : l.project = selector}
  IN IF byId # {} THEN byId ELSE {l \in links : l.name = selector}

\* The link is read before the lock is taken.  A repository, when one is
\* given, must be onboarded here under the very same link.
LoadOnboardedProject(selector, repo) ==
  /\ session = Idle
  /\ \E link \in Matching(selector) :
       /\ Matching(selector) = {link}
       /\ repo # Nothing => Matching(repo) = {link}
       /\ session' = [step |-> "linked", link |-> link]
  /\ SessionOnly

OpenTasks(S, p) == {r \in Leaves({s \in S : s.project = p}) : r.status = "open"}

\* The latest taskId among the open leaves.
Latest(open) == {r \in open : \A s \in open : s.id <= r.id}

NeverUnadmitted(pairs, p) == {}

Unadmitted(pairs, p) == {r \in local : r.project = p} \ pairs

\* Every refusal of _build_kickoff_pack, under the projection lock.
KickoffRefused(link, projection) ==
  LET tasks == {r \in projection.pairs : r.project = link.project}
  IN \/ projection.receipt.label # link.label
     \/ Unadmitted(projection.pairs, link.project) # {}
     \/ \E r \in tasks : r.label # link.label
     \/ ~ChainsValid(tasks)
     \/ Cardinality(Latest(OpenTasks(projection.pairs, link.project))) > 1

\* Marker, receipt and membership agree, and every record is there to read.
SnapshotReadable ==
  /\ marker # Nothing
  /\ marker.pairs = marker.receipt.members
  /\ marker.pairs \subseteq local

OpenKickoffPack ==
  /\ session.step = "linked" /\ puller.step # "applying"
  /\ session' =
       IF ~SnapshotReadable \/ KickoffRefused(session.link, marker) THEN Idle
       ELSE LET open == OpenTasks(marker.pairs, session.link.project)
            IN [step |-> "open", link |-> session.link, receipt |-> marker.receipt, seen |-> local,
                count |-> Cardinality(open), selected |-> Latest(open), records |-> {}]
  /\ SessionOnly

OpenContextPack ==
  /\ session = Idle /\ puller.step # "applying"
  /\ SnapshotReadable
  /\ session' = [step |-> "open", link |-> Nothing, receipt |-> marker.receipt, seen |-> local,
                 count |-> 0, selected |-> {}, records |-> marker.pairs]
  /\ SessionOnly

\* The lock is held until the caller's export is over.
ClosePack ==
  /\ session.step = "open"
  /\ session' = Idle
  /\ SessionOnly

SessionDies ==
  /\ session.step = "linked"
  /\ session' = Idle
  /\ SessionOnly

Selectors == {l.project : l \in Link} \cup {l.name : l \in Link}

Next ==
  \/ \E r \in Revision : Admit(r)
  \/ \E l \in Label : Rebind(l)
  \/ \E link \in Link : Onboard(link)
  \/ \E r \in Revision : AppendLocal(r)
  \/ BuildPullResponse
  \/ \E t \in 1..time, damage \in Damages : VerifyResponse(t, damage)
  \/ \E noted \in BOOLEAN : BeginApply(noted)
  \/ WriteRecord
  \/ PublishMarker
  \/ PullerDies
  \/ \E selector \in Selectors, repo \in {Nothing} \cup {l.project : l \in Link} :
       LoadOnboardedProject(selector, repo)
  \/ OpenKickoffPack
  \/ OpenContextPack
  \/ ClosePack
  \/ SessionDies

Spec == Init /\ [][Next]_vars

(***************************************************************************)
(* The projection a vault holds is what the hub showed in the answer it     *)
(* names, however that answer travelled and wherever a pull died, every     *)
(* record of it is in the vault, and an open pack is true to it.  No pull   *)
(* replaces it while the pack is open, the link is still the only one of    *)
(* its project, and the task handed to the session is the one open task of  *)
(* the highest taskId, which neither that membership nor any record the     *)
(* vault held at the check has claimed.                                     *)
(***************************************************************************)
PackTrue ==
  /\ marker # Nothing =>
       marker.pairs = issued[marker.receipt.time].members /\ marker.pairs \subseteq local
  /\ session.step = "open" =>
     LET receipt == session.receipt
         link == session.link
         mine == {r \in issued[receipt.time].members : link # Nothing /\ r.project = link.project}
         open == {r \in mine : r.status = "open" /\ Claim(r) \notin mine}
     IN /\ marker.receipt = receipt
        /\ receipt.members = issued[receipt.time].members
        /\ link = Nothing => session.records = receipt.members
        /\ link # Nothing =>
             /\ {l \in links : l.project = link.project} = {link}
             /\ receipt.label = link.label
             /\ session.count = Cardinality(open)
             /\ session.count = 0 <=> session.selected = {}
             /\ \A r \in session.selected :
                  /\ session.selected = {r} /\ r \in open /\ r.label = link.label
                  /\ Claim(r) \notin session.seen
                  /\ \A s \in open : s # r => s.id < r.id
=============================================================================
