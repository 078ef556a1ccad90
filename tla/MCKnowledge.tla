----------------------------- MODULE MCKnowledge -----------------------------
(***************************************************************************)
(* A small instance of Knowledge, with two settings of kickoff packs.       *)
(***************************************************************************)
EXTENDS Knowledge

VARIABLE setting   \* what a behaviour on kickoff packs is confined to

-----------------------------------------------------------------------------
(* Exchange: two receivers, envelopes over two records whose bundles are     *)
(* whole, partial, doubled, out of revision, too sensitive or invalid.       *)

Item(r, v, k, ok) == [record |-> r, revision |-> v, rank |-> k, valid |-> ok]

Bundles ==
  {<<>>,
   <<Item("x", 1, 0, TRUE)>>, <<Item("x", 1, 2, TRUE)>>, <<Item("x", 2, 0, TRUE)>>, <<Item("x", 1, 0, FALSE)>>,
   <<Item("x", 1, 1, TRUE), Item("y", 1, 0, TRUE)>>,
   <<Item("x", 1, 0, TRUE), Item("x", 1, 0, TRUE)>>,
   <<Item("x", 1, 2, TRUE), Item("x", 1, 2, TRUE)>>,
   <<Item("y", 1, 0, FALSE), Item("x", 1, 0, TRUE), Item("y", 1, 0, TRUE)>>}

Envelopes ==
  [faults : {{}}, expires : {1},
   records : {{<<"x", 1>>}, {<<"x", 1>>, <<"y", 1>>}, {<<"x", 1>>, <<"x", 2>>}},
   bundle : Bundles, artifacts : {FALSE}, handling : {0, 1}]
  \cup
  [faults : {{}, {"audience"}, {"extension"}, {"extension", "bundle-id"}}, expires : {1},
   records : {{}, {<<"x", 1>>}},
   bundle : {<<>>, <<Item("x", 1, 0, TRUE)>>}, artifacts : BOOLEAN, handling : {0}]

Stocks == {{}, {<<<<"x", 1>>, 0>>, <<<<"y", 1>>, 1>>}}

(* Projection: vaults with a superseded record or without.                   *)
RecordSets ==
  {{[id |-> 1, superseded |-> TRUE], [id |-> 2, superseded |-> FALSE]},
   {[id |-> 1, superseded |-> b] : b \in BOOLEAN}}

(* Context: one chosen record beside another of its own or another identity. *)
Rec(id, rev, lifecycle, rank, freshness, binding) ==
  [id |-> id, rev |-> rev, lifecycle |-> lifecycle, rank |-> rank, freshness |-> freshness,
   binding |-> binding]

Firsts == {Rec("a", 2, "accepted", rank, freshness, "p") :
            rank \in {0, 1}, freshness \in {"current", "stale", "future"}}

Others ==
  {{}, {Rec("a", 1, "superseded", 0, "current", "p")}, {Rec("a", 1, "accepted", 0, "current", "q")},
   {Rec("b", 1, "sealed", 0, "current", "q")}}

ContextInputs ==
  {[records |-> {first} \cup others, chosen |-> chosen, revocations |-> revocations, allowed |-> 0,
    versions |-> versions, evidence |-> evidence, authorized |-> authorized, fits |-> TRUE] :
     first \in Firsts, others \in Others, chosen \in {{"a"}, {"a", "b"}},
     revocations \in SUBSET {<<"a", 2, "m">>, <<"a", 1, "n">>, <<"b", 1, "o">>, <<"b", 1, "x">>},
     versions \in SUBSET {"v2", "v3", "v4"} \ {{}},
     evidence \in {{}} \cup
       {{[key |-> 1, binding |-> "p", limits |-> limits], [key |-> 2, binding |-> "q", limits |-> "sorted"]} :
          limits \in {"unsorted", "bad"}},
     authorized \in {{}, {1}, {1, 2}}}

\* A definition apart from the one a constant is given is evaluated only once.
Inputs == ContextInputs

(* Evolution: one accepted record.                                           *)
Stores == {{[id |-> "x", content |-> 0, life |-> "accepted", relations |-> {}]}}

(* Kickoff: two settings.  "pages": two open tasks in one project, whose      *)
(* answers are damaged as they travel.  "queue": the tasks have different    *)
(* ids, there are two labels, one display name is that of two links, and one *)
(* answer is pulled.                                                         *)
Task(n, id) == [task |-> n, id |-> id, status |-> "open", project |-> "p", label |-> "l"]

Tasks == {Task(1, 1), Task(1, 2), Task(2, 2)}

Readings == [l |-> {"p"}, m |-> {"p", "q"}]

Links == {[project |-> "p", name |-> "n", label |-> "l"], [project |-> "q", name |-> "n", label |-> "m"]}

DamageKinds ==
  {"none", "cut", "repeated", "swapped", "bodies swapped", "mixed", "relabelled"}

TasksOf == [pages |-> {Task(1, 2), Task(2, 2)}, queue |-> {Task(1, 1), Task(2, 2)}]

LabelsOf == [pages |-> {"l"}, queue |-> {"l", "m"}]

PullsOf == [pages |-> MaxPulls, queue |-> 1]

\* The hypotheses of the theorems about these components.
ASSUME KnowledgeConstants

-----------------------------------------------------------------------------
\* Where a behaviour on kickoff packs stays in its setting.
WithinSetting ==
  part = "kickoff" =>
    /\ \A r \in hub.records \cup local :
         \E s \in TasksOf[setting] : r = s \/ r = Kickoff!Claim(s)
    /\ hub.label \in LabelsOf[setting]
    /\ \A link \in links : link.label \in LabelsOf[setting]
    /\ time <= PullsOf[setting]

MCInit ==
  /\ KnowledgeInit
  /\ setting \in {"pages", "queue"} /\ (setting = "queue" => part = "kickoff")
  /\ WithinSetting

MCNext == KnowledgeNext /\ UNCHANGED setting /\ WithinSetting'

MCSpec == MCInit /\ [][MCNext]_<<setting, allVars>>
=============================================================================
