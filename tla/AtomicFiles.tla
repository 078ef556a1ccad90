----------------------------- MODULE AtomicFiles -----------------------------
(***************************************************************************)
(* What the two installation routines promise their callers, without       *)
(* temporary files, links, partly written bytes or dying processes: a path *)
(* gets its content in one step, an immutable path only once, an answer is *)
(* about the content the path has and makes it survive power failures, and *)
(* only a power failure takes away what was put and not yet answered.      *)
(* ImmutableStore implements it, so that the other modules may write a     *)
(* file in one step.                                                       *)
(***************************************************************************)
CONSTANTS
  Immutable,  \* paths that get their content once
  Slot,       \* paths whose content is replaced
  Data,       \* contents
  None        \* no file

Path == Immutable \cup Slot

VARIABLES
  shown,   \* shown[p]: the content a reader of p gets now
  kept,    \* kept[p]: the content p has after a power failure at worst
  answers  \* what callers were told

vars == <<shown, kept, answers>>

Put(p, d) ==
  /\ p \in Immutable => shown[p] = None
  /\ shown' = [shown EXCEPT ![p] = d]
  /\ UNCHANGED <<kept, answers>>

\* What may be said to a caller who brought d to p.
Honest(p, d, outcome) ==
  \/ outcome \in {"created", "duplicate", "found"} /\ p \in Immutable /\ shown[p] = d
  \/ outcome = "collision" /\ p \in Immutable /\ shown[p] \notin {None, d}
  \/ outcome = "replaced" /\ p \in Slot

Tell(p, d, outcome) ==
  answers' = answers \cup {[path |-> p, data |-> d, outcome |-> outcome]}

\* An answer after the directory was synced ...
Answer(p, d, outcome) ==
  /\ outcome # "found"
  /\ Honest(p, d, outcome)
  /\ Tell(p, d, outcome)
  /\ kept' = [kept EXCEPT ![p] = shown[p]]
  /\ UNCHANGED shown

\* ... and one that only looked.
Find(p, d, outcome) ==
  /\ outcome \in {"found", "collision"}
  /\ Honest(p, d, outcome)
  /\ Tell(p, d, outcome)
  /\ UNCHANGED <<shown, kept>>

PowerFailure ==
  \E survive \in SUBSET Path :
    /\ shown' = [p \in Path |-> IF p \in survive THEN shown[p] ELSE kept[p]]
    /\ kept' = shown'
    /\ UNCHANGED answers

Init ==
  /\ shown = [p \in Path |-> None]
  /\ kept = [p \in Path |-> None]
  /\ answers = {}

Outcomes == {"created", "duplicate", "found", "collision", "replaced"}

Next ==
  \/ \E p \in Path, d \in Data :
       \/ Put(p, d)
       \/ \E outcome \in Outcomes : Answer(p, d, outcome) \/ Find(p, d, outcome)
  \/ PowerFailure

Spec == Init /\ [][Next]_vars
=============================================================================
