---------------------------- MODULE MCOnboarding ----------------------------
(***************************************************************************)
(* An instance of Onboarding: a vault with a receipt "w" the hub admits    *)
(* once another vault delivered the task "p" it is bound to; a user who    *)
(* repeats the command and one who issues it now and then.                 *)
(***************************************************************************)
EXTENDS Onboarding

MCRequires == [r \in Record |-> IF r = "w" THEN {"p"} ELSE {}]
=============================================================================
