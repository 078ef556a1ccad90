------------------------------ MODULE Knowledge ------------------------------
(***************************************************************************)
(* The components that move knowledge, composed: exchange, revocation       *)
(* acknowledgements, search projections, context packs, kickoff packs and   *)
(* record evolution.  They share no state.  A behaviour works on the one    *)
(* part chosen in its initial state, and the variables of the other parts   *)
(* rest, so the states of the composition are the sum of theirs.            *)
(***************************************************************************)
EXTENDS Exchange

CONSTANTS
  Nothing,                                   \* what resting variables hold
  Process, Recipient, Evidence,              \* Revocation
  Publisher, Reader, Vaults, Suppressed, NoFile,   \* Projection
  Input,                                     \* Context
  Id, Content, Initial, MaxCandidates, MaxRelations,   \* Evolution
  Record, Label, Reads, Link, Damages, MaxPageRecords, MaxPulls, MaxAppends   \* Kickoff

VARIABLES
  part,
  schema, ledger, process, clock, answers,                          \* Revocation
  ndjson, index, projectionReceipt, capable, publisher, reader, settled,  \* Projection
  input, pack, recall,                                              \* Context
  records, candidates, seen, acceptances,                           \* Evolution
  hub, issued, time, links, local, marker, puller, session, appends \* Kickoff

Revocation == INSTANCE Revocation WITH now <- clock

Projection == INSTANCE Projection WITH receipt <- projectionReceipt

Context == INSTANCE Context

Evolution == INSTANCE Evolution WITH receipts <- acceptances

Kickoff == INSTANCE Kickoff WITH MaxTime <- MaxPulls

revocationVars == <<schema, ledger, process, clock, answers>>
projectionVars == <<ndjson, index, projectionReceipt, capable, publisher, reader, settled>>
contextVars == <<input, pack, recall>>
evolutionVars == <<records, candidates, seen, acceptances>>
kickoffVars == <<hub, issued, time, links, local, marker, puller, session, appends>>

\* What the theorems ask of the constants beyond the assumptions of Exchange.
KnowledgeConstants ==
  /\ NoFile \notin Projection!Files
  /\ Context!ContextConstants
  /\ Evolution!EvolutionConstants
  /\ Kickoff!KickoffConstants

-----------------------------------------------------------------------------
(* A part that is not chosen keeps one value throughout.                     *)

ExchangeRests ==
  /\ envelope = CHOOSE e \in Envelope : TRUE
  /\ stock = {} /\ claimed = FALSE /\ now = 0
  /\ receiver = [w \in Receiver |-> Idle] /\ receipts = <<>>

RevocationRests ==
  /\ schema = Nothing /\ ledger = Nothing /\ process = Nothing /\ clock = Nothing
  /\ answers = Nothing

ProjectionRests ==
  /\ ndjson = Nothing /\ index = Nothing /\ projectionReceipt = Nothing /\ capable = Nothing
  /\ publisher = Nothing /\ reader = Nothing /\ settled = Nothing

ContextRests ==
  /\ input = Nothing /\ pack = Nothing /\ recall = Nothing

EvolutionRests ==
  /\ records = Nothing /\ candidates = Nothing /\ seen = Nothing /\ acceptances = Nothing

KickoffRests ==
  /\ hub = Nothing /\ issued = Nothing /\ time = Nothing /\ links = Nothing /\ local = Nothing
  /\ marker = Nothing /\ puller = Nothing /\ session = Nothing /\ appends = Nothing

KnowledgeInit ==
  /\ part \in {"exchange", "revocation", "projection", "context", "evolution", "kickoff"}
  /\ \/ part = "exchange" /\ Init
     \/ part # "exchange" /\ ExchangeRests
  /\ \/ part = "revocation" /\ Revocation!Init
     \/ part # "revocation" /\ RevocationRests
  /\ \/ part = "projection" /\ Projection!Init
     \/ part # "projection" /\ ProjectionRests
  /\ \/ part = "context" /\ Context!Init
     \/ part # "context" /\ ContextRests
  /\ \/ part = "evolution" /\ Evolution!Init
     \/ part # "evolution" /\ EvolutionRests
  /\ \/ part = "kickoff" /\ Kickoff!Init
     \/ part # "kickoff" /\ KickoffRests

KnowledgeNext ==
  \/ /\ part = "exchange" /\ Next
     /\ UNCHANGED <<part, revocationVars, projectionVars, contextVars, evolutionVars, kickoffVars>>
  \/ /\ part = "revocation" /\ Revocation!Next
     /\ UNCHANGED <<part, vars, projectionVars, contextVars, evolutionVars, kickoffVars>>
  \/ /\ part = "projection" /\ Projection!Next
     /\ UNCHANGED <<part, vars, revocationVars, contextVars, evolutionVars, kickoffVars>>
  \/ /\ part = "context" /\ Context!Next
     /\ UNCHANGED <<part, vars, revocationVars, projectionVars, evolutionVars, kickoffVars>>
  \/ /\ part = "evolution" /\ Evolution!Next
     /\ UNCHANGED <<part, vars, revocationVars, projectionVars, contextVars, kickoffVars>>
  \/ /\ part = "kickoff" /\ Kickoff!Next
     /\ UNCHANGED <<part, vars, revocationVars, projectionVars, contextVars, evolutionVars>>

allVars == <<part, vars, revocationVars, projectionVars, contextVars, evolutionVars, kickoffVars>>

KnowledgeSpec == KnowledgeInit /\ [][KnowledgeNext]_allVars

-----------------------------------------------------------------------------
\* The variables of the chosen part keep their types: what a receiver holds of
\* its claim, a search of its index, a puller of its answer included.
KnowledgeTypeOK ==
  /\ part = "exchange" => TypeOK
  /\ part = "revocation" => Revocation!TypeOK
  /\ part = "projection" => Projection!TypeOK
  /\ part = "context" => Context!TypeOK
  /\ part = "evolution" => Evolution!TypeOK
  /\ part = "kickoff" => Kickoff!TypeOK

\* All acknowledgements given to one recipient of a revocation carry the
\* receipt retained first.
FirstAcknowledgementStands == part = "revocation" => Revocation!FirstAcknowledgementStands

\* A search answers from one published record set, never from a forged or
\* half-replaced one, and from the last one if nothing disturbed it.
SearchPinned == part = "projection" => Projection!SearchPinned

\* A context pack discloses only what is accepted, chosen, current, allowed,
\* unrevoked and bound, counts the rest, and is recalled by the independent
\* reader.  A kickoff pack is true to the one membership the hub showed and
\* selects a task nobody known to the vault has claimed.
PacksHonest ==
  /\ part = "context" => Context!PackHonest
  /\ part = "kickoff" => Kickoff!PackTrue

\* A candidate is accepted once, and a revision superseded by one acceptance at
\* most, which took it while it was the one current revision of its record.
SuccessionUnforked == part = "evolution" => Evolution!SuccessionUnforked
=============================================================================
