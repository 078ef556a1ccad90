----------------------------- MODULE Revocation -----------------------------
(***************************************************************************)
(* Revocation propagation (revocation.py): receivers acknowledge one       *)
(* revocation envelope through a durable SQLite ledger, opened and         *)
(* retained into by several processes; the acknowledgements are aggregated *)
(* and used to suppress records.                                           *)
(*                                                                         *)
(* The envelope binds one revision of one record.  A receipt's identity is *)
(* the digest of its body, so equal receipts are one receipt.              *)
(***************************************************************************)
EXTENDS Naturals, FiniteSets, Sequences

CONSTANTS
  Process,     \* processes calling acknowledge_revocation
  Recipient,   \* whom they acknowledge for
  Evidence,    \* endpoint receipts and diagnostics a caller may attach
  MaxTime      \* bound on the clock; the envelope expires at MaxTime

VARIABLES
  schema,     \* schema[i]: the i-th statement of the ledger's schema has committed
  ledger,     \* ledger[r]: the retained receipt of recipient r, or NoReceipt
  process,    \* process[p]: where a call stands
  now,        \* the clock
  answers     \* history: answers[r], the kinds of receipts given for recipient r

vars == <<schema, ledger, process, now, answers>>

Statements == 1 .. 3   \* two tables and the metadata row with the version

\* "partial" is any other outcome that claims applied suppression, "declined"
\* every outcome that does not.
Outcome == {"acknowledged", "partial", "declined"}

NoReceipt == [outcome |-> "none", evidence |-> "none"]

\* Endpoint receipts and diagnostics are told apart for acknowledgements only.
Receipt(outcome, evidence) == [outcome |-> outcome, evidence |-> evidence]

Declined == Receipt("declined", "none")

Acknowledges(receipt) == receipt.outcome = "acknowledged"

Idle == [pc |-> "idle", opened |-> 0, recipient |-> "none", receipt |-> NoReceipt]

Goto(p, s) == process' = [process EXCEPT ![p] = s]

Answer(r, receipt) == answers' = [answers EXCEPT ![r] = @ \cup {receipt}]

\* Between two calls, with the ledger open or without one.
Ready(p) == process[p].pc \in {"idle", "open"}

-----------------------------------------------------------------------------
(* SQLiteRevocationReplayLedger: every statement of the script commits on    *)
(* its own and is repeatable, so a process that dies between two of them     *)
(* leaves a prefix the next one completes.                                   *)

StartOpen(p) ==
  /\ process[p].pc = "idle"
  /\ Goto(p, [Idle EXCEPT !.pc = "opening"])
  /\ UNCHANGED <<schema, ledger, now, answers>>

OpenStatement(p) ==
  /\ process[p].pc = "opening"
  /\ process[p].opened < 3
  /\ schema' = schema \cup {process[p].opened + 1}
  /\ Goto(p, [process[p] EXCEPT !.opened = @ + 1])
  /\ UNCHANGED <<ledger, now, answers>>

ContractValid == schema = Statements

Opened(p) ==
  /\ process[p].pc = "opening"
  /\ process[p].opened = 3
  /\ ContractValid
  /\ Goto(p, [Idle EXCEPT !.pc = "open"])
  /\ UNCHANGED <<schema, ledger, now, answers>>

-----------------------------------------------------------------------------
(* acknowledge_revocation.                                                   *)

Expired == now >= MaxTime

\* The envelope is not for this recipient, or too old: a fresh rejection, and
\* the ledger is not read.
Reject(p) ==
  /\ Ready(p)
  /\ \E otherAudience \in BOOLEAN : otherAudience \/ Expired
  /\ \E r \in Recipient : Answer(r, Declined)
  /\ UNCHANGED <<schema, ledger, process, now>>

\* Anything but an acknowledgement is answered as asked and not retained;
\* unavailable, rejected and unsupported may not claim applied suppression.
AnswerOther(p) ==
  /\ Ready(p)
  /\ ~Expired
  /\ \E r \in Recipient, outcome \in Outcome \ {"acknowledged"} :
       Answer(r, Receipt(outcome, "none"))
  /\ UNCHANGED <<schema, ledger, process, now>>

\* No ledger, one that is not the approved class, or one that raises: the
\* acknowledgement asked for is answered as unavailable.
AnswerUnavailable(p) ==
  /\ process[p].pc = "retaining" \/ (Ready(p) /\ ~Expired)
  /\ \E r \in Recipient :
       /\ process[p].pc = "retaining" => r = process[p].recipient
       /\ Answer(r, Declined)
  /\ Goto(p, Idle)
  /\ UNCHANGED <<schema, ledger, now>>

\* An acknowledgement with applied suppression goes to the ledger.
StartRetain(p) ==
  /\ process[p].pc = "open"
  /\ ~Expired
  /\ \E r \in Recipient, e \in Evidence :
       Goto(p, [process[p] EXCEPT !.pc = "retaining", !.recipient = r, !.receipt = Receipt("acknowledged", e)])
  /\ UNCHANGED <<schema, ledger, now, answers>>

LastWriterWins(old, new) == new

FirstWriterWins(old, new) == IF old = NoReceipt THEN new ELSE old

\* One immediate transaction inserts unless present and reads the row back.
Retain(p) ==
  /\ process[p].pc = "retaining"
  /\ ContractValid
  /\ LET r == process[p].recipient
         row == FirstWriterWins(ledger[r], process[p].receipt)
     IN /\ ledger' = [ledger EXCEPT ![r] = row]
        /\ Goto(p, [process[p] EXCEPT !.pc = "retained", !.receipt = row])
  /\ UNCHANGED <<schema, now, answers>>

\* The row read back is validated against the envelope and returned.
Return(p) ==
  /\ process[p].pc = "retained"
  /\ Answer(process[p].recipient, IF Acknowledges(process[p].receipt) THEN process[p].receipt ELSE Declined)
  /\ Goto(p, [Idle EXCEPT !.pc = "open"])
  /\ UNCHANGED <<schema, ledger, now>>

\* A process dies anywhere; commits stay.
Crash(p) ==
  /\ process[p].pc # "idle"
  /\ Goto(p, Idle)
  /\ UNCHANGED <<schema, ledger, now, answers>>

Tick ==
  /\ now < MaxTime
  /\ now' = now + 1
  /\ UNCHANGED <<schema, ledger, process, answers>>

Init ==
  /\ schema = {}
  /\ ledger = [r \in Recipient |-> NoReceipt]
  /\ process = [p \in Process |-> Idle]
  /\ now = 0
  /\ answers = [r \in Recipient |-> {}]

Next ==
  \/ \E p \in Process :
       \/ StartOpen(p) \/ OpenStatement(p) \/ Opened(p) \/ Reject(p) \/ AnswerOther(p)
       \/ AnswerUnavailable(p) \/ StartRetain(p) \/ Retain(p) \/ Return(p) \/ Crash(p)
  \/ Tick

Spec == Init /\ [][Next]_vars

-----------------------------------------------------------------------------
(* What the receipts are used for: aggregate_revocation over one receipt per *)
(* recipient, and validated_suppressions over the records of a vault.        *)

Successful(choice) == {r \in DOMAIN choice : Acknowledges(choice[r])}

AggregateOutcome(choice) ==
  IF DOMAIN choice = Successful(choice) THEN "acknowledged" ELSE "partially-complete"

\* Receipts that together prove suppression of a record still at the revoked
\* revision: all acknowledge and they are one receipt; other lists are refused.
Suppresses(receipts) ==
  /\ \A a \in receipts : Acknowledges(a[2])
  /\ Cardinality(receipts) = 1

-----------------------------------------------------------------------------
Acknowledgement == {Receipt("acknowledged", e) : e \in Evidence}

AnswerType == [outcome : Outcome, evidence : Evidence \cup {"none"}]

CallType ==
  [pc : {"idle", "opening", "open", "retaining", "retained"}, opened : 0 .. 3,
   recipient : Recipient \cup {"none"}, receipt : Acknowledgement \cup {NoReceipt}]

\* A call on its way through the ledger carries an acknowledgement, and once the
\* transaction answered, the retained one.
CallOK(q, rows) ==
  q.pc \in {"retaining", "retained"} =>
    /\ q.recipient \in Recipient
    /\ q.receipt \in Acknowledgement
    /\ q.pc = "retained" => q.receipt = rows[q.recipient]

TypeOK ==
  /\ schema \subseteq Statements
  /\ ledger \in [Recipient -> Acknowledgement \cup {NoReceipt}]
  /\ process \in [Process -> CallType]
  /\ \A p \in Process : CallOK(process[p], ledger)
  /\ now \in 0 .. MaxTime
  /\ answers \in [Recipient -> SUBSET AnswerType]

\* Every acknowledgement ever returned for one envelope and recipient is the
\* one receipt the ledger retained first, whichever processes raced, died or
\* asked with other evidence (SQLiteRevocationReplayLedger.retain); so an
\* aggregate reports everybody acknowledged only when the ledger holds a
\* receipt of each, and a list of receipts that suppresses a record names a
\* retained one.
FirstAcknowledgementStands ==
  /\ \A r \in Recipient : \A a \in answers[r] : Acknowledges(a) => a = ledger[r]
  /\ \A choice \in [Recipient -> UNION {answers[r] : r \in Recipient}] :
       ((\A r \in Recipient : choice[r] \in answers[r]) /\ AggregateOutcome(choice) = "acknowledged")
         => \A r \in Recipient : choice[r] = ledger[r]
  /\ \A list \in SUBSET UNION {{<<r, a>> : a \in answers[r]} : r \in Recipient} :
       Suppresses(list) => \A x \in list : ledger[x[1]] = x[2]
=============================================================================
