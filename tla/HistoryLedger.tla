---------------------------- MODULE HistoryLedger ---------------------------
(***************************************************************************)
(* What the history promises the collector, without files: whatever an     *)
(* Update accepts is counted once, first in RAM only, then for good; a     *)
(* crash forgets what was in RAM only, and nothing else is ever forgotten. *)
(***************************************************************************)
CONSTANT Batches

VARIABLES
  accepted,  \* the batches with bytes that Update has accepted
  ram,       \* accepted, but not yet written where a restart finds them
  ledger     \* the batches a restart would count

ledgerVars == <<accepted, ram, ledger>>

LedgerInit == accepted = {} /\ ram = {} /\ ledger = {}

Accept(B) ==
  /\ B \cap accepted = {}
  /\ accepted' = accepted \cup B
  /\ ram' = ram \cup B
  /\ UNCHANGED ledger

(* A checkpoint writes the whole minute.                                   *)
Persist ==
  /\ ledger' = ledger \cup ram
  /\ ram' = {}
  /\ UNCHANGED accepted

Forget ==
  /\ ram' = {}
  /\ UNCHANGED <<accepted, ledger>>

LedgerNext == (\E B \in SUBSET Batches : Accept(B)) \/ Persist \/ Forget

LedgerSpec == LedgerInit /\ [][LedgerNext]_ledgerVars
=============================================================================
