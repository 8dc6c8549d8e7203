---------------------------- MODULE ShareLedger -----------------------------
(***************************************************************************)
(* What submitting shares promises, whatever its threads do: each share    *)
(* that was found is settled once, as accepted, rejected or lost, or is    *)
(* discarded when submitting is disabled; settling a share counts it, as   *)
(* submitted and, if so, as accepted, in one step.                         *)
(***************************************************************************)
EXTENDS Naturals, FiniteSets

CONSTANTS Shares

VARIABLES ledger, nSubmitted, nAccepted

ledgerVars == <<ledger, nSubmitted, nAccepted>>

Verdicts == {"accepted", "rejected", "lost"}

LedgerInit ==
  /\ ledger = [s \in Shares |-> "none"]
  /\ nSubmitted = 0
  /\ nAccepted = 0

Find(s) ==
  /\ ledger[s] = "none"
  /\ ledger' = [ledger EXCEPT ![s] = "pending"]
  /\ UNCHANGED <<nSubmitted, nAccepted>>

Settle(s, verdict) ==
  /\ ledger[s] = "pending"
  /\ ledger' = [ledger EXCEPT ![s] = verdict]
  /\ nSubmitted' = nSubmitted + 1
  /\ nAccepted' = IF verdict = "accepted" THEN nAccepted + 1 ELSE nAccepted

Discard(s) ==
  /\ ledger[s] = "pending"
  /\ ledger' = [ledger EXCEPT ![s] = "discarded"]
  /\ UNCHANGED <<nSubmitted, nAccepted>>

LedgerNext ==
  \E s \in Shares :
    \/ Find(s)
    \/ \E v \in Verdicts : Settle(s, v)
    \/ Discard(s)

LedgerSpec == LedgerInit /\ [][LedgerNext]_ledgerVars
=============================================================================
