---------------------------- MODULE QuotaLedger ----------------------------
(***************************************************************************)
(* What the billing of pkv promises, without saying how: an account is     *)
(* granted quota, and work is done for it only as long as the work paid    *)
(* for so far fits in what was granted.  Module Billing implements it.     *)
(***************************************************************************)
EXTENDS Integers

CONSTANT Accounts

VARIABLES granted,   \* what the payment exchange has granted to an account
          spent      \* the price of the work done for it

ledger == <<granted, spent>>

LedgerInit == /\ granted = [a \in Accounts |-> 0]
              /\ spent   = [a \in Accounts |-> 0]

Grant(a) == /\ granted'[a] > granted[a]
            /\ granted' = [granted EXCEPT ![a] = granted'[a]]
            /\ UNCHANGED spent

Spend(a) == /\ spent'[a] > spent[a]
            /\ spent'[a] <= granted[a]
            /\ spent' = [spent EXCEPT ![a] = spent'[a]]
            /\ UNCHANGED granted

LedgerNext == \E a \in Accounts : Grant(a) \/ Spend(a)

LedgerSpec == LedgerInit /\ [][LedgerNext]_ledger
=============================================================================
