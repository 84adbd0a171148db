------------------------------ MODULE MCLedger ------------------------------
(* A small instance of Ledger for TLC.                                     *)
EXTENDS Ledger

CONSTANTS a1, a2, a3

\* The whole word handed out; a repeated account, and one given 0; too much.
MCAllocations ==
  { << [acct |-> a1, bal |-> 7], [acct |-> a2, bal |-> 5] >>,
    << [acct |-> a1, bal |-> 2], [acct |-> a1, bal |-> 9], [acct |-> a2, bal |-> 0] >>,
    << [acct |-> a1, bal |-> 12], [acct |-> a2, bal |-> 4] >> }
=============================================================================
