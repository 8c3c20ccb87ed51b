----------------------------- MODULE MCAccounts -----------------------------
(* TLC instances of Accounts: a student's and a reviewer's account, two    *)
(* requests in flight.                                                     *)
EXTENDS Accounts
=============================================================================
