----------------------------- MODULE MCAccounts -----------------------------
(* Small instances of Accounts.  Requests, PINs and addresses are interchangeable. *)
EXTENDS Accounts, TLC

SmallPinPolicy == [threshold |-> 2, base |-> 1, max |-> 2]
SmallPasswordPolicy == [threshold |-> 1, base |-> 1, max |-> 1]
Interchangeable ==
  Permutations(Request) \cup Permutations(Pin) \cup Permutations(Address)
    \cup Permutations(Account)
=============================================================================
