----------------------------- MODULE MCAccounts -----------------------------
(* Instances of Accounts for TLC.                                          *)
EXTENDS Accounts, TLC

\* One address in two spellings: the domain is lower-cased, the rest stays.
TwoSpellings == {"a@x.org", "a@X.org"}
LowerDomain == [s \in TwoSpellings |-> "a@x.org"]

AccountsSymmetry == Permutations(Requests) \cup Permutations(Passwords) \cup Permutations(Roles)

=============================================================================
