----------------------------- MODULE MCAccounts -----------------------------
(* Instances of Accounts for TLC: the login of the day before and the      *)
(* requests of today.                                                      *)
EXTENDS Accounts, TLC

CONSTANTS r0, r1, r2, r3

MCRequests == {r0, r1, r2, r3}
MCEarly    == {r0}
MCKinds    == {"send", "register", "login", "refresh", "logout", "logoutall", "dereg",
               "undereg", "revoke", "ban", "unban", "order", "view", "notify", "grant"}
Symmetry   == Permutations({r1, r2, r3})
=============================================================================
