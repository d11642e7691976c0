--------------------------- MODULE ZtRegistration ---------------------------
(***************************************************************************)
(* What registration promises (README.md, section 1), as atomic steps: an  *)
(* account appears complete or not at all, a user id is registered once,   *)
(* and no two accounts share a telephone number (mdn).  Accounts change in *)
(* no other way, except that a Redis without a volume may lose them all.   *)
(***************************************************************************)

CONSTANTS Users, Mdns, Passwords,
          None          \* "no account"

VARIABLE accounts       \* accounts[u]: the account of u, or None

Account == [pwd : Passwords, mdn : Mdns]

NoAccounts == [u \in Users |-> None]

MdnTaken(m) == \E u \in Users : accounts[u] # None /\ accounts[u].mdn = m

Init == accounts = NoAccounts

Register(u, a) ==
    /\ accounts[u] = None
    /\ ~MdnTaken(a.mdn)
    /\ accounts' = [accounts EXCEPT ![u] = a]

LoseAll == accounts' = NoAccounts

Next == (\E u \in Users, a \in Account : Register(u, a)) \/ LoseAll

Spec == Init /\ [][Next]_accounts
=============================================================================
