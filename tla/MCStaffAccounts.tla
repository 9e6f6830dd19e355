--------------------------- MODULE MCStaffAccounts ---------------------------
(* StaffAccounts on small instances.                                       *)
EXTENDS StaffAccounts, TLC

AccountSymmetry == Permutations(Codes) \cup Permutations(Reqs)

\* Bounds: once requests have overlapped or stopped, which ToldPasswordWorks and
\* AdminsChangedByAdmins do not speak of, only deletions and requests about codes come in;
\* and codes are not those for registration, which no request uses.
AccountBound ==
    /\ ~clean => \A r \in Reqs : req[r].op \in {"idle", "delete", "otp", "find", "reset"}
    /\ \A c \in Codes : codes[c].state # "ABSENT" => codes[c].type = "FORGOT_PASSWORD"
=============================================================================
