---------------------------- MODULE AuthSession ----------------------------
(***************************************************************************)
(* Sessions of the staff: AuthService.login, refreshToken and logout       *)
(* (auth.service.ts) over the RefreshToken and Device rows, and the cron   *)
(* job that removes expired tokens.                                        *)
(*                                                                         *)
(* A refresh token is exchanged for a new one.  The deletion of the old    *)
(* row and the insertion of the new one run side by side (Promise.all), so *)
(* either may come first, and one may fail while the other succeeds.       *)
(***************************************************************************)
EXTENDS Naturals

CONSTANTS
    Devices,   \* ids a device can get: one for each login
    Tokens,    \* refresh tokens that can be signed, all different (uuid)
    Reqs,      \* request slots
    None       \* no device, no token

ASSUME NoneAssumption == None \notin Devices /\ None \notin Tokens

VARIABLES
    dev,      \* dev[d]: the Device row, ACTIVE or not (isActive)
    token,    \* token[t]: the device t was signed for, and the token it replaced
    rows,     \* the tokens in the RefreshToken table
    expired,  \* the tokens past their exp, which is their row's expiresAt too
    held,     \* the tokens a client has been given
    req       \* req[r]: where the request in slot r stands

vars == <<dev, token, rows, expired, held, req>>

-----------------------------------------------------------------------------
Unsigned == [device |-> None, from |-> None]

\* todo: the calls not made yet.  ok: no call has failed.
Request == [op: {"idle", "issue", "logout"}, device: Devices \cup {None},
            old: Tokens \cup {None}, new: Tokens \cup {None},
            todo: SUBSET {"delete", "insert"}, ok: BOOLEAN]
Idle    == [op |-> "idle", device |-> None, old |-> None, new |-> None,
            todo |-> {}, ok |-> TRUE]

Signed(t) == token[t].device # None

TypeOK ==
    /\ dev \in [Devices -> {"NONE", "ACTIVE", "LOGGED_OUT"}]
    /\ token \in [Tokens -> [device: Devices \cup {None}, from: Tokens \cup {None}]]
    /\ rows \subseteq Tokens /\ expired \subseteq Tokens /\ held \subseteq Tokens
    /\ req \in [Reqs -> Request]

Init ==
    /\ dev = [d \in Devices |-> "NONE"]
    /\ token = [t \in Tokens |-> Unsigned]
    /\ rows = {} /\ expired = {} /\ held = {}
    /\ req = [r \in Reqs |-> Idle]

-----------------------------------------------------------------------------
\* The password is right: a new device, then a token for it.
Login(r, d) ==
    /\ req[r].op = "idle"
    /\ dev[d] = "NONE"
    /\ dev' = [dev EXCEPT ![d] = "ACTIVE"]
    /\ req' = [req EXCEPT ![r] = [op |-> "issue", device |-> d, old |-> None,
                                  new |-> None, todo |-> {"insert"}, ok |-> TRUE]]
    /\ UNCHANGED <<token, rows, expired, held>>

\* refreshToken verifies the token and finds its row.
ReadToken(r, t) ==
    /\ req[r].op = "idle"
    /\ t \in held \ expired /\ t \in rows
    /\ req' = [req EXCEPT ![r] = [op |-> "issue", device |-> token[t].device, old |-> t,
                                  new |-> None, todo |-> {"delete", "insert"}, ok |-> TRUE]]
    /\ UNCHANGED <<dev, token, rows, expired, held>>

\* Mutant of DeleteOld: deleteMany, which does not fail when the row is gone.
DeleteOldQuietly(r) ==
    /\ "delete" \in req[r].todo
    /\ rows' = rows \ {req[r].old}
    /\ req' = [req EXCEPT ![r].todo = @ \ {"delete"}]
    /\ UNCHANGED <<dev, token, expired, held>>

\* The deletion fails when the row is not there any more.
DeleteOld(r) ==
    /\ "delete" \in req[r].todo
    /\ rows' = rows \ {req[r].old}
    /\ req' = [req EXCEPT ![r].todo = @ \ {"delete"}, ![r].ok = req[r].old \in rows]
    /\ UNCHANGED <<dev, token, expired, held>>

\* Mutant of InsertNew: the token is signed with device and predecessor swapped.
InsertSwapped(r) ==
    /\ "insert" \in req[r].todo
    /\ \E n \in Tokens :
        /\ ~Signed(n)
        /\ token' = [token EXCEPT ![n] = [device |-> req[r].old, from |-> req[r].device]]
        /\ rows' = rows \cup {n}
        /\ req' = [req EXCEPT ![r].todo = @ \ {"insert"}, ![r].new = n]
    /\ UNCHANGED <<dev, expired, held>>

\* generateTokens: sign, then insert, whatever becomes of the deletion.
InsertNew(r) ==
    /\ "insert" \in req[r].todo
    /\ \E n \in Tokens :
        /\ ~Signed(n)
        /\ token' = [token EXCEPT ![n] = [device |-> req[r].device, from |-> req[r].old]]
        /\ rows' = rows \cup {n}
        /\ req' = [req EXCEPT ![r].todo = @ \ {"insert"}, ![r].new = n]
    /\ UNCHANGED <<dev, expired, held>>

\* The client is given the new token if every call has succeeded.
Answer(r) ==
    /\ req[r].op = "issue" /\ req[r].todo = {}
    /\ held' = IF req[r].ok THEN held \cup {req[r].new} ELSE held
    /\ req' = [req EXCEPT ![r] = Idle]
    /\ UNCHANGED <<dev, token, rows, expired>>

\* Mutant of Logout: the token's row is left to the cron job.
LogoutDeviceOnly(r, t) ==
    /\ req[r].op = "idle"
    /\ t \in held \ expired /\ t \in rows
    /\ req' = [req EXCEPT ![r] = [Idle EXCEPT !.op = "logout", !.device = token[t].device]]
    /\ UNCHANGED <<dev, token, rows, expired, held>>

\* logout verifies the token and deletes its row (a row that is gone ends it) ...
Logout(r, t) ==
    /\ req[r].op = "idle"
    /\ t \in held \ expired /\ t \in rows
    /\ rows' = rows \ {t}
    /\ req' = [req EXCEPT ![r] = [Idle EXCEPT !.op = "logout", !.device = token[t].device]]
    /\ UNCHANGED <<dev, token, expired, held>>

\* ... and marks the row's device.
MarkLoggedOut(r) ==
    /\ req[r].op = "logout"
    /\ dev' = [dev EXCEPT ![req[r].device] = "LOGGED_OUT"]
    /\ req' = [req EXCEPT ![r] = Idle]
    /\ UNCHANGED <<token, rows, expired, held>>

\* A call fails or the server goes down.
Fail(r) ==
    /\ req[r].op # "idle"
    /\ req' = [req EXCEPT ![r] = Idle]
    /\ UNCHANGED <<dev, token, rows, expired, held>>

Expire(t) ==
    /\ Signed(t) /\ t \notin expired
    /\ expired' = expired \cup {t}
    /\ UNCHANGED <<dev, token, rows, held, req>>

\* RemoveRefreshTokenCronjob, every night.
RemoveExpired ==
    /\ rows' = rows \ expired
    /\ UNCHANGED <<dev, token, expired, held, req>>

-----------------------------------------------------------------------------
Handle(r) ==
    \/ \E d \in Devices : Login(r, d)
    \/ \E t \in Tokens : ReadToken(r, t) \/ Logout(r, t)
    \/ DeleteOld(r) \/ InsertNew(r) \/ Answer(r) \/ MarkLoggedOut(r) \/ Fail(r)

Next == \/ \E r \in Reqs : Handle(r)
        \/ \E t \in Tokens : Expire(t)
        \/ RemoveExpired

Spec == Init /\ [][Next]_vars

-----------------------------------------------------------------------------
(* Properties                                                              *)

\* A token a client could refresh with.
Live == held \cap rows

\* One session, one token: however many requests refresh it at once, and whichever of
\* their calls fail, no device has two tokens that clients can go on with.
OneLiveTokenPerDevice ==
    \A t, u \in Live : token[t].device = token[u].device => t = u

\* A token is exchanged once: no two clients hold successors of the same token.
ExchangedOnce ==
    \A t, u \in held : token[t].from = token[u].from /\ token[t].from # None => t = u

\* Logged out is logged out: no refresh that was under way gets past it.
LoggedOutIsOut == \A t \in Live : dev[token[t].device] # "LOGGED_OUT"

\* What makes them inductive.  A request has its device's session in hand once it has
\* deleted the old row itself; it gives it back with Answer, or never.
HasSession(r) == \/ req[r].op = "logout"
                 \/ req[r].op = "issue" /\ req[r].ok /\ "delete" \notin req[r].todo

SlotMatches(r) ==
    /\ req[r].op # "idle" => req[r].device \in Devices /\ dev[req[r].device] # "NONE"
    /\ req[r].op # "issue" => req[r].todo = {} /\ req[r].old = None /\ req[r].new = None
    /\ "delete" \in req[r].todo => req[r].old # None
    /\ req[r].old # None => req[r].old \in held /\ token[req[r].old].device = req[r].device
    /\ req[r].op = "issue" /\ "insert" \in req[r].todo => req[r].new = None
    /\ req[r].op = "issue" /\ "insert" \notin req[r].todo =>
          /\ req[r].new \in Tokens \ held
          /\ token[req[r].new].device = req[r].device /\ token[req[r].new].from = req[r].old
    /\ \A q \in Reqs : req[q].new = req[r].new /\ req[r].new # None => q = r

SlotsMatch == \A r \in Reqs : SlotMatches(r)

TokensMatch ==
    /\ \A t \in rows \cup held \cup expired : Signed(t)
    /\ \A t \in Tokens : token[t].from # None => Signed(token[t].from)
    /\ \A t \in Tokens : Signed(t) => dev[token[t].device] # "NONE"
    /\ \A t \in held : token[t].from # None => token[t].from \notin rows

SessionsMatch ==
    \A r \in Reqs : HasSession(r) =>
        /\ \A t \in Live : token[t].device # req[r].device
        /\ dev[req[r].device] # "LOGGED_OUT"
        /\ \A q \in Reqs : HasSession(q) /\ req[q].device = req[r].device => q = r
        /\ req[r].old # None =>
              req[r].old \notin rows /\ \A t \in held : token[t].from # req[r].old

SessionInv == /\ SlotsMatch /\ TokensMatch /\ SessionsMatch
              /\ OneLiveTokenPerDevice /\ ExchangedOnce /\ LoggedOutIsOut
=============================================================================
