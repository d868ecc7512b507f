---------------------------- MODULE AuthSessions ----------------------------
(***************************************************************************)
(* Sign-in sessions of the Identity API: AuthService, the access and       *)
(* refresh token strategies and the tables users and user_sessions.        *)
(*                                                                         *)
(* A request is a chain of steps between two awaits; any two requests      *)
(* interleave at those points, on one Node process or on several.  A       *)
(* $transaction runs at READ COMMITTED: what its updateMany reaches is     *)
(* fixed when that statement starts (the *Snapshot actions), and becomes   *)
(* visible when the transaction commits (the *Commit actions).             *)
(*                                                                         *)
(* Abstractions.  A bcrypt comparison of a password is equality.  bcrypt   *)
(* reads 72 bytes, and the first 72 of a refresh token hold the JWT header *)
(* and the start of the "sub" claim: the stored digest of a refresh token  *)
(* depends on the user only, so user_sessions.refreshTokenHash is either   *)
(* the random "placeholder" of a new row or "token".  user.status is       *)
(* always 'active': nothing in the program writes it.  Email, phone and    *)
(* document are one identity per member of Users.                          *)
(***************************************************************************)
EXTENDS FiniteSets

CONSTANTS
    Users,       \* people who may register
    Sessions,    \* ids of user_sessions rows (bounds how many are ever opened)
    Passwords,   \* password values
    Requests,    \* request slots: how many auth requests are in flight at once
    Recoveries,  \* password-recovery requests, which lock user rows too
    None         \* no value

ASSUME NoneIsNoValue ==
    None \notin Users \cup Sessions \cup Passwords \cup Requests \cup Recoveries

VARIABLES
    password,    \* users.password, None while there is no row
    restricted,  \* users under an active administrative restriction
    owner,       \* user_sessions.userId
    status,      \* "absent", or user_sessions.isActive as "active" / "closed"
    digest,      \* user_sessions.refreshTokenHash
    unexpired,   \* sessions whose expiresAt is in the future
    delivered,   \* sessions whose token pair reached the client
    rowLock,     \* transaction that has updated a users row and not committed
    req          \* what each request slot is doing

sessionVars == <<owner, status, digest, unexpired>>
vars == <<password, restricted, sessionVars, delivered, rowLock, req>>

-----------------------------------------------------------------------------

OpeningOps == {"login", "social"}
Ops == OpeningOps \cup {"none", "register", "refresh", "logout", "change"}
Terminal == {"idle", "done", "mismatch"}
Stages == Terminal \cup
    {"checked",     \* credential accepted, account state not read yet
     "validated",   \* may open a session
     "opening",     \* transaction: updateMany has run, INSERT not committed
     "issuing",     \* session row committed: tokens being signed and hashed
     "stored",      \* token hash written: response being built
     "authorized",  \* access token accepted by the guard
     "verified",    \* current password compared
     "changing",    \* transaction: user row and updateMany have run
     "changed"}     \* committed: confirmation email being sent

RequestState ==
    [op : Ops, stage : Stages, user : Users \cup {None},
     session : Sessions \cup {None}, pw : Passwords \cup {None},
     seen : SUBSET Sessions]

\* A slot without a request.  A request that is refused, that fails or that has
\* nothing left to relate to leaves no trace.
IdleRequest ==
    [op |-> "none", stage |-> "idle", user |-> None, session |-> None,
     pw |-> None, seen |-> {}]

TypeOK ==
    /\ password \in [Users -> Passwords \cup {None}]
    /\ restricted \subseteq Users
    /\ owner \in [Sessions -> Users \cup {None}]
    /\ status \in [Sessions -> {"absent", "active", "closed"}]
    /\ digest \in [Sessions -> {"placeholder", "token"}]
    /\ unexpired \subseteq Sessions
    /\ delivered \subseteq Sessions
    /\ rowLock \in [Users -> Requests \cup Recoveries \cup {None}]
    /\ req \in [Requests -> RequestState]

\* Some users have registered before; whatever sessions they had are closed.
Init ==
    /\ password \in [Users -> Passwords \cup {None}]
    /\ restricted = {}
    /\ owner = [s \in Sessions |-> None]
    /\ status = [s \in Sessions |-> "absent"]
    /\ digest = [s \in Sessions |-> "placeholder"]
    /\ unexpired = {}
    /\ delivered = {}
    /\ rowLock = [u \in Users |-> None]
    /\ req = [r \in Requests |-> IdleRequest]

-----------------------------------------------------------------------------
(* Helpers.                                                                *)

Registered(u) == password[u] # None

\* A slot whose request has ended takes the next one.
Free(r) == req[r].stage \in Terminal

\* Bound: a request that may open a session starts only while an id is left,
\* and names it at once (the database generates it at the INSERT).
FreshSession(s) ==
    /\ status[s] = "absent"
    /\ \A r \in Requests : req[r].session # s

\* The rows a statement of u's transaction can see: all that are committed.
VisibleSessions(u) == {s \in Sessions : status[s] # "absent" /\ owner[s] = u}

\* updateMany {userId, isActive: true} -> isActive: false, over the rows seen.
Swept(rows) == [s \in Sessions |->
    IF s \in rows /\ status[s] = "active" THEN "closed" ELSE status[s]]

\* create: the row of session s of user u, on top of the statuses given.
InsertSession(s, u, statuses) ==
    /\ status' = [statuses EXCEPT ![s] = "active"]
    /\ owner' = [owner EXCEPT ![s] = u]
    /\ digest' = [digest EXCEPT ![s] = "placeholder"]
    /\ unexpired' = unexpired \cup {s}

\* How request r starts, goes on and ends; a check lets it through or refuses it.
Start(r, op, u, s, pw, stage) ==
    req' = [req EXCEPT ![r] =
        [op |-> op, stage |-> stage, user |-> u, session |-> s, pw |-> pw,
         seen |-> {}]]
Goto(r, stage) == req' = [req EXCEPT ![r].stage = stage]
End(r) == req' = [req EXCEPT ![r] = IdleRequest]
GotoIf(r, ok, stage) == IF ok THEN Goto(r, stage) ELSE End(r)

-----------------------------------------------------------------------------
(* Registration.                                                           *)

\* register: validation, then findFirst by email, phone or document.  A request
\* refused by its first check changes nothing, and is no action here.
RegisterCheck(r, u, p, s) ==
    /\ Free(r) /\ FreshSession(s) /\ ~Registered(u)
    /\ Start(r, "register", u, s, p, "validated")
    /\ UNCHANGED <<password, restricted, sessionVars, delivered, rowLock>>

\* register: the transaction.  A row inserted since the check violates the
\* unique constraint: the whole transaction is rolled back.
RegisterCommit(r) ==
    LET u == req[r].user  s == req[r].session IN
    /\ req[r].stage = "validated" /\ req[r].op = "register"
    /\ IF Registered(u)
       THEN /\ End(r)
            /\ UNCHANGED <<password, sessionVars>>
       ELSE /\ password' = [password EXCEPT ![u] = req[r].pw]
            /\ InsertSession(s, u, status)
            /\ Goto(r, "issuing")
    /\ UNCHANGED <<restricted, delivered, rowLock>>

-----------------------------------------------------------------------------
(* Opening a session: password login and social login.                     *)

\* validateUser: the user row is read once and the password compared with it.
PasswordCheck(r, u, p, s) ==
    /\ Free(r) /\ FreshSession(s) /\ Registered(u) /\ password[u] = p
    /\ Start(r, "login", u, s, None, "checked")
    /\ UNCHANGED <<password, restricted, sessionVars, delivered, rowLock>>

\* completeSocialLogin: the provider vouches for u, who has a local account.
SocialCheck(r, u, s) ==
    /\ Free(r) /\ FreshSession(s) /\ Registered(u)
    /\ Start(r, "social", u, s, None, "checked")
    /\ UNCHANGED <<password, restricted, sessionVars, delivered, rowLock>>

\* getUserAccountState, read by validateUser, refresh and social login.
AccountStateCheck(r) ==
    /\ req[r].stage = "checked"
    /\ GotoIf(r, req[r].user \notin restricted,
              IF req[r].op = "refresh" THEN "issuing" ELSE "validated")
    /\ UNCHANGED <<password, restricted, sessionVars, delivered, rowLock>>

\* createAuthenticatedSession: the updateMany of the transaction starts.
OpenSnapshot(r) ==
    /\ req[r].stage = "validated" /\ req[r].op \in OpeningOps
    /\ req' = [req EXCEPT ![r] = [@ EXCEPT
         !.stage = "opening", !.seen = VisibleSessions(req[r].user)]]
    /\ UNCHANGED <<password, restricted, sessionVars, delivered, rowLock>>

\* createAuthenticatedSession: INSERT and commit.
OpenCommit(r) ==
    /\ req[r].stage = "opening"
    /\ InsertSession(req[r].session, req[r].user, Swept(req[r].seen))
    /\ Goto(r, "issuing")
    /\ UNCHANGED <<password, restricted, delivered, rowLock>>

\* Mutated: the update also sets isActive.
StoreToken_Reviving(r) ==
    /\ req[r].stage = "issuing"
    /\ digest' = [digest EXCEPT ![req[r].session] = "token"]
    /\ status' = [status EXCEPT ![req[r].session] = "active"]
    /\ unexpired' = unexpired \cup {req[r].session}
    /\ Goto(r, "stored")
    /\ UNCHANGED <<password, restricted, owner, delivered, rowLock>>

\* Mutated: the hash is missing from the update.
StoreToken_KeepsHash(r) ==
    /\ req[r].stage = "issuing"
    /\ unexpired' = unexpired \cup {req[r].session}
    /\ Goto(r, "stored")
    /\ UNCHANGED <<password, restricted, owner, status, digest, delivered,
                   rowLock>>

\* The update by id that stores the hash and expiry of the issued token.  It
\* does not read or write isActive.
StoreToken(r) ==
    /\ req[r].stage = "issuing"
    /\ digest' = [digest EXCEPT ![req[r].session] = "token"]
    /\ unexpired' = unexpired \cup {req[r].session}
    /\ Goto(r, "stored")
    /\ UNCHANGED <<password, restricted, owner, status, delivered, rowLock>>

\* buildAuthResponse, and the token pair reaches the client.
Respond(r) ==
    /\ req[r].stage = "stored"
    /\ delivered' = delivered \cup {req[r].session}
    /\ Goto(r, "done")
    /\ UNCHANGED <<password, restricted, sessionVars, rowLock>>

-----------------------------------------------------------------------------
(* Refresh, logout and change of password.                                 *)

\* refresh: one read of the session row decides about activity, expiry and
\* the presented token, which is one of the tokens clients hold.
RefreshCheck(r, s) ==
    /\ Free(r) /\ s \in delivered /\ status[s] = "active" /\ s \in unexpired
    /\ Start(r, "refresh", owner[s], s, None,
             IF digest[s] = "token" THEN "checked" ELSE "mismatch")
    /\ UNCHANGED <<password, restricted, sessionVars, delivered, rowLock>>

\* Mutated: the user and the session are swapped.
Authorize_Swapped(r, s, op) ==
    /\ Free(r) /\ s \in delivered /\ status[s] = "active"
    /\ Start(r, op, s, owner[s], None, "authorized")
    /\ UNCHANGED <<password, restricted, sessionVars, delivered, rowLock>>

\* JwtStrategy.validate: the access token's session must be active.
Authorize(r, s, op) ==
    /\ Free(r) /\ s \in delivered /\ status[s] = "active"
    /\ Start(r, op, owner[s], s, None, "authorized")
    /\ UNCHANGED <<password, restricted, sessionVars, delivered, rowLock>>

\* logout: updateMany {id, isActive: true} -> isActive: false.
Logout(r) ==
    /\ req[r].stage = "authorized" /\ req[r].op = "logout"
    /\ status' = Swept({req[r].session})
    /\ End(r)
    /\ UNCHANGED <<password, restricted, owner, digest, unexpired, delivered,
                   rowLock>>

\* changePassword: the user row is read once; the current password must match
\* it and the new one must differ from it.
ChangeCheck(r, current, new) ==
    LET stored == password[req[r].user] IN
    /\ req[r].stage = "authorized" /\ req[r].op = "change"
    /\ IF stored = current /\ new # stored
       THEN req' = [req EXCEPT ![r] = [@ EXCEPT !.stage = "verified", !.pw = new]]
       ELSE End(r)
    /\ UNCHANGED <<password, restricted, sessionVars, delivered, rowLock>>

\* changePassword: the transaction updates the user row, whose lock it keeps
\* until it commits, and starts its updateMany.
ChangeSnapshot(r) ==
    LET u == req[r].user IN
    /\ req[r].stage = "verified" /\ rowLock[u] = None
    /\ rowLock' = [rowLock EXCEPT ![u] = r]
    /\ req' = [req EXCEPT ![r] = [@ EXCEPT
         !.stage = "changing", !.seen = VisibleSessions(u)]]
    /\ UNCHANGED <<password, restricted, sessionVars, delivered>>

\* Mutated: the requesting session is spared.
ChangeCommit_SparesOwn(r) ==
    LET u == req[r].user IN
    /\ req[r].stage = "changing"
    /\ password' = [password EXCEPT ![u] = req[r].pw]
    /\ status' = Swept(req[r].seen \ {req[r].session})
    /\ rowLock' = [rowLock EXCEPT ![u] = None]
    /\ Goto(r, "changed")
    /\ UNCHANGED <<restricted, owner, digest, unexpired, delivered>>

\* changePassword: the transaction commits.
ChangeCommit(r) ==
    LET u == req[r].user IN
    /\ req[r].stage = "changing"
    /\ password' = [password EXCEPT ![u] = req[r].pw]
    /\ status' = Swept(req[r].seen)
    /\ rowLock' = [rowLock EXCEPT ![u] = None]
    /\ Goto(r, "changed")
    /\ UNCHANGED <<restricted, owner, digest, unexpired, delivered>>

\* The confirmation email, after the commit.
ChangeNotify(r) ==
    /\ req[r].stage = "changed"
    /\ Goto(r, "done")
    /\ UNCHANGED <<password, restricted, sessionVars, delivered, rowLock>>

-----------------------------------------------------------------------------
(* The environment.                                                        *)

\* Mutated: a lock that is not tied to the connection outlives the request.
Crash_KeepsLock(r) ==
    /\ ~Free(r)
    /\ End(r)
    /\ UNCHANGED <<password, restricted, sessionVars, delivered, rowLock>>

\* The process dies, or a query, a transaction or the mail server fails: the
\* request ends where it is, and its open transaction is rolled back.
Crash(r) ==
    /\ ~Free(r)
    /\ rowLock' = [u \in Users |-> IF rowLock[u] = r THEN None ELSE rowLock[u]]
    /\ End(r)
    /\ UNCHANGED <<password, restricted, sessionVars, delivered>>

\* The expiry date of a session passes.
Expire(s) ==
    /\ s \in unexpired
    /\ unexpired' = unexpired \ {s}
    /\ UNCHANGED <<password, restricted, owner, status, digest, delivered,
                   rowLock, req>>

\* An administrative restriction begins or ends.
BeginRestriction(u) ==
    /\ restricted' = restricted \cup {u}
    /\ UNCHANGED <<password, sessionVars, delivered, rowLock, req>>

EndRestriction(u) ==
    /\ restricted' = restricted \ {u}
    /\ UNCHANGED <<password, sessionVars, delivered, rowLock, req>>

-----------------------------------------------------------------------------

Arrive(r) ==
    \/ \E u \in Users, p \in Passwords, s \in Sessions :
          RegisterCheck(r, u, p, s) \/ PasswordCheck(r, u, p, s)
    \/ \E u \in Users, s \in Sessions : SocialCheck(r, u, s)
    \/ \E s \in Sessions : RefreshCheck(r, s)
    \/ \E s \in Sessions, op \in {"logout", "change"} : Authorize(r, s, op)

\* The steps of a request that has arrived.
Proceed(r) ==
    \/ RegisterCommit(r)
    \/ AccountStateCheck(r)
    \/ OpenSnapshot(r)
    \/ OpenCommit(r)
    \/ StoreToken(r)
    \/ Respond(r)
    \/ Logout(r)
    \/ \E current, new \in Passwords : ChangeCheck(r, current, new)
    \/ ChangeCommit(r)
    \/ ChangeNotify(r)

Environment ==
    \/ \E s \in Sessions : Expire(s)
    \/ \E u \in Users : BeginRestriction(u) \/ EndRestriction(u)

Next ==
    \/ \E r \in Requests :
          Arrive(r) \/ Proceed(r) \/ ChangeSnapshot(r) \/ Crash(r)
    \/ Environment

Spec == Init /\ [][Next]_vars

\* A started request keeps running: the event loop and the database serve it.
\* The lock manager queues waiters, so a lock freed again and again is granted.
Fairness == \A r \in Requests :
    WF_vars(Proceed(r)) /\ SF_vars(ChangeSnapshot(r))

FairSpec == Spec /\ Fairness

-----------------------------------------------------------------------------
(* Properties.                                                             *)

\* The transaction of r that closes the sessions it saw has committed.
HasSwept(r) ==
    \/ req[r].op \in OpeningOps /\ req[r].stage \in {"issuing", "stored", "done"}
    \/ req[r].op = "change" /\ req[r].stage \in {"changed", "done"}

\* A login or a change of password that has committed has closed, for good,
\* every session of the user its transaction could see; no refresh or logout
\* running across it leaves one open.  (createAuthenticatedSession and
\* changePassword; sessions inserted after the updateMany are not covered.)
SweepsAreFinal ==
    \A r \in Requests : HasSwept(r) => \A s \in req[r].seen : status[s] = "closed"

\* A password change that went through has ended the session it was asked
\* from, whatever ran between the guard, the password check and the commit.
ChangeEndsOwnSession ==
    \A r \in Requests :
        req[r].op = "change" /\ req[r].stage \in {"changed", "done"}
        => status[req[r].session] = "closed"

\* A token that reached a client belongs to a session whose stored hash is a
\* token's, never the placeholder of a half-opened session: refresh answers
\* refresh_token_hash_mismatch to no client of this program.
DeliveredTokensMatch ==
    /\ \A s \in delivered : digest[s] = "token"
    /\ \A r \in Requests : req[r].stage # "mismatch"

\* A closed session is never active again: the token update of a refresh or
\* a login that was in flight when it was closed does not revive it.
ClosedStaysClosed ==
    [][\A s \in Sessions : status[s] = "closed" => status'[s] = "closed"]_vars

\* Every request that has arrived ends, also one that waits for the lock of a
\* user row held by another change of password or by one that crashed.
RequestsEnd == \A r \in Requests : ~Free(r) ~> Free(r)

=============================================================================
