------------------------- MODULE AuthSessions_proofs -------------------------
(***************************************************************************)
(* Proofs about AuthSessions for any users, sessions, passwords and        *)
(* requests.  The inductive invariant relates each request to the session  *)
(* row it works on.                                                        *)
(***************************************************************************)
EXTENDS AuthSessions, TLAPS

-----------------------------------------------------------------------------
(* The inductive invariant.                                                *)

\* Which operations pass through which stages, and that they carry a user and
\* a session from the moment they start.
StagesMatch ==
    \A r \in Requests :
        LET op == req[r].op  stage == req[r].stage IN
        /\ stage = "idle" <=> op = "none"
        /\ op # "none" => req[r].user \in Users /\ req[r].session \in Sessions
        /\ stage = "checked" => op \in OpeningOps \cup {"refresh"}
        /\ stage = "validated" => op \in OpeningOps \cup {"register"}
        /\ stage = "opening" => op \in OpeningOps
        /\ stage \in {"issuing", "stored"}
               => op \in OpeningOps \cup {"register", "refresh"}
        /\ stage = "authorized" => op \in {"logout", "change"}
        /\ stage \in {"verified", "changing", "changed"} => op = "change"

\* A row has an owner.
RowsOwned == \A s \in Sessions : status[s] # "absent" => owner[s] \in Users

\* A request that will insert a session row is the only one that names it.
WillInsert(r) ==
    \/ req[r].op \in OpeningOps /\ req[r].stage \in {"checked", "validated", "opening"}
    \/ req[r].op = "register" /\ req[r].stage = "validated"
ReservedIds ==
    \A r \in Requests : WillInsert(r) =>
        /\ status[req[r].session] = "absent"
        /\ \A q \in Requests : q # r => req[q].session # req[r].session

\* The rows requests refer to exist, with a token's hash where one was given.
RowsExist ==
    /\ \A s \in delivered : status[s] # "absent" /\ digest[s] = "token"
    /\ \A r \in Requests :
        /\ \A s \in req[r].seen : status[s] # "absent"
        /\ req[r].stage \in {"issuing", "stored"}
           \/ req[r].op \in {"refresh", "logout", "change"}
              => status[req[r].session] # "absent"
        /\ req[r].stage = "stored" => digest[req[r].session] = "token"
        /\ req[r].stage # "mismatch"

\* A change of password sweeps the session it was asked from.
OwnSessionSeen ==
    \A r \in Requests : req[r].op = "change" =>
        /\ req[r].stage \in {"authorized", "verified"}
               => owner[req[r].session] = req[r].user
        /\ req[r].stage \in {"changing", "changed", "done"}
               => req[r].session \in req[r].seen

IInv ==
    /\ TypeOK
    /\ StagesMatch
    /\ RowsOwned
    /\ ReservedIds
    /\ RowsExist
    /\ OwnSessionSeen
    /\ SweepsAreFinal

-----------------------------------------------------------------------------
(* Invariance, one step per action.                                        *)

\* The initial state, where no request has started and no row exists.
LEMMA InitInvariant == Init => IInv
  BY NoneIsNoValue DEF Init, IdleRequest, IInv, TypeOK, StagesMatch, RowsOwned,
     WillInsert, ReservedIds, RowsExist, OwnSessionSeen, SweepsAreFinal, HasSwept,
     RequestState, Stages, Ops, OpeningOps, Terminal

\* Every step of every request, and of the environment, keeps the invariant.
LEMMA NextInvariant == IInv /\ [Next]_vars => IInv'
<1> SUFFICES ASSUME IInv, [Next]_vars PROVE IInv'
  OBVIOUS
<1> USE NoneIsNoValue
        DEF IInv, TypeOK, StagesMatch, RowsOwned, WillInsert, ReservedIds, RowsExist,
        OwnSessionSeen, SweepsAreFinal, HasSwept, RequestState, Stages, Ops,
        OpeningOps, Terminal
<1>1. ASSUME NEW r \in Requests, NEW u \in Users, NEW p \in Passwords, NEW s \in Sessions, 
            RegisterCheck(r, u, p, s)
     PROVE  IInv'
  BY <1>1, SMTT(30) DEF RegisterCheck, Start, Free, FreshSession, Registered, sessionVars
<1>2. ASSUME NEW r \in Requests, NEW u \in Users, NEW p \in Passwords, NEW s \in Sessions, 
            PasswordCheck(r, u, p, s)
     PROVE  IInv'
  BY <1>2, SMTT(30) DEF PasswordCheck, Start, Free, FreshSession, Registered, sessionVars
<1>3. ASSUME NEW r \in Requests, NEW u \in Users, NEW s \in Sessions, 
            SocialCheck(r, u, s)
     PROVE  IInv'
  BY <1>3, SMTT(30) DEF SocialCheck, Start, Free, FreshSession, Registered, sessionVars
<1>4. ASSUME NEW r \in Requests, NEW s \in Sessions, 
            RefreshCheck(r, s)
     PROVE  IInv'
  BY <1>4, SMTT(30) DEF RefreshCheck, Start, Free, sessionVars
<1>5. ASSUME NEW r \in Requests, NEW s \in Sessions, NEW op \in {"logout", "change"}, 
            Authorize(r, s, op)
     PROVE  IInv'
  BY <1>5, SMTT(30) DEF Authorize, Start, Free, sessionVars
<1>6. ASSUME NEW r \in Requests, RegisterCommit(r)
     PROVE  IInv'
  <2>1. TypeOK'
    BY <1>6, SMTT(30)
    DEF RegisterCommit, Goto, End, IdleRequest, InsertSession, Registered,
        sessionVars
  <2>2. StagesMatch'
    BY <1>6, SMTT(30)
    DEF RegisterCommit, Goto, End, IdleRequest, InsertSession, Registered,
        sessionVars
  <2>3. RowsOwned'
    BY <1>6, SMTT(30)
    DEF RegisterCommit, Goto, End, IdleRequest, InsertSession, Registered,
        sessionVars
  <2>4. ReservedIds'
    BY <1>6, SMTT(30)
    DEF RegisterCommit, Goto, End, IdleRequest, InsertSession, Registered,
        sessionVars
  <2>5. RowsExist'
    <3>1. CASE Registered(req[r].user)
      BY <1>6, <3>1, SMTT(30) DEF RegisterCommit, End, IdleRequest, sessionVars
    <3>2. CASE ~Registered(req[r].user)
      BY <1>6, <3>2, SMTT(30) DEF RegisterCommit, Goto, InsertSession
    <3> QED
      BY <3>1, <3>2
  <2>6. OwnSessionSeen'
    BY <1>6, SMTT(30)
    DEF RegisterCommit, Goto, End, IdleRequest, InsertSession, Registered,
        sessionVars
  <2>7. SweepsAreFinal'
    BY <1>6, SMTT(30)
    DEF RegisterCommit, Goto, End, IdleRequest, InsertSession, Registered,
        sessionVars
  <2> QED
    BY <2>1, <2>2, <2>3, <2>4, <2>5, <2>6, <2>7
<1>7. ASSUME NEW r \in Requests, AccountStateCheck(r)
     PROVE  IInv'
  BY <1>7, SMTT(30) DEF AccountStateCheck, GotoIf, Goto, End, IdleRequest, sessionVars
<1>8. ASSUME NEW r \in Requests, OpenSnapshot(r)
     PROVE  IInv'
  <2>1. TypeOK'
    <3> DEFINE next == [req[r] EXCEPT !.stage = "opening",
                                      !.seen = VisibleSessions(req[r].user)]
    <3>1. VisibleSessions(req[r].user) \subseteq Sessions
      BY DEF VisibleSessions
    <3>2. next \in RequestState
      <4>1. req[r] \in RequestState
        OBVIOUS
      <4> QED
        BY <3>1, <4>1 DEF RequestState, Stages, Terminal
    <3>3. req' = [req EXCEPT ![r] = next]
      BY <1>8, SMTT(30) DEF OpenSnapshot
    <3> HIDE DEF next, RequestState
    <3> QED
      BY <1>8, <3>2, <3>3 DEF OpenSnapshot, sessionVars
  <2>2. StagesMatch'
    BY <1>8, SMTT(30) DEF OpenSnapshot, VisibleSessions, sessionVars
  <2>3. RowsOwned'
    BY <1>8, SMTT(30) DEF OpenSnapshot, VisibleSessions, sessionVars
  <2>4. ReservedIds'
    BY <1>8, SMTT(30) DEF OpenSnapshot, VisibleSessions, sessionVars
  <2>5. RowsExist'
    BY <1>8, SMTT(30) DEF OpenSnapshot, VisibleSessions, sessionVars
  <2>6. OwnSessionSeen'
    BY <1>8, SMTT(30) DEF OpenSnapshot, VisibleSessions, sessionVars
  <2>7. SweepsAreFinal'
    BY <1>8, SMTT(30) DEF OpenSnapshot, VisibleSessions, sessionVars
  <2> QED
    BY <2>1, <2>2, <2>3, <2>4, <2>5, <2>6, <2>7
<1>9. ASSUME NEW r \in Requests, OpenCommit(r)
     PROVE  IInv'
  BY <1>9, SMTT(30) DEF OpenCommit, Goto, InsertSession, Swept
<1>10. ASSUME NEW r \in Requests, StoreToken(r)
     PROVE  IInv'
  <2>1. TypeOK'
    <3>1. req[r].session \in Sessions
      BY <1>10, SMTT(30) DEF StoreToken
    <3>2. req' \in [Requests -> RequestState]
      BY <1>10, SMTT(30) DEF StoreToken, Goto
    <3> QED
      BY <1>10, <3>1, <3>2 DEF StoreToken, Goto
  <2>2. StagesMatch'
    BY <1>10, SMTT(30) DEF StoreToken, Goto
  <2>3. RowsOwned'
    BY <1>10, SMTT(30) DEF StoreToken, Goto
  <2>4. ReservedIds'
    BY <1>10, SMTT(30) DEF StoreToken, Goto
  <2>5. RowsExist'
    BY <1>10, SMTT(30) DEF StoreToken, Goto
  <2>6. OwnSessionSeen'
    BY <1>10, SMTT(30) DEF StoreToken, Goto
  <2>7. SweepsAreFinal'
    BY <1>10, SMTT(30) DEF StoreToken, Goto
  <2> QED
    BY <2>1, <2>2, <2>3, <2>4, <2>5, <2>6, <2>7
<1>11. ASSUME NEW r \in Requests, Respond(r)
     PROVE  IInv'
  BY <1>11, SMTT(30) DEF Respond, Goto, sessionVars
<1>12. ASSUME NEW r \in Requests, Logout(r)
     PROVE  IInv'
  BY <1>12, SMTT(30) DEF Logout, End, IdleRequest, Swept
<1>13. ASSUME NEW r \in Requests, NEW current \in Passwords, NEW new \in Passwords, 
            ChangeCheck(r, current, new)
     PROVE  IInv'
  <2>1. CASE End(r)
    BY <1>13, <2>1 DEF ChangeCheck, End, IdleRequest, sessionVars
  <2>2. CASE req' = [req EXCEPT ![r] = [@ EXCEPT !.stage = "verified", !.pw = new]]
    <3>1. TypeOK'
      <4> DEFINE next == [req[r] EXCEPT !.stage = "verified", !.pw = new]
      <4>1. next \in RequestState
        <5>1. req[r] \in RequestState
          OBVIOUS
        <5> QED
          BY <5>1
      <4>2. req' = [req EXCEPT ![r] = next]
        BY <2>2
      <4> HIDE DEF next, RequestState
      <4> QED
        BY <1>13, <4>1, <4>2 DEF ChangeCheck, sessionVars
    <3>2. StagesMatch'
      BY <1>13, <2>2 DEF ChangeCheck, sessionVars
    <3>3. RowsOwned'
      BY <1>13, <2>2 DEF ChangeCheck, sessionVars
    <3>4. ReservedIds'
      BY <1>13, <2>2 DEF ChangeCheck, sessionVars
    <3>5. RowsExist'
      BY <1>13, <2>2 DEF ChangeCheck, sessionVars
    <3>6. OwnSessionSeen'
      BY <1>13, <2>2 DEF ChangeCheck, sessionVars
    <3>7. SweepsAreFinal'
      BY <1>13, <2>2 DEF ChangeCheck, sessionVars
    <3> QED
      BY <3>1, <3>2, <3>3, <3>4, <3>5, <3>6, <3>7
  <2> QED
    BY <1>13, <2>1, <2>2 DEF ChangeCheck
<1>14. ASSUME NEW r \in Requests, ChangeSnapshot(r)
     PROVE  IInv'
  <2>1. TypeOK'
    <3> DEFINE next == [req[r] EXCEPT !.stage = "changing",
                                      !.seen = VisibleSessions(req[r].user)]
    <3>1. VisibleSessions(req[r].user) \subseteq Sessions
      BY DEF VisibleSessions
    <3>2. next \in RequestState
      <4>1. req[r] \in RequestState
        OBVIOUS
      <4> QED
        BY <3>1, <4>1 DEF RequestState, Stages, Terminal
    <3>3. req' = [req EXCEPT ![r] = next]
      BY <1>14, SMTT(30) DEF ChangeSnapshot
    <3> HIDE DEF next, RequestState
    <3> QED
      BY <1>14, <3>2, <3>3 DEF ChangeSnapshot, sessionVars
  <2>2. StagesMatch'
    BY <1>14, SMTT(30) DEF ChangeSnapshot, VisibleSessions, sessionVars
  <2>3. RowsOwned'
    BY <1>14, SMTT(30) DEF ChangeSnapshot, VisibleSessions, sessionVars
  <2>4. ReservedIds'
    BY <1>14, SMTT(30) DEF ChangeSnapshot, VisibleSessions, sessionVars
  <2>5. RowsExist'
    BY <1>14, SMTT(30) DEF ChangeSnapshot, VisibleSessions, sessionVars
  <2>6. OwnSessionSeen'
    BY <1>14, SMTT(30) DEF ChangeSnapshot, VisibleSessions, sessionVars
  <2>7. SweepsAreFinal'
    BY <1>14, SMTT(30) DEF ChangeSnapshot, VisibleSessions, sessionVars
  <2> QED
    BY <2>1, <2>2, <2>3, <2>4, <2>5, <2>6, <2>7
<1>15. ASSUME NEW r \in Requests, ChangeCommit(r)
     PROVE  IInv'
  BY <1>15, SMTT(30) DEF ChangeCommit, Goto, Swept
<1>16. ASSUME NEW r \in Requests, ChangeNotify(r)
     PROVE  IInv'
  <2>1. TypeOK'
    BY <1>16, SMTT(30) DEF ChangeNotify, Goto, sessionVars
  <2>2. StagesMatch'
    BY <1>16, SMTT(30) DEF ChangeNotify, Goto, sessionVars
  <2>3. RowsOwned'
    BY <1>16, SMTT(30) DEF ChangeNotify, Goto, sessionVars
  <2>4. ReservedIds'
    BY <1>16, SMTT(30) DEF ChangeNotify, Goto, sessionVars
  <2>5. RowsExist'
    BY <1>16, SMTT(30) DEF ChangeNotify, Goto, sessionVars
  <2>6. OwnSessionSeen'
    BY <1>16, SMTT(30) DEF ChangeNotify, Goto, sessionVars
  <2>7. SweepsAreFinal'
    BY <1>16, SMTT(30) DEF ChangeNotify, Goto, sessionVars
  <2> QED
    BY <2>1, <2>2, <2>3, <2>4, <2>5, <2>6, <2>7
<1>17. ASSUME NEW r \in Requests, Crash(r)
     PROVE  IInv'
  BY <1>17, SMTT(30) DEF Crash, End, IdleRequest, Free, sessionVars
<1>18. ASSUME NEW s \in Sessions, Expire(s)
     PROVE  IInv'
  BY <1>18, SMTT(30) DEF Expire
<1>19. ASSUME NEW u \in Users, BeginRestriction(u) \/ EndRestriction(u)
     PROVE  IInv'
  BY <1>19, SMTT(30) DEF BeginRestriction, EndRestriction, sessionVars
<1>20. CASE UNCHANGED vars
  BY <1>20, SMTT(30) DEF vars, sessionVars
<1>21. ASSUME NEW r \in Requests, Arrive(r)
      PROVE  IInv'
  <2>1. CASE \E u \in Users, p \in Passwords, s \in Sessions :
                RegisterCheck(r, u, p, s) \/ PasswordCheck(r, u, p, s)
    BY <2>1, <1>1, <1>2
  <2>2. CASE \E u \in Users, s \in Sessions : SocialCheck(r, u, s)
    BY <2>2, <1>3
  <2>3. CASE \E s \in Sessions : RefreshCheck(r, s)
    BY <2>3, <1>4
  <2>4. CASE \E s \in Sessions, op \in {"logout", "change"} : Authorize(r, s, op)
    BY <2>4, <1>5
  <2> QED
    BY <1>21, <2>1, <2>2, <2>3, <2>4 DEF Arrive
<1>22. ASSUME NEW r \in Requests, Proceed(r)
      PROVE  IInv'
  BY <1>22, <1>6, <1>7, <1>8, <1>9, <1>10, <1>11, <1>12, <1>13, <1>15, <1>16
  DEF Proceed
<1> QED
  BY <1>14, <1>17, <1>18, <1>19, <1>20, <1>21, <1>22 DEF Next, Environment

\* What a step needs from the invariant to leave closed sessions closed: only
\* the two INSERTs make a row active, and their row is still absent.
LEMMA ClosedStep ==
    IInv /\ [Next]_vars
    => \A s \in Sessions : status[s] = "closed" => status'[s] = "closed"
<1> SUFFICES ASSUME IInv, [Next]_vars, NEW s \in Sessions, status[s] = "closed"
             PROVE  status'[s] = "closed"
  OBVIOUS
<1>1. ASSUME NEW r \in Requests, RegisterCommit(r) \/ OpenCommit(r)
      PROVE  status'[s] = "closed"
  <2>1. WillInsert(r) /\ req[r].session \in Sessions
    BY <1>1 DEF RegisterCommit, OpenCommit, WillInsert, IInv, StagesMatch, OpeningOps
  <2>2. req[r].session # s
    BY <2>1 DEF IInv, ReservedIds
  <2> QED
    BY <1>1, <2>1, <2>2
    DEF RegisterCommit, OpenCommit, InsertSession, Swept, sessionVars, IInv, TypeOK
<1>2. ASSUME NEW r \in Requests, Logout(r) \/ ChangeCommit(r)
      PROVE  status'[s] = "closed"
  BY <1>2 DEF Logout, ChangeCommit, Swept
<1>3. CASE UNCHANGED status
  BY <1>3
<1>4. ASSUME NEW r \in Requests,
             Arrive(r) \/ Proceed(r) \/ ChangeSnapshot(r) \/ Crash(r)
      PROVE  status'[s] = "closed"
  BY <1>1, <1>2, <1>4
  DEF Arrive, Proceed, ChangeSnapshot, Crash, RegisterCheck, PasswordCheck,
      SocialCheck, RefreshCheck, Authorize, AccountStateCheck, OpenSnapshot,
      StoreToken, Respond, ChangeCheck, ChangeNotify, sessionVars
<1>5. CASE Environment
  BY <1>5 DEF Environment, Expire, BeginRestriction, EndRestriction, sessionVars
<1> QED
  BY <1>3, <1>4, <1>5 DEF Next, vars, sessionVars

\* The session of a committed change of password was among the rows it swept.
LEMMA InvariantImplies ==
    IInv => TypeOK /\ SweepsAreFinal /\ ChangeEndsOwnSession /\ DeliveredTokensMatch
<1> SUFFICES ASSUME IInv
             PROVE  ChangeEndsOwnSession /\ DeliveredTokensMatch
  BY DEF IInv
<1>1. ChangeEndsOwnSession
  BY DEF IInv, ChangeEndsOwnSession, OwnSessionSeen, SweepsAreFinal, HasSwept
<1>2. DeliveredTokensMatch
  BY DEF IInv, DeliveredTokensMatch, RowsExist
<1> QED
  BY <1>1, <1>2

LEMMA Invariance == Spec => []IInv
  BY InitInvariant, NextInvariant, PTL DEF Spec

-----------------------------------------------------------------------------
(* The theorems.                                                           *)

\* Rows, locks and requests keep their types.
THEOREM TypeCorrect == Spec => []TypeOK
  BY Invariance, InvariantImplies, PTL

\* Sessions that a committed login or change of password saw are closed for
\* good, whatever runs beside it (createAuthenticatedSession, changePassword).
THEOREM SweepsFinal == Spec => []SweepsAreFinal
  BY Invariance, InvariantImplies, PTL

\* A change of password ends the session it was asked from (changePassword).
THEOREM OwnSessionEnds == Spec => []ChangeEndsOwnSession
  BY Invariance, InvariantImplies, PTL

\* No refresh meets the placeholder hash of a half-opened session
\* (createAuthenticatedSession, register, refresh).
THEOREM TokensMatch == Spec => []DeliveredTokensMatch
  BY Invariance, InvariantImplies, PTL

\* No step revives a closed session (refresh and StoreToken against logout,
\* changePassword and login).
THEOREM NoRevival == Spec => ClosedStaysClosed
  BY Invariance, ClosedStep, PTL DEF Spec, ClosedStaysClosed
=============================================================================
