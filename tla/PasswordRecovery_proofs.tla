----------------------- MODULE PasswordRecovery_proofs -----------------------
(***************************************************************************)
(* Proofs about PasswordRecovery beside AuthSessions, for every number of  *)
(* users, sessions, codes and requests and every limit of attempts: what a *)
(* committed request and a committed reset promise, and how far wrong      *)
(* guesses and second resets can go beyond the limits that are checked on  *)
(* what was read before.  The invariant of AuthSessions holds on.          *)
(***************************************************************************)
EXTENDS PasswordRecovery, AuthSessions_proofs, FiniteSetTheorems

-----------------------------------------------------------------------------
(* The inductive invariant.                                                *)

\* What a request q has to go by at each stage: the operation the stage belongs
\* to, that nothing had been paid with its code when it was read, and for the
\* rows and sessions its transaction saw, that they are retired and closed once
\* it has committed and will be when it commits.
RecFits(q, retired, old, statuses) ==
    /\ q.op = "none" => q.stage = "idle"
    /\ q.paid = 0
    /\ q.op # "none" => q.user \in Users /\ q.code \in Codes
    /\ q.stage \in {"requested", "retiring", "inserted", "mailing"} => q.op = "request"
    /\ q.stage \in {"exhausted", "wrong", "validated"} => q.op \in {"verify", "reset"}
    /\ q.stage \in {"resetting", "sweeping", "reset"} => q.op = "reset"
    /\ q.stage \in {"retiring", "inserted"} => q.rows \subseteq retired \cup old \cup q.codes
    /\ q.op = "request" /\ q.stage \in {"mailing", "done"} => q.rows \subseteq retired \cup old
    /\ q.stage \in {"resetting", "sweeping"} =>
          q.rows \subseteq retired \cup q.codes /\ q.code \in q.codes
    /\ q.stage = "sweeping" => \A s \in q.sessions : statuses[s] # "absent"
    /\ q.op = "reset" /\ q.stage \in {"reset", "done"} =>
          /\ q.rows \subseteq retired
          /\ \A s \in q.sessions : statuses[s] = "closed"

RecoveriesFit == \A k \in Recoveries : RecFits(rec[k], used, outdated, status)

\* Requests about to count a wrong guess at c, and resets that hold c and have
\* not committed.
IsWrong(q, c) == q.stage = "wrong" /\ q.code = c
IsHolder(q, c) ==
    q.op = "reset" /\ q.stage \in {"validated", "resetting", "sweeping"} /\ q.code = c
WrongOn(slots, c) == {k \in Recoveries : IsWrong(slots[k], c)}
HoldersOf(slots, c) == {k \in Recoveries : IsHolder(slots[k], c)}

\* The guesses counted and those about to be counted are within the bound: who
\* joins them has read a count below the limit, and is one of the requests.
AttemptsLeft ==
    \A c \in Codes : attempts[c] + Cardinality(WrongOn(rec, c))
                        <= MaxAttempts + Cardinality(Recoveries) - 1

\* Nobody joins the resets of a code once one of them has committed.
SpendsLeft ==
    \A c \in Codes :
        /\ spent[c] + Cardinality(HoldersOf(rec, c)) <= Cardinality(Recoveries)
        /\ spent[c] # 0 => c \in used

RecoveryInv ==
    /\ IInv
    /\ RecTypeOK
    /\ RecoveriesFit
    /\ AttemptsLeft
    /\ SpendsLeft

-----------------------------------------------------------------------------
(* Counting requests.                                                      *)

\* Sets of requests are finite, and how one changes when request k may have
\* joined or left it.
LEMMA CountStep ==
    ASSUME NEW S \in SUBSET Recoveries, NEW T \in SUBSET Recoveries, NEW k \in Recoveries,
           T \ {k} = S \ {k}
    PROVE  /\ Cardinality(S) \in Nat /\ Cardinality(T) \in Nat
           /\ Cardinality(Recoveries) \in Nat
           /\ Cardinality(T) <= Cardinality(Recoveries)
           /\ k \notin T \/ k \in S => Cardinality(T) <= Cardinality(S)
           /\ k \notin T /\ k \in S => Cardinality(T) = Cardinality(S) - 1
<1>1. /\ IsFiniteSet(Recoveries) /\ IsFiniteSet(S) /\ IsFiniteSet(T)
      /\ Cardinality(T) <= Cardinality(Recoveries)
  BY RecoveryConstants, FS_Subset
<1>2. /\ Cardinality(S) \in Nat /\ Cardinality(T) \in Nat
      /\ Cardinality(Recoveries) \in Nat
  BY <1>1, FS_CardinalityType
<1>3. CASE k \notin T
  <2>1. T = S \ {k}
    BY <1>3
  <2> QED
    BY <1>1, <1>2, <1>3, <2>1, FS_RemoveElement
<1>4. CASE k \in T /\ k \in S
  <2>1. T = S
    BY <1>4
  <2> QED
    BY <1>1, <1>2, <1>4, <2>1
<1>5. CASE k \in T /\ k \notin S
  BY <1>1, <1>2, <1>5
<1> QED
  BY <1>3, <1>4, <1>5

\* ... for the two sets that are counted, when request k goes on as q.
LEMMA CountsChange ==
    ASSUME NEW slots \in [Recoveries -> RecoveryState], NEW k \in Recoveries, NEW q,
           NEW next, next = [slots EXCEPT ![k] = q], NEW c \in Codes
    PROVE  /\ Cardinality(WrongOn(slots, c)) \in Nat
           /\ Cardinality(WrongOn(next, c)) \in Nat
           /\ Cardinality(HoldersOf(slots, c)) \in Nat
           /\ Cardinality(HoldersOf(next, c)) \in Nat
           /\ Cardinality(Recoveries) \in Nat
           /\ Cardinality(WrongOn(next, c)) <= Cardinality(Recoveries)
           /\ Cardinality(HoldersOf(next, c)) <= Cardinality(Recoveries)
           /\ ~IsWrong(q, c) \/ IsWrong(slots[k], c) =>
                 Cardinality(WrongOn(next, c)) <= Cardinality(WrongOn(slots, c))
           /\ ~IsHolder(q, c) \/ IsHolder(slots[k], c) =>
                 Cardinality(HoldersOf(next, c)) <= Cardinality(HoldersOf(slots, c))
<1>1. next[k] = q /\ \A j \in Recoveries \ {k} : next[j] = slots[j]
  OBVIOUS
<1>2. /\ WrongOn(slots, c) \in SUBSET Recoveries /\ WrongOn(next, c) \in SUBSET Recoveries
      /\ WrongOn(next, c) \ {k} = WrongOn(slots, c) \ {k}
      /\ k \in WrongOn(next, c) <=> IsWrong(q, c)
      /\ k \in WrongOn(slots, c) <=> IsWrong(slots[k], c)
  BY <1>1 DEF WrongOn
<1>3. /\ HoldersOf(slots, c) \in SUBSET Recoveries
      /\ HoldersOf(next, c) \in SUBSET Recoveries
      /\ HoldersOf(next, c) \ {k} = HoldersOf(slots, c) \ {k}
      /\ k \in HoldersOf(next, c) <=> IsHolder(q, c)
      /\ k \in HoldersOf(slots, c) <=> IsHolder(slots[k], c)
  BY <1>1 DEF HoldersOf
<1> HIDE DEF WrongOn, HoldersOf, IsWrong, IsHolder
<1>4. /\ Cardinality(WrongOn(slots, c)) \in Nat
      /\ Cardinality(WrongOn(next, c)) \in Nat
      /\ Cardinality(Recoveries) \in Nat
      /\ Cardinality(WrongOn(next, c)) <= Cardinality(Recoveries)
      /\ ~IsWrong(q, c) \/ IsWrong(slots[k], c) =>
            Cardinality(WrongOn(next, c)) <= Cardinality(WrongOn(slots, c))
  BY <1>2, CountStep
<1>5. /\ Cardinality(HoldersOf(slots, c)) \in Nat
      /\ Cardinality(HoldersOf(next, c)) \in Nat
      /\ Cardinality(HoldersOf(next, c)) <= Cardinality(Recoveries)
      /\ ~IsHolder(q, c) \/ IsHolder(slots[k], c) =>
            Cardinality(HoldersOf(next, c)) <= Cardinality(HoldersOf(slots, c))
  BY <1>3, CountStep
<1> QED
  BY <1>4, <1>5

-----------------------------------------------------------------------------
(* Lemmas about sessions and requests.                                     *)

\* The states of sessions as they change: rows stay, and what is closed too.
Closing(statuses, next) ==
    \A s \in Sessions :
        /\ statuses[s] # "absent" => next[s] # "absent"
        /\ statuses[s] = "closed" => next[s] = "closed"

\* A step of AuthSessions deletes no session and revives none.
LEMMA SessionsClosing == IInv /\ [Next]_vars => Closing(status, status')
<1> SUFFICES ASSUME IInv, [Next]_vars, NEW s \in Sessions, status[s] # "absent"
             PROVE  status'[s] # "absent"
  BY ClosedStep DEF Closing
<1>1. ASSUME NEW r \in Requests, RegisterCommit(r) \/ OpenCommit(r)
      PROVE  status'[s] # "absent"
  BY <1>1 DEF RegisterCommit, OpenCommit, InsertSession, Swept, sessionVars, IInv, TypeOK
<1>2. ASSUME NEW r \in Requests, Logout(r) \/ ChangeCommit(r)
      PROVE  status'[s] # "absent"
  BY <1>2 DEF Logout, ChangeCommit, Swept
<1>3. CASE UNCHANGED status
  BY <1>3
<1>4. ASSUME NEW r \in Requests,
             Arrive(r) \/ Proceed(r) \/ ChangeSnapshot(r) \/ Crash(r)
      PROVE  status'[s] # "absent"
  BY <1>1, <1>2, <1>4
  DEF Arrive, Proceed, ChangeSnapshot, Crash, RegisterCheck, PasswordCheck,
      SocialCheck, RefreshCheck, Authorize, AccountStateCheck, OpenSnapshot,
      StoreToken, Respond, ChangeCheck, ChangeNotify, sessionVars
<1>5. CASE Environment
  BY <1>5 DEF Environment, Expire, BeginRestriction, EndRestriction, sessionVars
<1> QED
  BY <1>3, <1>4, <1>5 DEF Next, vars, sessionVars

\* What a reset may do to the tables of AuthSessions leaves its invariant.
LEMMA ResetKeepsSessions ==
    ASSUME IInv, password' \in [Users -> Passwords \cup {None}],
           rowLock' \in [Users -> Requests \cup Recoveries \cup {None}],
           UNCHANGED <<restricted, owner, digest, unexpired, delivered, req>>,
           NEW rows, status' = Swept(rows)
    PROVE  IInv' /\ Closing(status, status')
<1>1. status \in [Sessions -> {"absent", "active", "closed"}]
  BY DEF IInv, TypeOK
<1>2. /\ status' \in [Sessions -> {"absent", "active", "closed"}]
      /\ \A s \in Sessions : /\ status'[s] = "absent" <=> status[s] = "absent"
                             /\ status[s] = "closed" => status'[s] = "closed"
  BY <1>1 DEF Swept
<1>3. TypeOK'
  BY <1>2 DEF IInv, TypeOK
<1>4. StagesMatch' /\ OwnSessionSeen'
  BY DEF IInv, StagesMatch, OwnSessionSeen
<1>5. RowsOwned' /\ ReservedIds'
  BY <1>2 DEF IInv, StagesMatch, RowsOwned, ReservedIds, WillInsert, OpeningOps
<1>6. RowsExist'
  <2>1. \A s \in delivered : s \in Sessions
    BY DEF IInv, TypeOK
  <2>2. \A r \in Requests : /\ req[r].seen \subseteq Sessions
                            /\ req[r].op # "none" => req[r].session \in Sessions
                            /\ req[r].stage \in {"issuing", "stored"} => req[r].op # "none"
    BY DEF IInv, TypeOK, RequestState, StagesMatch
  <2> QED
    BY <1>2, <2>1, <2>2 DEF IInv, RowsExist
<1>7. SweepsAreFinal'
  <2>1. \A r \in Requests : req[r].seen \subseteq Sessions
    BY DEF IInv, TypeOK, RequestState
  <2> QED
    BY <1>2, <2>1 DEF IInv, SweepsAreFinal, HasSwept
<1> QED
  BY <1>2, <1>3, <1>4, <1>5, <1>6, <1>7 DEF IInv, Closing

\* ... also where it changes locks only.
LEMMA LocksKeepSessions ==
    ASSUME IInv, rowLock' \in [Users -> Requests \cup Recoveries \cup {None}],
           UNCHANGED <<password, restricted, sessionVars, delivered, req>>
    PROVE  IInv' /\ Closing(status, status')
<1>1. password' \in [Users -> Passwords \cup {None}]
  BY DEF IInv, TypeOK
<1>2. status' = Swept({})
  BY DEF IInv, TypeOK, Swept, sessionVars
<1> HIDE DEF IInv
<1> QED
  BY <1>1, <1>2, ResetKeepsSessions DEF sessionVars

\* ... or nothing at all.
LEMMA SessionsUntouched ==
    ASSUME IInv, UNCHANGED vars
    PROVE  IInv' /\ Closing(status, status')
<1> QED
  BY NextInvariant, SessionsClosing

\* What a request has to go by stays true while codes stay retired and expired,
\* and sessions closed.
LEMMA RecFitsPersists ==
    ASSUME NEW q \in RecoveryState, NEW retired, NEW nowRetired, NEW old, NEW nowOld,
           NEW statuses, NEW nowStatuses, RecFits(q, retired, old, statuses),
           retired \subseteq nowRetired, old \subseteq nowOld,
           Closing(statuses, nowStatuses)
    PROVE  RecFits(q, nowRetired, nowOld, nowStatuses)
<1>1. q.sessions \subseteq Sessions
  BY DEF RecoveryState
<1> QED
  BY <1>1 DEF RecFits, Closing

LEMMA IdleRecFits ==
    ASSUME NEW retired, NEW old, NEW statuses
    PROVE  /\ IdleRecovery \in RecoveryState /\ RecFits(IdleRecovery, retired, old, statuses)
           /\ \A c \in Codes : ~IsWrong(IdleRecovery, c) /\ ~IsHolder(IdleRecovery, c)
  BY DEF IdleRecovery, RecoveryState, RecStages, RecTerminal, RecFits, IsWrong, IsHolder

\* The invariant gives each table and each request its type.
LEMMA RecTyped ==
    ASSUME RecoveryInv
    PROVE  /\ IInv /\ RecTypeOK /\ rec \in [Recoveries -> RecoveryState]
           /\ rowLock \in [Users -> Requests \cup Recoveries \cup {None}]
           /\ \A k \in Recoveries : /\ rec[k] \in RecoveryState
                                    /\ RecFits(rec[k], used, outdated, status)
  BY DEF RecoveryInv, RecTypeOK, RecoveriesFit, IInv, TypeOK

\* A step of request k, which goes on as q.
LEMMA RecStep ==
    ASSUME RecoveryInv, NEW k \in Recoveries, NEW q \in RecoveryState,
           rec' = [rec EXCEPT ![k] = q], IInv', Closing(status, status'),
           codeOwner' \in [Codes -> Users \cup {None}], before' \subseteq Codes \X Codes,
           used \subseteq used', used' \subseteq Codes,
           outdated' = outdated, mailed' \subseteq Codes,
           attempts' \in [Codes -> Nat], spent' \in [Codes -> Nat],
           RecFits(q, used', outdated', status'), AttemptsLeft', SpendsLeft'
    PROVE  RecoveryInv'
<1>1. RecTypeOK'
  BY RecTyped DEF RecTypeOK
<1>2. ASSUME NEW j \in Recoveries PROVE RecFits(rec'[j], used', outdated', status')
  <2>1. CASE j = k
    BY <2>1, RecTyped
  <2>2. CASE j # k
    <3>1. rec'[j] = rec[j] /\ rec[j] \in RecoveryState
          /\ RecFits(rec[j], used, outdated, status)
      BY <2>2, RecTyped
    <3> QED
      BY <3>1, RecFitsPersists
  <2> QED
    BY <2>1, <2>2
<1> QED
  BY <1>1, <1>2 DEF RecoveryInv, RecoveriesFit

\* ... and counts and pays for nothing, and joins nobody.
LEMMA QuietCounts ==
    ASSUME RecoveryInv, NEW k \in Recoveries, NEW q,
           rec' = [rec EXCEPT ![k] = q], UNCHANGED <<attempts, spent>>,
           used \subseteq used',
           \A c \in Codes : /\ IsWrong(q, c) => IsWrong(rec[k], c)
                            /\ IsHolder(q, c) => IsHolder(rec[k], c)
    PROVE  AttemptsLeft' /\ SpendsLeft'
<1>1. rec \in [Recoveries -> RecoveryState] /\ MaxAttempts \in Nat
      /\ attempts \in [Codes -> Nat] /\ spent \in [Codes -> Nat]
  BY RecTyped, RecoveryConstants DEF RecTypeOK
<1>2. ASSUME NEW c \in Codes
      PROVE  /\ attempts'[c] + Cardinality(WrongOn(rec', c))
                    <= MaxAttempts + Cardinality(Recoveries) - 1
             /\ spent'[c] + Cardinality(HoldersOf(rec', c)) <= Cardinality(Recoveries)
             /\ spent'[c] # 0 => c \in used'
  <2>1. /\ attempts[c] + Cardinality(WrongOn(rec, c))
              <= MaxAttempts + Cardinality(Recoveries) - 1
        /\ spent[c] + Cardinality(HoldersOf(rec, c)) <= Cardinality(Recoveries)
        /\ spent[c] # 0 => c \in used
    BY DEF RecoveryInv, AttemptsLeft, SpendsLeft
  <2>2. /\ Cardinality(WrongOn(rec, c)) \in Nat /\ Cardinality(WrongOn(rec', c)) \in Nat
        /\ Cardinality(HoldersOf(rec, c)) \in Nat
        /\ Cardinality(HoldersOf(rec', c)) \in Nat /\ Cardinality(Recoveries) \in Nat
        /\ Cardinality(WrongOn(rec', c)) <= Cardinality(WrongOn(rec, c))
        /\ Cardinality(HoldersOf(rec', c)) <= Cardinality(HoldersOf(rec, c))
    BY <1>1, CountsChange
  <2>3. attempts[c] \in Nat /\ spent[c] \in Nat
    BY <1>1
  <2> QED
    BY <1>1, <2>1, <2>2, <2>3
<1> QED
  BY <1>2 DEF AttemptsLeft, SpendsLeft

\* A step of request k that counts and pays for nothing, joins nobody, and only
\* retires codes, dates them, takes or drops locks or sends an email.
LEMMA QuietStep ==
    ASSUME RecoveryInv, NEW k \in Recoveries, NEW q \in RecoveryState,
           rec' = [rec EXCEPT ![k] = q], UNCHANGED <<attempts, spent, outdated>>,
           IInv', Closing(status, status'),
           codeOwner' \in [Codes -> Users \cup {None}], before' \subseteq Codes \X Codes,
           used \subseteq used', used' \subseteq Codes, mailed' \subseteq Codes,
           RecFits(q, used', outdated, status'),
           \A c \in Codes : /\ IsWrong(q, c) => IsWrong(rec[k], c)
                            /\ IsHolder(q, c) => IsHolder(rec[k], c)
    PROVE  RecoveryInv'
<1>1. AttemptsLeft' /\ SpendsLeft'
  BY QuietCounts
<1>2. attempts' \in [Codes -> Nat] /\ spent' \in [Codes -> Nat]
  BY RecTyped DEF RecTypeOK
<1> QED
  BY <1>1, <1>2, RecStep

\* ... and in particular one that changes nothing but its slot.
LEMMA OnlySlot ==
    ASSUME RecoveryInv, NEW k \in Recoveries, NEW q \in RecoveryState,
           rec' = [rec EXCEPT ![k] = q], UNCHANGED <<vars, codeVars, spent>>,
           RecFits(q, used, outdated, status),
           \A c \in Codes : /\ IsWrong(q, c) => IsWrong(rec[k], c)
                            /\ IsHolder(q, c) => IsHolder(rec[k], c)
    PROVE  RecoveryInv'
<1>1. IInv' /\ Closing(status, status') /\ status' = status
  BY RecTyped, SessionsUntouched DEF vars, sessionVars
<1>2. /\ codeOwner' \in [Codes -> Users \cup {None}] /\ before' \subseteq Codes \X Codes
      /\ used' = used /\ used' \subseteq Codes /\ mailed' \subseteq Codes
      /\ UNCHANGED <<attempts, spent, outdated>>
  BY RecTyped DEF RecTypeOK, codeVars
<1> QED
  BY <1>1, <1>2, QuietStep

-----------------------------------------------------------------------------
(* One lemma per action.                                                   *)

LEMMA RecInitKeeps == RecoveryInit => RecoveryInv
<1> SUFFICES ASSUME RecoveryInit PROVE RecoveryInv
  OBVIOUS
<1>1. IInv
  BY InitInvariant DEF RecoveryInit
<1>2. RecTypeOK /\ RecoveriesFit
  BY IdleRecFits DEF RecoveryInit, RecTypeOK, RecoveriesFit
<1>3. ASSUME NEW c \in Codes
      PROVE  /\ attempts[c] = 0 /\ spent[c] = 0 /\ Cardinality(Recoveries) \in Nat
             /\ Cardinality(WrongOn(rec, c)) = 0 /\ Cardinality(HoldersOf(rec, c)) = 0
  <2>1. WrongOn(rec, c) = {} /\ HoldersOf(rec, c) = {}
    BY IdleRecFits DEF RecoveryInit, WrongOn, HoldersOf
  <2>2. Cardinality({}) = 0 /\ Cardinality(Recoveries) \in Nat
    BY FS_EmptySet, FS_CardinalityType, RecoveryConstants
  <2> QED
    BY <2>1, <2>2 DEF RecoveryInit
<1>4. AttemptsLeft /\ SpendsLeft
  BY <1>3, RecoveryConstants DEF AttemptsLeft, SpendsLeft
<1> QED
  BY <1>1, <1>2, <1>4 DEF RecoveryInv

LEMMA RequestCodeKeeps ==
    ASSUME RecoveryInv, NEW k \in Recoveries, NEW u \in Users, NEW c \in Codes,
           RequestCode(k, u, c)
    PROVE  RecoveryInv'
<1> DEFINE q == [op |-> "request", user |-> u, code |-> c, tries |-> 0, paid |-> 0,
                 pw |-> None, codes |-> {}, rows |-> {}, sessions |-> {},
                 stage |-> "requested"]
<1>1. q \in RecoveryState /\ RecFits(q, used, outdated, status)
      /\ \A d \in Codes : ~IsWrong(q, d) /\ ~IsHolder(q, d)
  BY DEF RecoveryState, RecStages, RecFits, IsWrong, IsHolder
<1>2. rec' = [rec EXCEPT ![k] = q] /\ UNCHANGED <<vars, codeVars, spent>>
  BY DEF RequestCode
<1> HIDE DEF q
<1> QED
  BY <1>1, <1>2, OnlySlot

LEMMA RetireSnapshotKeeps ==
    ASSUME RecoveryInv, NEW k \in Recoveries, RetireSnapshot(k)
    PROVE  RecoveryInv'
<1> DEFINE rows == Rows(rec[k].user)
           live == Unused(rec[k].user) \ outdated
           q == [rec[k] EXCEPT !.stage = "retiring", !.rows = rows, !.codes = live]
<1>1. /\ rec[k] \in RecoveryState /\ RecFits(rec[k], used, outdated, status)
      /\ rec[k].stage = "requested" /\ rec' = [rec EXCEPT ![k] = q]
      /\ UNCHANGED <<vars, codeVars, spent>>
  BY RecTyped DEF RetireSnapshot
<1>2. rows \in SUBSET Codes /\ live \in SUBSET Codes /\ rows \subseteq used \cup outdated \cup live
  BY DEF Rows, Unused
<1> HIDE DEF rows, live
<1>3. q \in RecoveryState
  BY <1>1, <1>2 DEF RecoveryState, RecStages
<1>4. /\ RecFits(q, used, outdated, status)
      /\ \A c \in Codes : ~IsWrong(q, c) /\ ~IsHolder(q, c)
  BY <1>1, <1>2 DEF RecoveryState, RecFits, IsWrong, IsHolder
<1> HIDE DEF q
<1> QED
  BY <1>1, <1>3, <1>4, OnlySlot

LEMMA InsertCodeKeeps ==
    ASSUME RecoveryInv, NEW k \in Recoveries, InsertCode(k)
    PROVE  RecoveryInv'
<1> DEFINE q == [rec[k] EXCEPT !.stage = "inserted"]
<1>1. /\ rec[k] \in RecoveryState /\ RecFits(rec[k], used, outdated, status)
      /\ rec[k].stage = "retiring" /\ rec' = [rec EXCEPT ![k] = q]
      /\ before' = DatedLast(rec[k].code)
      /\ UNCHANGED <<vars, codeOwner, used, outdated, attempts, mailed, spent>>
  BY RecTyped DEF InsertCode, RecGoto
<1>2. before' \subseteq Codes \X Codes
  <2>1. rec[k].code \in Codes /\ before \subseteq Codes \X Codes
    BY <1>1, RecTyped DEF RecFits, RecTypeOK
  <2> QED
    BY <1>1, <2>1 DEF DatedLast
<1>3. q \in RecoveryState
  BY <1>1 DEF RecoveryState, RecStages
<1>4. /\ RecFits(q, used, outdated, status)
      /\ \A c \in Codes : ~IsWrong(q, c) /\ ~IsHolder(q, c)
  BY <1>1 DEF RecoveryState, RecFits, IsWrong, IsHolder
<1> HIDE DEF q
<1>5. IInv' /\ Closing(status, status') /\ status' = status
  BY <1>1, RecTyped, SessionsUntouched DEF vars, sessionVars
<1>6. /\ codeOwner' \in [Codes -> Users \cup {None}] /\ used' = used /\ used' \subseteq Codes
      /\ mailed' \subseteq Codes
  BY <1>1, RecTyped DEF RecTypeOK
<1> QED
  BY <1>1, <1>2, <1>3, <1>4, <1>5, <1>6, QuietStep

LEMMA RetireCommitKeeps ==
    ASSUME RecoveryInv, NEW k \in Recoveries, RetireCommit(k)
    PROVE  RecoveryInv'
<1> DEFINE q == [rec[k] EXCEPT !.stage = "mailing"]
<1>1. /\ rec[k] \in RecoveryState /\ RecFits(rec[k], used, outdated, status)
      /\ rec[k].stage = "inserted" /\ rec' = [rec EXCEPT ![k] = q]
      /\ codeOwner' = [codeOwner EXCEPT ![rec[k].code] = rec[k].user]
      /\ used' = used \cup rec[k].codes
      /\ UNCHANGED <<vars, before, outdated, attempts, mailed, spent>>
  BY RecTyped DEF RetireCommit, RecGoto
<1>2. q \in RecoveryState
  BY <1>1 DEF RecoveryState, RecStages
<1>3. /\ RecFits(q, used', outdated, status)
      /\ \A c \in Codes : ~IsWrong(q, c) /\ ~IsHolder(q, c)
  BY <1>1 DEF RecoveryState, RecFits, IsWrong, IsHolder
<1> HIDE DEF q
<1>4. IInv' /\ Closing(status, status') /\ status' = status
  BY <1>1, RecTyped, SessionsUntouched DEF vars, sessionVars
<1>5. /\ codeOwner' \in [Codes -> Users \cup {None}] /\ before' \subseteq Codes \X Codes
      /\ used \subseteq used' /\ used' \subseteq Codes /\ mailed' \subseteq Codes
  <2>1. rec[k].user \in Users /\ rec[k].code \in Codes /\ rec[k].codes \subseteq Codes
    BY <1>1 DEF RecoveryState, RecFits
  <2> QED
    BY <1>1, <2>1, RecTyped DEF RecTypeOK
<1> QED
  BY <1>1, <1>2, <1>3, <1>4, <1>5, QuietStep

LEMMA MailCodeKeeps ==
    ASSUME RecoveryInv, NEW k \in Recoveries, MailCode(k)
    PROVE  RecoveryInv'
<1> DEFINE q == [rec[k] EXCEPT !.stage = "done"]
<1>1. /\ rec[k] \in RecoveryState /\ RecFits(rec[k], used, outdated, status)
      /\ rec[k].stage = "mailing" /\ rec' = [rec EXCEPT ![k] = q]
      /\ mailed' = mailed \cup {rec[k].code}
      /\ UNCHANGED <<vars, codeOwner, before, used, outdated, attempts, spent>>
  BY RecTyped DEF MailCode, RecGoto
<1>2. q \in RecoveryState
  BY <1>1 DEF RecoveryState, RecStages, RecTerminal
<1>3. /\ RecFits(q, used, outdated, status)
      /\ \A c \in Codes : ~IsWrong(q, c) /\ ~IsHolder(q, c)
  BY <1>1 DEF RecoveryState, RecFits, IsWrong, IsHolder
<1> HIDE DEF q
<1>4. IInv' /\ Closing(status, status') /\ status' = status
  BY <1>1, RecTyped, SessionsUntouched DEF vars, sessionVars
<1>5. /\ codeOwner' \in [Codes -> Users \cup {None}] /\ before' \subseteq Codes \X Codes
      /\ used' = used /\ used' \subseteq Codes /\ mailed' \subseteq Codes
  <2>1. rec[k].code \in Codes
    BY <1>1 DEF RecFits
  <2> QED
    BY <1>1, <2>1, RecTyped DEF RecTypeOK
<1> QED
  BY <1>1, <1>2, <1>3, <1>4, <1>5, QuietStep

\* A code that is presented is unused, and a wrong guess at it is about to be
\* counted only where attempts are left.
LEMMA PresentCodeKeeps ==
    ASSUME RecoveryInv, NEW k \in Recoveries, NEW op \in {"verify", "reset"},
           NEW u \in Users, NEW c \in Codes, NEW guess, NEW p \in Passwords \cup {None},
           PresentCode(k, op, u, c, guess, p)
    PROVE  RecoveryInv'
<1> DEFINE stage == Assessment(c, guess)
           q == [op |-> op, user |-> u, code |-> c, tries |-> attempts[c],
                 paid |-> spent[c], pw |-> p, codes |-> {}, rows |-> {},
                 sessions |-> {}, stage |-> stage]
<1>1. /\ c \notin used /\ rec' = [rec EXCEPT ![k] = q]
      /\ UNCHANGED <<vars, codeVars, spent>>
  BY DEF PresentCode
<1>2. /\ attempts \in [Codes -> Nat] /\ spent \in [Codes -> Nat]
      /\ rec \in [Recoveries -> RecoveryState] /\ MaxAttempts \in Nat
  BY RecTyped, RecoveryConstants DEF RecTypeOK
<1>3. /\ stage \in {"exhausted", "wrong", "validated"}
      /\ stage = "wrong" => attempts[c] < MaxAttempts
  BY <1>2 DEF Assessment
<1>9. spent[c] = 0
  BY <1>1, <1>2 DEF RecoveryInv, SpendsLeft
<1> HIDE DEF stage
<1>4. q \in RecoveryState
  BY <1>2, <1>3 DEF RecoveryState, RecStages
<1>5. /\ RecFits(q, used, outdated, status)
      /\ \A d \in Codes : /\ IsWrong(q, d) => d = c /\ stage = "wrong"
                          /\ IsHolder(q, d) => d = c
  BY <1>3, <1>9 DEF RecFits, IsWrong, IsHolder
<1> HIDE DEF q
<1>6. IInv' /\ Closing(status, status') /\ status' = status
  BY <1>1, RecTyped, SessionsUntouched DEF vars, sessionVars
<1>7. AttemptsLeft' /\ SpendsLeft'
  <2>1. ASSUME NEW d \in Codes
        PROVE  /\ attempts[d] + Cardinality(WrongOn(rec', d))
                      <= MaxAttempts + Cardinality(Recoveries) - 1
               /\ spent[d] + Cardinality(HoldersOf(rec', d)) <= Cardinality(Recoveries)
               /\ spent[d] # 0 => d \in used
    <3>1. /\ attempts[d] + Cardinality(WrongOn(rec, d))
                <= MaxAttempts + Cardinality(Recoveries) - 1
          /\ spent[d] + Cardinality(HoldersOf(rec, d)) <= Cardinality(Recoveries)
          /\ spent[d] # 0 => d \in used
      BY DEF RecoveryInv, AttemptsLeft, SpendsLeft
    <3>2. /\ Cardinality(WrongOn(rec, d)) \in Nat /\ Cardinality(WrongOn(rec', d)) \in Nat
          /\ Cardinality(HoldersOf(rec, d)) \in Nat
          /\ Cardinality(HoldersOf(rec', d)) \in Nat /\ Cardinality(Recoveries) \in Nat
          /\ Cardinality(WrongOn(rec', d)) <= Cardinality(Recoveries)
          /\ Cardinality(HoldersOf(rec', d)) <= Cardinality(Recoveries)
          /\ ~IsWrong(q, d) => Cardinality(WrongOn(rec', d)) <= Cardinality(WrongOn(rec, d))
          /\ ~IsHolder(q, d) =>
                Cardinality(HoldersOf(rec', d)) <= Cardinality(HoldersOf(rec, d))
      BY <1>1, <1>2, CountsChange
    <3>3. attempts[d] \in Nat /\ spent[d] \in Nat
      BY <1>2
    <3>4. IsWrong(q, d) => attempts[d] < MaxAttempts
      BY <1>3, <1>5
    <3>5. IsHolder(q, d) => spent[d] = 0
      BY <1>1, <1>5, <3>1
    <3> QED
      BY <1>2, <3>1, <3>2, <3>3, <3>4, <3>5
  <2> QED
    BY <1>1, <2>1 DEF AttemptsLeft, SpendsLeft, codeVars
<1>8. /\ codeOwner' \in [Codes -> Users \cup {None}] /\ before' \subseteq Codes \X Codes
      /\ used' = used /\ used' \subseteq Codes /\ mailed' \subseteq Codes
      /\ outdated' = outdated /\ attempts' \in [Codes -> Nat] /\ spent' \in [Codes -> Nat]
  BY <1>1, RecTyped DEF RecTypeOK, codeVars
<1> QED
  BY <1>1, <1>4, <1>5, <1>6, <1>7, <1>8, RecStep

LEMMA ReportValidKeeps ==
    ASSUME RecoveryInv, NEW k \in Recoveries, ReportValid(k)
    PROVE  RecoveryInv'
<1>1. rec' = [rec EXCEPT ![k] = IdleRecovery] /\ UNCHANGED <<vars, codeVars, spent>>
  BY DEF ReportValid, RecEnd
<1> QED
  BY <1>1, IdleRecFits, OnlySlot

LEMMA MarkExhaustedKeeps ==
    ASSUME RecoveryInv, NEW k \in Recoveries, MarkExhausted(k)
    PROVE  RecoveryInv'
<1>1. /\ RecFits(rec[k], used, outdated, status) /\ rec[k].stage = "exhausted"
      /\ rec' = [rec EXCEPT ![k] = IdleRecovery] /\ used' = used \cup {rec[k].code}
      /\ UNCHANGED <<vars, codeOwner, before, outdated, attempts, mailed, spent>>
  BY RecTyped DEF MarkExhausted, RecEnd
<1>2. IInv' /\ Closing(status, status')
  BY <1>1, RecTyped, SessionsUntouched
<1>3. /\ codeOwner' \in [Codes -> Users \cup {None}] /\ before' \subseteq Codes \X Codes
      /\ used \subseteq used' /\ used' \subseteq Codes /\ mailed' \subseteq Codes
  <2>1. rec[k].code \in Codes
    BY <1>1 DEF RecFits
  <2> QED
    BY <1>1, <2>1, RecTyped DEF RecTypeOK
<1> QED
  BY <1>1, <1>2, <1>3, IdleRecFits, QuietStep

\* The attempt that is counted was about to be.
LEMMA CountAttemptKeeps ==
    ASSUME RecoveryInv, NEW k \in Recoveries, CountAttempt(k)
    PROVE  RecoveryInv'
<1> DEFINE c == rec[k].code
<1>1. /\ RecFits(rec[k], used, outdated, status) /\ rec[k].stage = "wrong"
      /\ rec' = [rec EXCEPT ![k] = IdleRecovery]
      /\ attempts' = [attempts EXCEPT ![c] = attempts[c] + 1]
      /\ used' \in {used, used \cup {c}}
      /\ UNCHANGED <<vars, codeOwner, before, outdated, mailed, spent>>
  BY RecTyped DEF CountAttempt, RecEnd
<1>2. c \in Codes /\ IsWrong(rec[k], c)
  BY <1>1 DEF RecFits, IsWrong
<1> HIDE DEF c
<1>3. IInv' /\ Closing(status, status')
  BY <1>1, RecTyped, SessionsUntouched
<1>4. /\ attempts \in [Codes -> Nat] /\ spent \in [Codes -> Nat]
      /\ rec \in [Recoveries -> RecoveryState] /\ MaxAttempts \in Nat
  BY RecTyped, RecoveryConstants DEF RecTypeOK
<1>5. AttemptsLeft' /\ SpendsLeft'
  <2>1. ASSUME NEW d \in Codes
        PROVE  /\ attempts'[d] + Cardinality(WrongOn(rec', d))
                      <= MaxAttempts + Cardinality(Recoveries) - 1
               /\ spent[d] + Cardinality(HoldersOf(rec', d)) <= Cardinality(Recoveries)
               /\ spent[d] # 0 => d \in used
    <3>1. /\ attempts[d] + Cardinality(WrongOn(rec, d))
                <= MaxAttempts + Cardinality(Recoveries) - 1
          /\ spent[d] + Cardinality(HoldersOf(rec, d)) <= Cardinality(Recoveries)
          /\ spent[d] # 0 => d \in used
      BY DEF RecoveryInv, AttemptsLeft, SpendsLeft
    <3>2. /\ Cardinality(WrongOn(rec, d)) \in Nat /\ Cardinality(WrongOn(rec', d)) \in Nat
          /\ Cardinality(HoldersOf(rec, d)) \in Nat
          /\ Cardinality(HoldersOf(rec', d)) \in Nat /\ Cardinality(Recoveries) \in Nat
          /\ Cardinality(WrongOn(rec', d)) <= Cardinality(WrongOn(rec, d))
          /\ k \in WrongOn(rec, d) =>
                Cardinality(WrongOn(rec', d)) = Cardinality(WrongOn(rec, d)) - 1
          /\ Cardinality(HoldersOf(rec', d)) <= Cardinality(HoldersOf(rec, d))
      <4>1. /\ WrongOn(rec, d) \in SUBSET Recoveries /\ WrongOn(rec', d) \in SUBSET Recoveries
            /\ WrongOn(rec', d) \ {k} = WrongOn(rec, d) \ {k} /\ k \notin WrongOn(rec', d)
            /\ HoldersOf(rec, d) \in SUBSET Recoveries
            /\ HoldersOf(rec', d) \in SUBSET Recoveries
            /\ HoldersOf(rec', d) \ {k} = HoldersOf(rec, d) \ {k}
            /\ k \notin HoldersOf(rec', d)
        <5>1. ~IsWrong(IdleRecovery, d) /\ ~IsHolder(IdleRecovery, d)
          BY IdleRecFits
        <5>2. rec \in [Recoveries -> RecoveryState] /\ rec' = [rec EXCEPT ![k] = IdleRecovery]
          BY <1>1, <1>4
        <5>3. rec'[k] = IdleRecovery /\ \A j \in Recoveries \ {k} : rec'[j] = rec[j]
          BY <5>2
        <5> QED
          BY <5>1, <5>3 DEF WrongOn, HoldersOf
      <4> QED
        BY <4>1, CountStep
    <3>3. attempts[d] \in Nat /\ spent[d] \in Nat
          /\ attempts'[d] = IF d = c THEN attempts[d] + 1 ELSE attempts[d]
      BY <1>1, <1>4
    <3>4. d = c => k \in WrongOn(rec, d)
      BY <1>2 DEF WrongOn
    <3> QED
      BY <1>4, <3>1, <3>2, <3>3, <3>4
  <2> QED
    BY <1>1, <2>1 DEF AttemptsLeft, SpendsLeft
<1>6. /\ codeOwner' \in [Codes -> Users \cup {None}] /\ before' \subseteq Codes \X Codes
      /\ used \subseteq used' /\ used' \subseteq Codes /\ mailed' \subseteq Codes
      /\ outdated' = outdated /\ attempts' \in [Codes -> Nat] /\ spent' \in [Codes -> Nat]
  BY <1>1, <1>2, <1>4, RecTyped DEF RecTypeOK
<1> QED
  BY <1>1, <1>3, <1>5, <1>6, IdleRecFits, RecStep

LEMMA ResetCodesKeeps ==
    ASSUME RecoveryInv, NEW k \in Recoveries, ResetCodes(k)
    PROVE  RecoveryInv'
<1> DEFINE u == rec[k].user
           rows == Rows(u)
           codes == Unused(u) \cup {rec[k].code}
           q == [rec[k] EXCEPT !.stage = "resetting", !.rows = rows, !.codes = codes]
<1>1. /\ rec[k] \in RecoveryState /\ RecFits(rec[k], used, outdated, status)
      /\ rec[k].stage = "validated" /\ rec[k].op = "reset"
      /\ rec' = [rec EXCEPT ![k] = q] /\ rowLock' = [rowLock EXCEPT ![u] = k]
      /\ UNCHANGED <<password, restricted, sessionVars, delivered, req, codeVars, spent>>
  BY RecTyped DEF ResetCodes
<1>2. u \in Users /\ rec[k].code \in Codes
  BY <1>1 DEF RecFits
<1>3. /\ rows \in SUBSET Codes /\ codes \in SUBSET Codes /\ rec[k].code \in codes
      /\ rows \subseteq used \cup codes
  BY <1>2 DEF Rows, Unused
<1> HIDE DEF rows, codes
<1>4. q \in RecoveryState
  BY <1>1, <1>3 DEF RecoveryState, RecStages
<1>5. /\ RecFits(q, used, outdated, status)
      /\ \A c \in Codes : ~IsWrong(q, c) /\ (IsHolder(q, c) => IsHolder(rec[k], c))
  BY <1>1, <1>3 DEF RecoveryState, RecFits, IsWrong, IsHolder
<1> HIDE DEF q
<1>6. IInv' /\ Closing(status, status') /\ status' = status
  <2>1. rowLock' \in [Users -> Requests \cup Recoveries \cup {None}]
    BY <1>1, RecTyped
  <2> QED
    BY <1>1, <2>1, RecTyped, LocksKeepSessions DEF sessionVars
<1>7. /\ codeOwner' \in [Codes -> Users \cup {None}] /\ before' \subseteq Codes \X Codes
      /\ used' = used /\ used' \subseteq Codes /\ mailed' \subseteq Codes
      /\ UNCHANGED <<attempts, spent, outdated>>
  BY <1>1, RecTyped DEF RecTypeOK, codeVars
<1> QED
  BY <1>1, <1>4, <1>5, <1>6, <1>7, QuietStep

LEMMA ResetSessionsKeeps ==
    ASSUME RecoveryInv, NEW k \in Recoveries, ResetSessions(k)
    PROVE  RecoveryInv'
<1> DEFINE sessions == VisibleSessions(rec[k].user)
           q == [rec[k] EXCEPT !.stage = "sweeping", !.sessions = sessions]
<1>1. /\ rec[k] \in RecoveryState /\ RecFits(rec[k], used, outdated, status)
      /\ rec[k].stage = "resetting" /\ rec' = [rec EXCEPT ![k] = q]
      /\ UNCHANGED <<vars, codeVars, spent>>
  BY RecTyped DEF ResetSessions
<1>2. sessions \in SUBSET Sessions /\ \A s \in sessions : status[s] # "absent"
  BY DEF VisibleSessions
<1> HIDE DEF sessions
<1>3. q \in RecoveryState
  BY <1>1, <1>2 DEF RecoveryState, RecStages
<1>4. /\ RecFits(q, used, outdated, status)
      /\ \A c \in Codes : ~IsWrong(q, c) /\ (IsHolder(q, c) => IsHolder(rec[k], c))
  BY <1>1, <1>2 DEF RecoveryState, RecFits, IsWrong, IsHolder
<1> HIDE DEF q
<1> QED
  BY <1>1, <1>3, <1>4, OnlySlot

\* The reset that commits was one of the holders of its code, which is used now.
LEMMA ResetCommitKeeps ==
    ASSUME RecoveryInv, NEW k \in Recoveries, ResetCommit(k)
    PROVE  RecoveryInv'
<1> DEFINE c == rec[k].code
           q == [rec[k] EXCEPT !.stage = "reset"]
<1>1. /\ rec[k] \in RecoveryState /\ RecFits(rec[k], used, outdated, status)
      /\ rec[k].stage = "sweeping" /\ rec' = [rec EXCEPT ![k] = q]
      /\ used' = used \cup rec[k].codes /\ spent' = [spent EXCEPT ![c] = spent[c] + 1]
      /\ status' = Swept(rec[k].sessions)
      /\ UNCHANGED <<restricted, owner, digest, unexpired, delivered, req,
                     codeOwner, before, outdated, attempts, mailed>>
  BY RecTyped DEF ResetCommit, RecGoto
<1>2. /\ rec[k].user \in Users /\ c \in Codes /\ c \in rec[k].codes
      /\ rec[k].codes \subseteq Codes /\ rec[k].sessions \subseteq Sessions
      /\ IsHolder(rec[k], c)
  BY <1>1 DEF RecFits, RecoveryState, IsHolder
<1>3. IInv' /\ Closing(status, status')
  <2>1. password' \in [Users -> Passwords \cup {None}]
    <3>1. password' = [password EXCEPT ![rec[k].user] = rec[k].pw]
          /\ rec[k].pw \in Passwords \cup {None}
      BY <1>1 DEF ResetCommit, RecoveryState
    <3> QED
      BY <3>1, RecTyped DEF IInv, TypeOK
  <2>2. rowLock' \in [Users -> Requests \cup Recoveries \cup {None}]
    <3>1. rowLock' = [rowLock EXCEPT ![rec[k].user] = None]
      BY DEF ResetCommit
    <3> QED
      BY <3>1, RecTyped
  <2> QED
    BY <1>1, <2>1, <2>2, RecTyped, ResetKeepsSessions
<1>4. q \in RecoveryState
  BY <1>1 DEF RecoveryState, RecStages
<1>5. \A s \in rec[k].sessions : status'[s] = "closed"
  <2>1. \A s \in Sessions : status[s] \in {"absent", "active", "closed"}
    BY RecTyped DEF IInv, TypeOK
  <2> QED
    BY <1>1, <1>2, <2>1 DEF Swept, RecFits
<1>6. /\ RecFits(q, used', outdated', status')
      /\ \A d \in Codes : ~IsWrong(q, d) /\ ~IsHolder(q, d)
  BY <1>1, <1>5 DEF RecoveryState, RecFits, IsWrong, IsHolder
<1> HIDE DEF q, c
<1>7. /\ attempts \in [Codes -> Nat] /\ spent \in [Codes -> Nat]
      /\ rec \in [Recoveries -> RecoveryState] /\ MaxAttempts \in Nat
  BY RecTyped, RecoveryConstants DEF RecTypeOK
<1>8. AttemptsLeft' /\ SpendsLeft'
  <2>1. ASSUME NEW d \in Codes
        PROVE  /\ attempts[d] + Cardinality(WrongOn(rec', d))
                      <= MaxAttempts + Cardinality(Recoveries) - 1
               /\ spent'[d] + Cardinality(HoldersOf(rec', d)) <= Cardinality(Recoveries)
               /\ spent'[d] # 0 => d \in used'
    <3>1. /\ attempts[d] + Cardinality(WrongOn(rec, d))
                <= MaxAttempts + Cardinality(Recoveries) - 1
          /\ spent[d] + Cardinality(HoldersOf(rec, d)) <= Cardinality(Recoveries)
          /\ spent[d] # 0 => d \in used
      BY DEF RecoveryInv, AttemptsLeft, SpendsLeft
    <3>2. /\ Cardinality(WrongOn(rec, d)) \in Nat /\ Cardinality(WrongOn(rec', d)) \in Nat
          /\ Cardinality(HoldersOf(rec, d)) \in Nat
          /\ Cardinality(HoldersOf(rec', d)) \in Nat /\ Cardinality(Recoveries) \in Nat
          /\ Cardinality(WrongOn(rec', d)) <= Cardinality(WrongOn(rec, d))
          /\ Cardinality(HoldersOf(rec', d)) <= Cardinality(HoldersOf(rec, d))
          /\ k \in HoldersOf(rec, d) =>
                Cardinality(HoldersOf(rec', d)) = Cardinality(HoldersOf(rec, d)) - 1
      <4>1. /\ WrongOn(rec, d) \in SUBSET Recoveries /\ WrongOn(rec', d) \in SUBSET Recoveries
            /\ WrongOn(rec', d) \ {k} = WrongOn(rec, d) \ {k} /\ k \notin WrongOn(rec', d)
            /\ HoldersOf(rec, d) \in SUBSET Recoveries
            /\ HoldersOf(rec', d) \in SUBSET Recoveries
            /\ HoldersOf(rec', d) \ {k} = HoldersOf(rec, d) \ {k}
            /\ k \notin HoldersOf(rec', d)
        <5>1. ~IsWrong(q, d) /\ ~IsHolder(q, d)
          BY <1>6
        <5>2. rec \in [Recoveries -> RecoveryState] /\ rec' = [rec EXCEPT ![k] = q]
          BY <1>1, <1>7
        <5>3. rec'[k] = q /\ \A j \in Recoveries \ {k} : rec'[j] = rec[j]
          BY <5>2
        <5> QED
          BY <5>1, <5>3 DEF WrongOn, HoldersOf
      <4> QED
        BY <4>1, CountStep
    <3>3. attempts[d] \in Nat /\ spent[d] \in Nat
          /\ spent'[d] = IF d = c THEN spent[d] + 1 ELSE spent[d]
      BY <1>1, <1>7
    <3>4. spent'[d] # 0 => d \in used'
      BY <1>1, <1>2, <3>1, <3>3
    <3>5. d = c => k \in HoldersOf(rec, d)
      BY <1>2 DEF HoldersOf
    <3> QED
      BY <1>7, <3>1, <3>2, <3>3, <3>4, <3>5
  <2> QED
    BY <1>1, <2>1 DEF AttemptsLeft, SpendsLeft
<1>9. /\ codeOwner' \in [Codes -> Users \cup {None}] /\ before' \subseteq Codes \X Codes
      /\ used \subseteq used' /\ used' \subseteq Codes /\ mailed' \subseteq Codes
      /\ outdated' = outdated /\ attempts' \in [Codes -> Nat] /\ spent' \in [Codes -> Nat]
  BY <1>1, <1>2, <1>7, RecTyped DEF RecTypeOK
<1> QED
  BY <1>1, <1>3, <1>4, <1>6, <1>8, <1>9, RecStep

LEMMA ResetNotifyKeeps ==
    ASSUME RecoveryInv, NEW k \in Recoveries, ResetNotify(k)
    PROVE  RecoveryInv'
<1> DEFINE q == [rec[k] EXCEPT !.stage = "done"]
<1>1. /\ rec[k] \in RecoveryState /\ RecFits(rec[k], used, outdated, status)
      /\ rec[k].stage = "reset" /\ rec' = [rec EXCEPT ![k] = q]
      /\ UNCHANGED <<vars, codeVars, spent>>
  BY RecTyped DEF ResetNotify, RecGoto
<1>2. q \in RecoveryState
  BY <1>1 DEF RecoveryState, RecStages, RecTerminal
<1>3. /\ RecFits(q, used, outdated, status)
      /\ \A c \in Codes : ~IsWrong(q, c) /\ ~IsHolder(q, c)
  BY <1>1 DEF RecoveryState, RecFits, IsWrong, IsHolder
<1> HIDE DEF q
<1> QED
  BY <1>1, <1>2, <1>3, OnlySlot

LEMMA RecoveryCrashKeeps ==
    ASSUME RecoveryInv, NEW k \in Recoveries, RecoveryCrash(k)
    PROVE  RecoveryInv'
<1>1. /\ rec' = [rec EXCEPT ![k] = IdleRecovery]
      /\ rowLock' = [u \in Users |-> IF rowLock[u] = k THEN None ELSE rowLock[u]]
      /\ UNCHANGED <<password, restricted, sessionVars, delivered, req, codeVars, spent>>
  BY DEF RecoveryCrash, RecEnd
<1>2. IInv' /\ Closing(status, status') /\ status' = status
  <2>1. rowLock' \in [Users -> Requests \cup Recoveries \cup {None}]
    BY <1>1, RecTyped
  <2> QED
    BY <1>1, <2>1, RecTyped, LocksKeepSessions DEF sessionVars
<1>3. /\ codeOwner' \in [Codes -> Users \cup {None}] /\ before' \subseteq Codes \X Codes
      /\ used' = used /\ used' \subseteq Codes /\ mailed' \subseteq Codes
      /\ UNCHANGED <<attempts, spent, outdated>>
  BY <1>1, RecTyped DEF RecTypeOK, codeVars
<1> QED
  BY <1>1, <1>2, <1>3, IdleRecFits, QuietStep

\* Steps of AuthSessions, and codes that expire, change no request of recovery.
LEMMA OtherStepKeeps ==
    ASSUME RecoveryInv, IInv', Closing(status, status'),
           UNCHANGED <<codeOwner, before, used, attempts, mailed, rec, spent>>,
           outdated \subseteq outdated', outdated' \subseteq Codes
    PROVE  RecoveryInv'
<1>1. RecTypeOK'
  BY RecTyped DEF RecTypeOK
<1>2. RecoveriesFit'
  <2>1. ASSUME NEW k \in Recoveries PROVE RecFits(rec[k], used, outdated', status')
    BY RecTyped, RecFitsPersists
  <2> QED
    BY <2>1 DEF RecoveriesFit
<1>3. AttemptsLeft' /\ SpendsLeft'
  BY DEF RecoveryInv, AttemptsLeft, SpendsLeft
<1> QED
  BY <1>1, <1>2, <1>3 DEF RecoveryInv

\* Every step of every request, of AuthSessions and of recovery, keeps the
\* invariant.
LEMMA RecNextKeeps == RecoveryInv /\ [RecoveryNext]_allVars => RecoveryInv'
<1> SUFFICES ASSUME RecoveryInv, [RecoveryNext]_allVars PROVE RecoveryInv'
  OBVIOUS
<1>1. CASE [Next]_vars /\ UNCHANGED recoveryVars
  <2>1. IInv' /\ Closing(status, status')
    BY <1>1, RecTyped, NextInvariant, SessionsClosing
  <2>2. UNCHANGED <<codeOwner, before, used, attempts, mailed, rec, spent>>
        /\ outdated' = outdated /\ outdated \subseteq Codes
    BY <1>1, RecTyped DEF recoveryVars, codeVars, RecTypeOK
  <2> QED
    BY <2>1, <2>2, OtherStepKeeps
<1>2. ASSUME NEW c \in Codes, ExpireCode(c) PROVE RecoveryInv'
  <2>1. IInv' /\ Closing(status, status')
    BY <1>2, RecTyped, SessionsUntouched DEF ExpireCode
  <2>2. outdated' \subseteq Codes /\ outdated \subseteq outdated'
        /\ UNCHANGED <<codeOwner, before, used, attempts, mailed, rec, spent>>
    BY <1>2, RecTyped DEF ExpireCode, RecTypeOK
  <2> QED
    BY <2>1, <2>2, OtherStepKeeps
<1>3. ASSUME NEW k \in Recoveries, RecArrive(k) PROVE RecoveryInv'
  BY <1>3, RequestCodeKeeps, PresentCodeKeeps DEF RecArrive
<1>4. ASSUME NEW k \in Recoveries, RecProceed(k) PROVE RecoveryInv'
  BY <1>4, RetireSnapshotKeeps, InsertCodeKeeps, RetireCommitKeeps, MailCodeKeeps,
     ReportValidKeeps, MarkExhaustedKeeps, CountAttemptKeeps, ResetSessionsKeeps,
     ResetCommitKeeps, ResetNotifyKeeps DEF RecProceed
<1> QED
  BY <1>1, <1>2, <1>3, <1>4, ResetCodesKeeps, RecoveryCrashKeeps
  DEF RecoveryNext, allVars

LEMMA RecInvariance == RecoverySpec => []RecoveryInv
  BY RecInitKeeps, RecNextKeeps, PTL DEF RecoverySpec

\* What the counts and the rows of requests promise when they have committed.
LEMMA RecInvariantImplies ==
    RecoveryInv => ResetIsFinal /\ RequestRetiresCodes /\ AttemptsBounded
                   /\ SpentOnlyTogether
<1> SUFFICES ASSUME RecoveryInv
             PROVE  ResetIsFinal /\ RequestRetiresCodes /\ AttemptsBounded
                    /\ SpentOnlyTogether
  OBVIOUS
<1>1. /\ ResetIsFinal /\ RequestRetiresCodes
      /\ \A k \in Recoveries : rec[k].paid = 0
  BY RecTyped DEF RecFits, ResetIsFinal, RequestRetiresCodes
<1>2. ASSUME NEW c \in Codes
      PROVE  /\ attempts[c] <= MaxAttempts + Cardinality(Recoveries) - 1
             /\ spent[c] <= Cardinality(Recoveries)
  <2>1. /\ attempts[c] + Cardinality(WrongOn(rec, c))
              <= MaxAttempts + Cardinality(Recoveries) - 1
        /\ spent[c] + Cardinality(HoldersOf(rec, c)) <= Cardinality(Recoveries)
    BY DEF RecoveryInv, AttemptsLeft, SpendsLeft
  <2>2. /\ WrongOn(rec, c) \in SUBSET Recoveries /\ HoldersOf(rec, c) \in SUBSET Recoveries
        /\ IsFiniteSet(Recoveries)
    BY RecoveryConstants DEF WrongOn, HoldersOf
  <2>3. /\ Cardinality(WrongOn(rec, c)) \in Nat /\ Cardinality(HoldersOf(rec, c)) \in Nat
        /\ Cardinality(Recoveries) \in Nat
    BY <2>2, FS_Subset, FS_CardinalityType
  <2>4. attempts[c] \in Nat /\ spent[c] \in Nat /\ MaxAttempts \in Nat
    BY RecTyped, RecoveryConstants DEF RecTypeOK
  <2> QED
    BY <2>1, <2>3, <2>4
<1> QED
  BY <1>1, <1>2 DEF AttemptsBounded, SpentOnlyTogether

\* No step takes a code back, and none revives a session.
LEMMA UsedStep == RecoveryInv /\ [RecoveryNext]_allVars => used \subseteq used'
<1> SUFFICES ASSUME [RecoveryNext]_allVars PROVE used \subseteq used'
  OBVIOUS
<1>1. ASSUME NEW k \in Recoveries, RecArrive(k) \/ RecProceed(k)
      PROVE  used \subseteq used'
  BY <1>1
  DEF RecArrive, RequestCode, PresentCode, RecProceed, RetireSnapshot, InsertCode,
      RetireCommit, MailCode, ReportValid, MarkExhausted, CountAttempt, ResetSessions, ResetCommit,
      ResetNotify, codeVars
<1> QED
  BY <1>1
  DEF RecoveryNext, ResetCodes, RecoveryCrash, ExpireCode, allVars, recoveryVars, codeVars

LEMMA RecClosedStep ==
    RecoveryInv /\ [RecoveryNext]_allVars
    => \A s \in Sessions : status[s] = "closed" => status'[s] = "closed"
<1> SUFFICES ASSUME RecoveryInv, [RecoveryNext]_allVars, NEW s \in Sessions,
                    status[s] = "closed"
             PROVE  status'[s] = "closed"
  OBVIOUS
<1>1. CASE [Next]_vars
  BY <1>1, ClosedStep, RecTyped
<1>2. ASSUME NEW k \in Recoveries, ResetCommit(k) PROVE status'[s] = "closed"
  BY <1>2 DEF ResetCommit, Swept
<1>3. ASSUME NEW k \in Recoveries, RecArrive(k) \/ RecProceed(k)
      PROVE  status'[s] = "closed"
  BY <1>2, <1>3
  DEF RecArrive, RequestCode, PresentCode, RecProceed, RetireSnapshot, InsertCode,
      RetireCommit, MailCode, ReportValid, MarkExhausted, CountAttempt, ResetSessions, ResetNotify,
      vars, sessionVars
<1> QED
  BY <1>1, <1>3
  DEF RecoveryNext, ResetCodes, RecoveryCrash, ExpireCode, allVars, vars, sessionVars

-----------------------------------------------------------------------------
(* The theorems.                                                           *)

\* Codes and requests of recovery keep their types.
THEOREM RecTypeCorrect == RecoverySpec => []RecTypeOK
  BY RecInvariance, PTL DEF RecoveryInv

\* A committed reset has retired every code and closed every session it saw, for
\* good, whatever logins, refreshes and changes of password run beside it.
THEOREM ResetFinal == RecoverySpec => []ResetIsFinal
  BY RecInvariance, RecInvariantImplies, PTL

\* A committed request has retired the live codes that were there before.
THEOREM EarlierCodesRetired == RecoverySpec => []RequestRetiresCodes
  BY RecInvariance, RecInvariantImplies, PTL

\* Wrong guesses exceed the limit by less than the number of requests in flight.
THEOREM AttemptsLimited == RecoverySpec => []AttemptsBounded
  BY RecInvariance, RecInvariantImplies, PTL

\* A reset that commits had read its code before any other reset with it had
\* committed, and a code pays for no more resets than there are requests in flight.
THEOREM SpendsOverlap == RecoverySpec => []SpentOnlyTogether
  BY RecInvariance, RecInvariantImplies, PTL

\* What is used, retired or exhausted stays so (CountAttempt writes usedAt, too).
THEOREM UsedForGood == RecoverySpec => UsedStaysUsed
  BY RecInvariance, UsedStep, PTL DEF RecoverySpec, UsedStaysUsed

\* Beside resets, too, the sessions of AuthSessions keep what was proved of them.
THEOREM SessionsKeptBesideResets ==
    RecoverySpec => [](TypeOK /\ SweepsAreFinal /\ ChangeEndsOwnSession
                       /\ DeliveredTokensMatch)
<1>1. RecoveryInv => TypeOK /\ SweepsAreFinal /\ ChangeEndsOwnSession /\ DeliveredTokensMatch
  BY InvariantImplies DEF RecoveryInv
<1> QED
  BY <1>1, RecInvariance, PTL

\* No step of a reset, nor of anything beside it, revives a closed session.
THEOREM NoRevivalBesideResets == RecoverySpec => ClosedStaysClosed
<1>1. RecoveryInv /\ [RecoveryNext]_allVars
      => [\A s \in Sessions : status[s] = "closed" => status'[s] = "closed"]_vars
  BY RecClosedStep
<1> QED
  BY <1>1, RecInvariance, PTL DEF RecoverySpec, ClosedStaysClosed

=============================================================================
