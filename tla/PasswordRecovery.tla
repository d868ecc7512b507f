-------------------------- MODULE PasswordRecovery --------------------------
(***************************************************************************)
(* PasswordRecoveryService: recovery codes are requested, verified and     *)
(* spent on a new password, beside the sessions and password changes of    *)
(* AuthSessions, whose users rows, locks and sessions it shares.           *)
(*                                                                         *)
(* A code is a row id; the plaintext a client presents is the id of the    *)
(* code it was mailed, or None for a wrong guess.                          *)
(***************************************************************************)
EXTENDS AuthSessions, Naturals

CONSTANTS
    Codes,        \* ids of password_recovery_codes rows (bounds how many)
    MaxAttempts   \* passwordRecovery.maxAttempts, at least 1

ASSUME RecoveryConstants ==
    /\ MaxAttempts \in Nat \ {0}
    /\ None \notin Codes
    /\ Requests \cap Recoveries = {}
    /\ IsFiniteSet(Recoveries)

VARIABLES
    codeOwner,   \* userId of the row, None while there is no row
    before,      \* pairs of rows, the first with the earlier createdAt
    used,        \* rows with usedAt set
    outdated,    \* rows whose expiresAt has passed
    attempts,    \* attemptCount
    mailed,      \* codes that reached their user
    rec,         \* what each recovery request is doing
    spent        \* history: how many resets each code has paid for

codeVars == <<codeOwner, before, used, outdated, attempts, mailed>>
recoveryVars == <<codeVars, rec, spent>>
allVars == <<vars, recoveryVars>>

RecTerminal == {"idle", "done"}
RecStages == RecTerminal \cup
    {"requested",  \* account found, code generated
     "retiring",   \* transaction: updateMany over the earlier codes has run
     "inserted",   \* transaction: the new row is inserted, and dated
     "mailing",    \* row committed: email being sent
     "exhausted",  \* too many attempts read: row about to be marked used
     "wrong",      \* comparison failed: attempt about to be counted
     "validated",  \* comparison succeeded: new password being hashed
     "resetting",  \* transaction: user row and codes updated
     "sweeping",   \* transaction: updateMany of the sessions has run
     "reset"}      \* committed: confirmation email being sent

RecoveryState ==
    \* codes: rows the open transaction updates; rows, sessions: what it could see
    \* paid: history, the resets the code had paid for when it was read
    [op : {"none", "request", "verify", "reset"}, stage : RecStages,
     user : Users \cup {None}, code : Codes \cup {None}, tries : Nat, paid : Nat,
     pw : Passwords \cup {None}, codes : SUBSET Codes,
     rows : SUBSET Codes, sessions : SUBSET Sessions]

IdleRecovery ==
    [op |-> "none", stage |-> "idle", user |-> None, code |-> None,
     tries |-> 0, paid |-> 0, pw |-> None, codes |-> {}, rows |-> {}, sessions |-> {}]

RecTypeOK ==
    /\ codeOwner \in [Codes -> Users \cup {None}]
    /\ before \subseteq Codes \X Codes
    /\ used \subseteq Codes /\ outdated \subseteq Codes /\ mailed \subseteq Codes
    /\ attempts \in [Codes -> Nat] /\ spent \in [Codes -> Nat]
    /\ rec \in [Recoveries -> RecoveryState]

RecoveryInit ==
    /\ Init
    /\ codeOwner = [c \in Codes |-> None]
    /\ before = {}
    /\ used = {} /\ outdated = {} /\ mailed = {}
    /\ attempts = [c \in Codes |-> 0] /\ spent = [c \in Codes |-> 0]
    /\ rec = [k \in Recoveries |-> IdleRecovery]

-----------------------------------------------------------------------------
(* Helpers.                                                                *)

RecFree(k) == rec[k].stage \in RecTerminal
RecGoto(k, stage) == rec' = [rec EXCEPT ![k].stage = stage]
RecEnd(k) == rec' = [rec EXCEPT ![k] = IdleRecovery]

Rows(u) == {c \in Codes : codeOwner[c] = u}

\* getLatestRecoveryCode: findFirst by email, createdAt descending.
Latest(u, c) == c \in Rows(u) /\ \A d \in Rows(u) \ {c} : <<d, c>> \in before

\* createdAt @default(now()), set as the row is inserted: later than every row
\* inserted so far.
DatedLast(c) == {pair \in before : c \notin {pair[1], pair[2]}} \cup (Codes \ {c}) \X {c}

\* Rows an updateMany over unused codes selects.
Unused(u) == Rows(u) \ used

\* Mutated: attemptCount is not looked at before the comparison.
Assessment_NoLimit(c, guess) == IF guess # c THEN "wrong" ELSE "validated"

\* assertValidCode, as far as the row that was read decides.
Assessment(c, guess) ==
    IF attempts[c] >= MaxAttempts THEN "exhausted"
    ELSE IF guess # c THEN "wrong"
    ELSE "validated"

-----------------------------------------------------------------------------
(* Requesting a code.                                                      *)

\* request: for an unknown email nothing is done.
\* Bound: a row id must be left, and is named at once.
RequestCode(k, u, c) ==
    /\ RecFree(k) /\ codeOwner[c] = None /\ Registered(u)
    /\ \A j \in Recoveries : rec[j].code # c
    /\ rec' = [rec EXCEPT ![k] =
         [op |-> "request", user |-> u, code |-> c, tries |-> 0, paid |-> 0,
          pw |-> None, codes |-> {}, rows |-> {}, sessions |-> {}, stage |-> "requested"]]
    /\ UNCHANGED <<vars, codeVars, spent>>

\* request, transaction: updateMany over unused codes that have not expired.
RetireSnapshot(k) ==
    /\ rec[k].stage = "requested"
    /\ rec' = [rec EXCEPT ![k] = [@ EXCEPT
         !.stage = "retiring", !.rows = Rows(rec[k].user),
         !.codes = Unused(rec[k].user) \ outdated]]
    /\ UNCHANGED <<vars, codeVars, spent>>

\* request, transaction: the INSERT of the new row, which nobody sees yet.
InsertCode(k) ==
    /\ rec[k].stage = "retiring"
    /\ before' = DatedLast(rec[k].code)
    /\ RecGoto(k, "inserted")
    /\ UNCHANGED <<vars, codeOwner, used, outdated, attempts, mailed, spent>>

\* Mutated: the earlier codes stay usable.
RetireCommit_KeepsOld(k) ==
    /\ rec[k].stage = "inserted"
    /\ codeOwner' = [codeOwner EXCEPT ![rec[k].code] = rec[k].user]
    /\ RecGoto(k, "mailing")
    /\ UNCHANGED <<vars, used, before, outdated, attempts, mailed, spent>>

\* request: the transaction commits.
RetireCommit(k) ==
    /\ rec[k].stage = "inserted"
    /\ codeOwner' = [codeOwner EXCEPT ![rec[k].code] = rec[k].user]
    /\ used' = used \cup rec[k].codes
    /\ RecGoto(k, "mailing")
    /\ UNCHANGED <<vars, before, outdated, attempts, mailed, spent>>

\* request: the email with the code is sent after the commit.
MailCode(k) ==
    /\ rec[k].stage = "mailing"
    /\ mailed' = mailed \cup {rec[k].code}
    /\ RecGoto(k, "done")
    /\ UNCHANGED <<vars, codeOwner, before, used, outdated, attempts, spent>>

-----------------------------------------------------------------------------
(* Verifying a code, and spending it.                                      *)

\* Mutated: the user and the code are swapped.
PresentCode_Swapped(k, op, u, c, guess, p) ==
    /\ RecFree(k) /\ Latest(u, c) /\ c \notin used \cup outdated
    /\ rec' = [rec EXCEPT ![k] =
         [op |-> op, user |-> c, code |-> u, tries |-> attempts[c],
          paid |-> spent[c], pw |-> p, codes |-> {}, rows |-> {}, sessions |-> {},
          stage |-> Assessment(c, guess)]]
    /\ UNCHANGED <<vars, codeVars, spent>>

\* verify and reset: one read of the latest code, judged on what was read.  A
\* code that is missing, used or outdated is refused, and nothing changes.
PresentCode(k, op, u, c, guess, p) ==
    /\ RecFree(k) /\ Latest(u, c) /\ c \notin used \cup outdated
    /\ rec' = [rec EXCEPT ![k] =
         [op |-> op, user |-> u, code |-> c, tries |-> attempts[c],
          paid |-> spent[c], pw |-> p, codes |-> {}, rows |-> {}, sessions |-> {},
          stage |-> Assessment(c, guess)]]
    /\ UNCHANGED <<vars, codeVars, spent>>

\* verify: a code that matched is only reported as valid.
ReportValid(k) ==
    /\ rec[k].stage = "validated" /\ rec[k].op = "verify"
    /\ RecEnd(k)
    /\ UNCHANGED <<vars, codeVars, spent>>

\* assertValidCode: the row read had no attempts left.
MarkExhausted(k) ==
    /\ rec[k].stage = "exhausted"
    /\ used' = used \cup {rec[k].code}
    /\ RecEnd(k)
    /\ UNCHANGED <<vars, codeOwner, before, outdated, attempts, mailed, spent>>

\* Mutated: usedAt is written on every failure, as null while attempts are left.
CountAttempt_ClearsUsed(k) ==
    LET c == rec[k].code IN
    /\ rec[k].stage = "wrong"
    /\ attempts' = [attempts EXCEPT ![c] = @ + 1]
    /\ used' = IF rec[k].tries + 1 >= MaxAttempts THEN used \cup {c} ELSE used \ {c}
    /\ RecEnd(k)
    /\ UNCHANGED <<vars, codeOwner, before, outdated, mailed, spent>>

\* assertValidCode: the increment is the database's, the decision to retire
\* the code rests on the count that was read.
CountAttempt(k) ==
    LET c == rec[k].code IN
    /\ rec[k].stage = "wrong"
    /\ attempts' = [attempts EXCEPT ![c] = @ + 1]
    /\ used' = IF rec[k].tries + 1 >= MaxAttempts THEN used \cup {c} ELSE used
    /\ RecEnd(k)
    /\ UNCHANGED <<vars, codeOwner, before, outdated, mailed, spent>>

\* Mutated: the presented code itself is not marked.
ResetCodes_ForgetsCode(k) ==
    LET u == rec[k].user IN
    /\ rec[k].stage = "validated" /\ rec[k].op = "reset" /\ rowLock[u] = None
    /\ rowLock' = [rowLock EXCEPT ![u] = k]
    /\ rec' = [rec EXCEPT ![k] = [@ EXCEPT
         !.stage = "resetting", !.rows = Rows(u),
         !.codes = Unused(u) \ {rec[k].code}]]
    /\ UNCHANGED <<password, restricted, sessionVars, delivered, req, codeVars,
                   spent>>

\* reset, transaction: the user row, this code and the other unused codes.
ResetCodes(k) ==
    LET u == rec[k].user IN
    /\ rec[k].stage = "validated" /\ rec[k].op = "reset" /\ rowLock[u] = None
    /\ rowLock' = [rowLock EXCEPT ![u] = k]
    /\ rec' = [rec EXCEPT ![k] = [@ EXCEPT
         !.stage = "resetting", !.rows = Rows(u),
         !.codes = Unused(u) \cup {rec[k].code}]]
    /\ UNCHANGED <<password, restricted, sessionVars, delivered, req, codeVars,
                   spent>>

\* reset, transaction: the updateMany of the sessions starts.
ResetSessions(k) ==
    /\ rec[k].stage = "resetting"
    /\ rec' = [rec EXCEPT ![k] = [@ EXCEPT
         !.stage = "sweeping", !.sessions = VisibleSessions(rec[k].user)]]
    /\ UNCHANGED <<vars, codeVars, spent>>

\* Mutated: the sessions are not closed.
ResetCommit_KeepsSessions(k) ==
    LET u == rec[k].user IN
    /\ rec[k].stage = "sweeping"
    /\ password' = [password EXCEPT ![u] = rec[k].pw]
    /\ rowLock' = [rowLock EXCEPT ![u] = None]
    /\ used' = used \cup rec[k].codes
    /\ spent' = [spent EXCEPT ![rec[k].code] = @ + 1]
    /\ RecGoto(k, "reset")
    /\ UNCHANGED <<restricted, sessionVars, delivered, req,
                   codeOwner, before, outdated, attempts, mailed>>

\* reset: the transaction commits.
ResetCommit(k) ==
    LET u == rec[k].user IN
    /\ rec[k].stage = "sweeping"
    /\ password' = [password EXCEPT ![u] = rec[k].pw]
    /\ status' = Swept(rec[k].sessions)
    /\ rowLock' = [rowLock EXCEPT ![u] = None]
    /\ used' = used \cup rec[k].codes
    /\ spent' = [spent EXCEPT ![rec[k].code] = @ + 1]
    /\ RecGoto(k, "reset")
    /\ UNCHANGED <<restricted, owner, digest, unexpired, delivered, req,
                   codeOwner, before, outdated, attempts, mailed>>

\* The confirmation email, after the commit.
ResetNotify(k) ==
    /\ rec[k].stage = "reset"
    /\ RecGoto(k, "done")
    /\ UNCHANGED <<vars, codeVars, spent>>

-----------------------------------------------------------------------------

\* The request fails or its process dies; its open transaction is rolled back.
RecoveryCrash(k) ==
    /\ ~RecFree(k)
    /\ rowLock' = [u \in Users |-> IF rowLock[u] = k THEN None ELSE rowLock[u]]
    /\ RecEnd(k)
    /\ UNCHANGED <<password, restricted, sessionVars, delivered, req, codeVars,
                   spent>>

\* The minutes a code is valid for have passed.
ExpireCode(c) ==
    /\ codeOwner[c] # None /\ c \notin outdated
    /\ outdated' = outdated \cup {c}
    /\ UNCHANGED <<vars, codeOwner, before, used, attempts, mailed, rec, spent>>

RecArrive(k) ==
    \E u \in Users, c \in Codes :
        \/ RequestCode(k, u, c)
        \/ \E guess \in mailed \cup {None} :
              \/ PresentCode(k, "verify", u, c, guess, None)
              \/ \E p \in Passwords : PresentCode(k, "reset", u, c, guess, p)

RecProceed(k) ==
    \/ RetireSnapshot(k) \/ InsertCode(k) \/ RetireCommit(k) \/ MailCode(k)
    \/ ReportValid(k) \/ MarkExhausted(k) \/ CountAttempt(k)
    \/ ResetSessions(k) \/ ResetCommit(k) \/ ResetNotify(k)

RecoveryNext ==
    \/ Next /\ UNCHANGED recoveryVars
    \/ \E k \in Recoveries :
          RecArrive(k) \/ RecProceed(k) \/ ResetCodes(k) \/ RecoveryCrash(k)
    \/ \E c \in Codes : ExpireCode(c)

RecoverySpec == RecoveryInit /\ [][RecoveryNext]_allVars

-----------------------------------------------------------------------------
(* Properties.                                                             *)

\* A committed reset has retired every code and closed every session its
\* transaction could see, also against logins, refreshes and changes of
\* password that were running.  (reset)
ResetIsFinal ==
    \A k \in Recoveries :
        rec[k].op = "reset" /\ rec[k].stage \in {"reset", "done"} =>
            /\ rec[k].rows \subseteq used
            /\ \A s \in rec[k].sessions : status[s] = "closed"

\* Two codes of a user are usable together only if their requests overlapped:
\* a committed request has retired the live codes that were committed before.
RequestRetiresCodes ==
    \A k \in Recoveries :
        rec[k].op = "request" /\ rec[k].stage \in {"mailing", "done"}
        => rec[k].rows \subseteq used \cup outdated

\* Wrong guesses are limited although the limit is checked on a stale count:
\* only requests that were comparing at the same time can go beyond it.
AttemptsBounded ==
    \A c \in Codes :
        attempts[c] <= MaxAttempts + Cardinality(Recoveries) - 1

\* A code pays for a second reset only if the two had read it before either
\* committed: a reset that has committed had read its code when nothing had been
\* paid with it, so whoever reads it later is refused, and resets that race for
\* one code are no more than there are requests at a time.  (reset does not look
\* at usedAt again in its transaction.)
SpentOnlyTogether ==
    /\ \A k \in Recoveries :
          rec[k].op = "reset" /\ rec[k].stage \in {"reset", "done"} => rec[k].paid = 0
    /\ \A c \in Codes : spent[c] <= Cardinality(Recoveries)

\* A code that was used, retired or exhausted is never usable again.
UsedStaysUsed == [][used \subseteq used']_allVars

=============================================================================
