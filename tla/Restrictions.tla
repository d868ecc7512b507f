---------------------------- MODULE Restrictions ----------------------------
(***************************************************************************)
(* UsersAccountStateService: the administrative restrictions of one user,  *)
(* created, lifted and looked up by calls that interleave.  No call uses a *)
(* transaction and no index limits the rows: each statement is an action.  *)
(*                                                                         *)
(* Abstractions.  The user exists and users.status is 'active', which      *)
(* nothing in the program changes, so the effective status follows from    *)
(* the restriction that is found.  Reasons and admins are left out.        *)
(***************************************************************************)
EXTENDS Naturals, FiniteSets

CONSTANTS
    Rows,     \* ids of UserRestriction rows (bounds how many)
    Calls,    \* call slots
    MaxTime,  \* bound of the clock
    None      \* no value

ASSUME RestrictionConstants == MaxTime \in Nat /\ None \notin Rows \cup Nat

VARIABLES
    clock,   \* the time
    row,     \* the table
    call,    \* what each call slot is doing
    lifted   \* history: rows an administrator has lifted

restrictionVars == <<clock, row, call, lifted>>

Types == {"suspension", "block"}
Times == 0..MaxTime
Ends == 1..(MaxTime + 1) \cup {None}

RowState ==
    \* seen: rows that were there when the creating call looked for one in force;
    \* checked: when that was (both history)
    [state : {"absent", "active", "inactive"}, type : Types, starts : Times,
     ends : Ends, seen : SUBSET Rows, checked : Times]
NoRow == [state |-> "absent", type |-> "block", starts |-> 0, ends |-> None,
          seen |-> {}, checked |-> 0]

Terminal == {"idle", "answered"}
CallState ==
    [op : {"none", "create", "lift", "look"},
     stage : Terminal \cup {"begun", "expired", "inserting", "lifting"},
     row : Rows \cup {None}, image : RowState,
     status : {"active", "suspended", "blocked"}]
IdleCall == [op |-> "none", stage |-> "idle", row |-> None, image |-> NoRow,
             status |-> "active"]

RestrictionTypeOK ==
    /\ clock \in Times
    /\ row \in [Rows -> RowState]
    /\ call \in [Calls -> CallState]
    /\ lifted \subseteq Rows

RestrictionInit ==
    /\ clock = 0
    /\ row = [m \in Rows |-> NoRow]
    /\ call = [c \in Calls |-> IdleCall]
    /\ lifted = {}

-----------------------------------------------------------------------------
(* Helpers.                                                                *)

Free(c) == call[c].stage \in Terminal
Existing == {m \in Rows : row[m].state # "absent"}

\* getActiveAdministrativeRestriction: the condition.
InForce(m) ==
    /\ row[m].state = "active" /\ row[m].starts <= clock
    /\ row[m].ends # None => clock < row[m].ends

\* ... and the order: the latest start first.  (createdAt decides between equal
\* starts, which are rows of calls that did not see each other.)
Found(m) == InForce(m) /\ \A n \in Rows : InForce(n) => row[n].starts <= row[m].starts
NoneInForce == \A m \in Rows : ~InForce(m)

\* Mutated: the type of the restriction is reported as the status.
EffectiveStatus_Raw(restriction) == restriction.type

\* resolveEffectiveStatus, of a user who is active.
EffectiveStatus(restriction) ==
    IF restriction.type = "block" THEN "blocked" ELSE "suspended"

\* Mutated: isActive is computed anew for every row.
AfterExpiry_Recomputed(m) ==
    IF row[m].state # "absent" /\ row[m].ends # None
    THEN [row[m] EXCEPT !.state = IF clock < row[m].ends THEN "active" ELSE "inactive"]
    ELSE row[m]

\* Mutated: a restriction ends a unit of time too early.
AfterExpiry_Early(m) ==
    IF row[m].state = "active" /\ row[m].ends # None /\ row[m].ends <= clock + 1
    THEN [row[m] EXCEPT !.state = "inactive"] ELSE row[m]

\* expireEndedRestrictions: {isActive, endsAt <= now} -> isActive: false.
AfterExpiry(m) ==
    IF row[m].state = "active" /\ row[m].ends # None /\ row[m].ends <= clock
    THEN [row[m] EXCEPT !.state = "inactive"] ELSE row[m]

-----------------------------------------------------------------------------

\* createAdministrativeRestriction: the dates are resolved first; an end that
\* does not come after the start is refused.  Bound: a row id is left, and is
\* named at once.
Create(c, m, type, starts, ends) ==
    /\ Free(c) /\ row[m].state = "absent" /\ \A d \in Calls : call[d].row # m
    /\ ends # None => starts < ends
    /\ call' = [call EXCEPT ![c] = [IdleCall EXCEPT
         !.op = "create", !.stage = "begun", !.row = m,
         !.image = [NoRow EXCEPT !.state = "active", !.type = type,
                      !.starts = starts, !.ends = ends]]]
    /\ UNCHANGED <<clock, row, lifted>>

\* getUserAccountState, by a login, a guard or a profile read.
Look(c) ==
    /\ Free(c)
    /\ call' = [call EXCEPT ![c] = [IdleCall EXCEPT !.op = "look", !.stage = "begun"]]
    /\ UNCHANGED <<clock, row, lifted>>

Expire(c) ==
    /\ call[c].stage = "begun"
    /\ row' = [m \in Rows |-> AfterExpiry(m)]
    /\ call' = [call EXCEPT ![c].stage = "expired"]
    /\ UNCHANGED <<clock, lifted>>

\* Mutated: the refusal is missing.
CheckNone_Dropped(c) ==
    /\ call[c].stage = "expired" /\ call[c].op = "create"
    /\ call' = [call EXCEPT ![c] = [@ EXCEPT !.stage = "inserting",
                 !.image.seen = Existing, !.image.checked = clock]]
    /\ UNCHANGED <<clock, row, lifted>>

\* createAdministrativeRestriction: one in force is a refusal.
CheckNone(c) ==
    /\ call[c].stage = "expired" /\ call[c].op = "create"
    /\ call' = [call EXCEPT ![c] = IF NoneInForce
         THEN [@ EXCEPT !.stage = "inserting",
                 !.image.seen = Existing, !.image.checked = clock]
         ELSE IdleCall]
    /\ UNCHANGED <<clock, row, lifted>>

Insert(c) ==
    /\ call[c].stage = "inserting"
    /\ row' = [row EXCEPT ![call[c].row] = call[c].image]
    /\ call' = [call EXCEPT ![c] = IdleCall]
    /\ UNCHANGED <<clock, lifted>>

\* getUserAccountState: the answer.
Answer(c) ==
    /\ call[c].stage = "expired" /\ call[c].op = "look"
    /\ \/ /\ NoneInForce
          /\ call' = [call EXCEPT ![c] = [@ EXCEPT !.stage = "answered"]]
       \/ \E m \in Rows :
             /\ Found(m)
             /\ call' = [call EXCEPT ![c] = [@ EXCEPT !.stage = "answered", !.row = m,
                           !.status = EffectiveStatus(row[m])]]
    /\ UNCHANGED <<clock, row, lifted>>

\* deactivateAdministrativeRestriction: one must be in force.
FindToLift(c, m) ==
    /\ Free(c) /\ Found(m)
    /\ call' = [call EXCEPT ![c] = [IdleCall EXCEPT
         !.op = "lift", !.stage = "lifting", !.row = m, !.image = row[m]]]
    /\ UNCHANGED <<clock, row, lifted>>

\* Mutated: the dates check of the table is missing.
Lift_NoCheck(c) ==
    LET m == call[c].row  till == call[c].image.ends IN
    /\ call[c].stage = "lifting"
    /\ row' = [row EXCEPT ![m] = [@ EXCEPT
                 !.state = "inactive", !.ends = IF till = None THEN clock ELSE till]]
    /\ lifted' = lifted \cup {m}
    /\ call' = [call EXCEPT ![c] = IdleCall]
    /\ UNCHANGED clock

\* deactivateAdministrativeRestriction: the update by id, with the end that was
\* read; the dates check of the table may refuse it.
Lift(c) ==
    LET m == call[c].row  till == call[c].image.ends
        ends == IF till = None THEN clock ELSE till IN
    /\ call[c].stage = "lifting"
    /\ IF row[m].starts < ends
       THEN /\ row' = [row EXCEPT ![m] = [@ EXCEPT !.state = "inactive", !.ends = ends]]
            /\ lifted' = lifted \cup {m}
       ELSE UNCHANGED <<row, lifted>>
    /\ call' = [call EXCEPT ![c] = IdleCall]
    /\ UNCHANGED clock

\* A call fails between two statements.
Fail(c) ==
    /\ ~Free(c)
    /\ call' = [call EXCEPT ![c] = IdleCall]
    /\ UNCHANGED <<clock, row, lifted>>

Tick ==
    /\ clock < MaxTime
    /\ clock' = clock + 1
    /\ UNCHANGED <<row, call, lifted>>

RestrictionNext ==
    \/ Tick
    \/ \E c \in Calls :
          \/ \E m \in Rows, type \in Types, starts \in Times, ends \in Ends :
                Create(c, m, type, starts, ends)
          \/ \E m \in Rows : FindToLift(c, m)
          \/ Look(c) \/ Expire(c) \/ CheckNone(c) \/ Insert(c) \/ Answer(c)
          \/ Lift(c) \/ Fail(c)

RestrictionSpec == RestrictionInit /\ [][RestrictionNext]_restrictionVars

-----------------------------------------------------------------------------
(* Properties.                                                             *)

\* A restriction is switched off only when its time is over or an administrator
\* has lifted it, although every login and every guard expires rows.
OffIsOverOrLifted ==
    \A m \in Rows : row[m].state = "inactive" =>
        m \in lifted \/ (row[m].ends # None /\ row[m].ends <= clock)

\* A second restriction comes in force beside another only where the call that
\* created it could not know: the other was inserted after that call looked, or
\* was scheduled for later than that.  (createAdministrativeRestriction checks
\* for one in force, and nothing else keeps a user from having two.)
SecondOnlyUnseen ==
    \A m, n \in Rows :
        m # n /\ InForce(m) /\ InForce(n) /\ m \in row[n].seen
        => row[m].starts > row[n].checked

\* Every row keeps a period with a length, whatever a lift wrote.
PeriodsHaveLength ==
    \A m \in Rows : row[m].ends # None => row[m].starts < row[m].ends

\* What is over or lifted never restricts again.
OffStaysOff ==
    [][\A m \in Rows : row[m].state = "inactive" => row'[m].state = "inactive"]_restrictionVars

=============================================================================
