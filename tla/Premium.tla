------------------------------ MODULE Premium ------------------------------
(***************************************************************************)
(* PremiumService: the premium memberships of one user under concurrent    *)
(* activations, cancellations and reads.  A call captures the date once,   *)
(* before its transaction, and uses it until it ends.                      *)
(*                                                                         *)
(* The statements of a $transaction see what is committed when each of     *)
(* them starts; its writes take effect in the *Commit action, where the    *)
(* two unique indexes and the dates check of UserPremium are enforced.     *)
(***************************************************************************)
EXTENDS Naturals, FiniteSets

CONSTANTS
    Members,  \* ids of UserPremium rows (bounds how many)
    Keys,     \* idempotency keys
    Cycles,   \* lengths of the billing cycles, in clock units
    Calls,    \* request slots
    MaxTime,  \* bound of the clock
    None      \* no value

ASSUME PremiumConstants ==
    /\ Cycles \subseteq Nat \ {0}
    /\ MaxTime \in Nat
    /\ None \notin Members \cup Keys \cup Calls

VARIABLES
    clock,    \* the time
    status,   \* "absent", or UserPremium.status
    starts,   \* startsAt
    ends,     \* endsAt
    key,      \* idempotencyKey
    call      \* what each request slot is doing

rowVars == <<status, starts, ends, key>>
premiumVars == <<clock, rowVars, call>>

Terminal == {"idle", "activated", "replayed", "conflict", "reported"}
Stages == Terminal \cup
    {"begun",       \* date captured
     "swept",       \* transaction: updateMany of ended memberships has run
     "unkeyed",     \* transaction: no membership has the key
     "inserting",   \* transaction: no active membership was found
     "clashed",     \* rolled back: the key index was violated
     "cancelling",  \* transaction: the active membership was found
     "finding"}     \* read: ended memberships expired

Statuses == {"absent", "active", "expired", "cancelled"}
NoRow == [status |-> "absent", starts |-> 0, ends |-> 0]
RowImage == [status : Statuses, starts : Nat, ends : Nat]

CallState ==
    \* stale: rows the open transaction expires; found: the row the answer shows;
    \* keyTaken: the key had a membership when the call began (history)
    [op : {"none", "activate", "cancel", "read"}, stage : Stages, now : Nat,
     key : Keys \cup {None}, cycle : Cycles \cup {0}, member : Members \cup {None},
     stale : SUBSET Members, found : RowImage, keyTaken : BOOLEAN]

IdleCall ==
    [op |-> "none", stage |-> "idle", now |-> 0, key |-> None, cycle |-> 0,
     member |-> None, stale |-> {}, found |-> NoRow, keyTaken |-> FALSE]

PremiumTypeOK ==
    /\ clock \in Nat
    /\ status \in [Members -> Statuses]
    /\ starts \in [Members -> Nat]
    /\ ends \in [Members -> Nat]
    /\ key \in [Members -> Keys \cup {None}]
    /\ call \in [Calls -> CallState]

PremiumInit ==
    /\ clock = 0
    /\ status = [m \in Members |-> "absent"]
    /\ starts = [m \in Members |-> 0]
    /\ ends = [m \in Members |-> 0]
    /\ key = [m \in Members |-> None]
    /\ call = [c \in Calls |-> IdleCall]

-----------------------------------------------------------------------------
(* Helpers.                                                                *)

Free(c) == call[c].stage \in Terminal
Goto(c, stage) == call' = [call EXCEPT ![c].stage = stage]
End(c) == call' = [call EXCEPT ![c] = IdleCall]

Image(m) == [status |-> status[m], starts |-> starts[m], ends |-> ends[m]]

\* Mutated: a membership counts as ended a unit too early.
Stale_Early(now) ==
    {m \in Members : status[m] = "active" /\ ends[m] <= now + 1}

\* expireStaleMemberships: {status: active, endsAt <= now} -> expired.
Stale(now) == {m \in Members : status[m] = "active" /\ ends[m] <= now}
Expired(rows) == [m \in Members |->
    IF m \in rows /\ status[m] = "active" THEN "expired" ELSE status[m]]

\* {status: active, startsAt <= now, endsAt > now}.
ActiveAt(now) == {m \in Members :
    status[m] = "active" /\ starts[m] <= now /\ now < ends[m]}

\* Rows of other memberships that the unique indexes compare with a new row.
ActiveClash(c) ==
    \E m \in Members : Expired(call[c].stale)[m] = "active"
KeyClash(c) ==
    call[c].key # None /\ \E m \in Members : key[m] = call[c].key

-----------------------------------------------------------------------------
(* activatePremium.                                                        *)

\* Mutated: the key and the cycle are swapped.
Activate_Swapped(c, k, cycle, m) ==
    /\ Free(c) /\ status[m] = "absent"
    /\ call' = [call EXCEPT ![c] =
         [IdleCall EXCEPT !.op = "activate", !.stage = "begun", !.now = clock,
            !.key = cycle, !.cycle = k, !.member = m]]
    /\ UNCHANGED <<clock, rowVars>>

\* The user is read, the key normalised and the date captured.  Bound: an id is
\* left, and is named at once.
Activate(c, k, cycle, m) ==
    /\ Free(c) /\ status[m] = "absent"
    /\ \A d \in Calls : call[d].member # m
    /\ call' = [call EXCEPT ![c] =
         [IdleCall EXCEPT !.op = "activate", !.stage = "begun", !.now = clock,
            !.key = k, !.cycle = cycle, !.member = m,
            !.keyTaken = k # None /\ \E n \in Members : key[n] = k]]
    /\ UNCHANGED <<clock, rowVars>>

\* Transaction of an activation or a cancellation: expireStaleMemberships.
SweepStale(c) ==
    /\ call[c].stage = "begun" /\ call[c].op \in {"activate", "cancel"}
    /\ call' = [call EXCEPT ![c] = [@ EXCEPT
         !.stage = "swept", !.stale = Stale(call[c].now)]]
    /\ UNCHANGED <<clock, rowVars>>

\* Mutated: the key is looked up only where no membership is active.
FindByKey_AfterPolicy(c) ==
    /\ call[c].stage = "swept" /\ call[c].op = "activate"
    /\ IF ActiveAt(call[c].now) # {}
       THEN call' = [call EXCEPT ![c] = [@ EXCEPT !.stage = "conflict", !.stale = {}]]
       ELSE Goto(c, "unkeyed")
    /\ UNCHANGED <<clock, rowVars>>

\* Transaction: findUnique by key.  A membership that has it is the answer; the
\* transaction commits what it expired.
FindByKey(c) ==
    /\ call[c].stage = "swept" /\ call[c].op = "activate"
    /\ \/ /\ \E m \in Members :
                /\ call[c].key # None /\ key[m] = call[c].key
                /\ call' = [call EXCEPT ![c] = [@ EXCEPT
                     !.stage = "replayed", !.member = m, !.stale = {},
                     !.found = [Image(m) EXCEPT !.status = Expired(call[c].stale)[m]]]]
          /\ status' = Expired(call[c].stale)
       \/ /\ ~KeyClash(c)
          /\ Goto(c, "unkeyed")
          /\ UNCHANGED status
    /\ UNCHANGED <<clock, starts, ends, key>>

\* Transaction: findFirst of an active membership; finding one is a conflict
\* and rolls the transaction back.
FindActive(c) ==
    /\ call[c].stage = "unkeyed"
    /\ IF ActiveAt(call[c].now) = {}
       THEN Goto(c, "inserting")
       ELSE call' = [call EXCEPT ![c] = [@ EXCEPT !.stage = "conflict", !.stale = {}]]
    /\ UNCHANGED <<clock, rowVars>>

\* The new row and what the transaction has expired become visible.
InsertRow(c) ==
    LET now == call[c].now  m == call[c].member  till == now + call[c].cycle IN
    /\ status' = [Expired(call[c].stale) EXCEPT ![m] = "active"]
    /\ starts' = [starts EXCEPT ![m] = now]
    /\ ends' = [ends EXCEPT ![m] = till]
    /\ key' = [key EXCEPT ![m] = call[c].key]
    /\ call' = [call EXCEPT ![c] = [@ EXCEPT !.stage = "activated", !.stale = {},
         !.found = [status |-> "active", starts |-> now, ends |-> till]]]
    /\ UNCHANGED clock

\* Mutated: the partial unique index on active memberships is missing.
ActivateCommit_NoActiveIndex(c) ==
    call[c].stage = "inserting" /\ ~KeyClash(c) /\ InsertRow(c)

\* Mutated: the unique index on keys is missing.
ActivateCommit_NoKeyIndex(c) ==
    call[c].stage = "inserting" /\ ~ActiveClash(c) /\ InsertRow(c)

\* Transaction: INSERT and commit, where neither unique index objects.
ActivateCommit(c) ==
    call[c].stage = "inserting" /\ ~ActiveClash(c) /\ ~KeyClash(c) /\ InsertRow(c)

\* INSERT violates an index and the transaction is rolled back.  Where both are
\* violated, either may be the one that is reported.
ActivateRefused(c) ==
    /\ call[c].stage = "inserting"
    /\ \/ /\ ActiveClash(c)
          /\ call' = [call EXCEPT ![c] = [@ EXCEPT !.stage = "conflict", !.stale = {}]]
       \/ /\ KeyClash(c)
          /\ call' = [call EXCEPT ![c] = [@ EXCEPT !.stage = "clashed", !.stale = {}]]
    /\ UNCHANGED <<clock, rowVars>>

\* The membership of the key is read again, outside the transaction.
ReplayAfterClash(c) ==
    /\ call[c].stage = "clashed"
    /\ \E m \in Members :
          /\ key[m] = call[c].key
          /\ call' = [call EXCEPT ![c] = [@ EXCEPT
               !.stage = "replayed", !.member = m, !.found = Image(m)]]
    /\ UNCHANGED <<clock, rowVars>>

-----------------------------------------------------------------------------
(* cancelActivePremium, and the reads.                                     *)

Begin(c, op) ==
    /\ Free(c)
    /\ call' = [call EXCEPT ![c] =
         [IdleCall EXCEPT !.op = op, !.stage = "begun", !.now = clock]]
    /\ UNCHANGED <<clock, rowVars>>

\* Transaction: findFirst of an active membership; without one, roll back.
FindToCancel(c) ==
    LET now == call[c].now IN
    /\ call[c].stage = "swept" /\ call[c].op = "cancel"
    /\ \/ \E m \in ActiveAt(now) :
             call' = [call EXCEPT ![c] = [@ EXCEPT !.stage = "cancelling",
                        !.member = m, !.found = Image(m)]]
       \/ ActiveAt(now) = {} /\ End(c)
    /\ UNCHANGED <<clock, rowVars>>

\* Mutated: endsAt is written without the dates check of the table.
CancelCommit_NoCheck(c) ==
    LET m == call[c].member  now == call[c].now IN
    /\ call[c].stage = "cancelling"
    /\ status' = [Expired(call[c].stale) EXCEPT ![m] = "cancelled"]
    /\ ends' = [ends EXCEPT ![m] = now]
    /\ End(c)
    /\ UNCHANGED <<clock, starts, key>>

\* Transaction: the update by id and commit.  It does not look at the status
\* again; a cancellation in the moment of the start fails the dates check.
CancelCommit(c) ==
    LET m == call[c].member  now == call[c].now
        at == IF now < call[c].found.ends THEN now ELSE call[c].found.ends IN
    /\ call[c].stage = "cancelling"
    /\ IF starts[m] < at
       THEN /\ status' = [Expired(call[c].stale) EXCEPT ![m] = "cancelled"]
            /\ ends' = [ends EXCEPT ![m] = at]
       ELSE UNCHANGED <<status, ends>>
    /\ End(c)
    /\ UNCHANGED <<clock, starts, key>>

\* getActivePremium, getPremiumHistory: expireStaleMemberships, committed alone.
ReadExpire(c) ==
    /\ call[c].stage = "begun" /\ call[c].op = "read"
    /\ status' = Expired(Stale(call[c].now))
    /\ Goto(c, "finding")
    /\ UNCHANGED <<clock, starts, ends, key>>

\* getActivePremium: findFirst; buildPremiumState reports premium if a row is
\* found.
ReadFind(c) ==
    LET now == call[c].now IN
    /\ call[c].stage = "finding"
    /\ \/ \E m \in ActiveAt(now) :
             call' = [call EXCEPT ![c] = [@ EXCEPT !.stage = "reported",
                        !.member = m, !.found = Image(m)]]
       \/ ActiveAt(now) = {} /\ End(c)
    /\ UNCHANGED <<clock, rowVars>>

-----------------------------------------------------------------------------

\* The request fails or its process dies; an open transaction is rolled back.
Crash(c) ==
    /\ ~Free(c)
    /\ End(c)
    /\ UNCHANGED <<clock, rowVars>>

Tick ==
    /\ clock < MaxTime
    /\ clock' = clock + 1
    /\ UNCHANGED <<rowVars, call>>

CallNext(c) ==
    \/ \E k \in Keys \cup {None}, cycle \in Cycles, m \in Members :
          Activate(c, k, cycle, m)
    \/ Begin(c, "cancel") \/ Begin(c, "read")
    \/ SweepStale(c) \/ FindByKey(c) \/ FindActive(c)
    \/ ActivateCommit(c) \/ ActivateRefused(c) \/ ReplayAfterClash(c)
    \/ FindToCancel(c) \/ CancelCommit(c)
    \/ ReadExpire(c) \/ ReadFind(c)
    \/ Crash(c)

PremiumNext == Tick \/ \E c \in Calls : CallNext(c)

PremiumSpec == PremiumInit /\ [][PremiumNext]_premiumVars

-----------------------------------------------------------------------------
(* Properties.                                                             *)

\* The user never has two active memberships, although activations look for
\* one before they insert and their looks and inserts interleave.
AtMostOneActive ==
    \A m, n \in Members : status[m] = "active" /\ status[n] = "active" => m = n

\* Activations with one key are all answered with one membership, also where
\* they ran side by side or the first answer was lost.
OneMembershipPerKey ==
    \A c, d \in Calls :
        /\ call[c].stage \in {"activated", "replayed"}
        /\ call[d].stage \in {"activated", "replayed"}
        /\ call[c].key = call[d].key /\ call[c].key # None
        => call[c].member = call[d].member

\* A retry that begins after its key was committed is answered with a replay,
\* never with a conflict and never with a second membership.
RetryIsReplayed ==
    \A c \in Calls :
        call[c].keyTaken => call[c].stage \notin {"activated", "conflict", "unkeyed"}

\* A membership is expired or cancelled only when its period is over, and keeps
\* a period with a length, whatever dates the calls captured.
EndedInThePast ==
    \A m \in Members : status[m] \in {"expired", "cancelled"} =>
        starts[m] < ends[m] /\ ends[m] <= clock

\* Each call takes effect at one moment, and the rows stay within the ledger.
Ledger == INSTANCE PremiumLedger
ImplementsLedger == Ledger!LedgerSpec

\* docs/catalog-signals-contract.md on isPremium: "whether the user currently
\* has an active premium membership".  An answer that says so was built from a row
\* that was active when it was read.
ReportedPremiumIsActive ==
    \A c \in Calls : call[c].stage \in {"activated", "replayed", "reported"}
                      => call[c].found.status = "active"

=============================================================================
