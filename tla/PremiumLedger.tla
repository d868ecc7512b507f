--------------------------- MODULE PremiumLedger ---------------------------
(***************************************************************************)
(* What PremiumService promises about the memberships of one user, with    *)
(* every request reduced to the single moment at which it takes effect.    *)
(***************************************************************************)
EXTENDS Naturals

CONSTANTS
    Members,  \* ids of UserPremium rows
    Keys,     \* idempotency keys
    Cycles,   \* lengths of the billing cycles
    None      \* no value

VARIABLES clock, status, starts, ends, key
ledgerVars == <<clock, status, starts, ends, key>>

LedgerInit ==
    /\ clock = 0
    /\ status = [m \in Members |-> "absent"]
    /\ starts = [m \in Members |-> 0]
    /\ ends = [m \in Members |-> 0]
    /\ key = [m \in Members |-> None]

Ended == {m \in Members : status[m] = "active" /\ ends[m] <= clock}

\* A membership begins: those that are over have made room for it, its key is
\* new, and the period starts in the past or now and has a length.
Grant(m, k, from, till) ==
    /\ status[m] = "absent" /\ from <= clock /\ from < till
    /\ k # None => \A n \in Members : key[n] # k
    /\ \E over \in SUBSET Ended :
          /\ \A n \in Members : status[n] = "active" => n \in over
          /\ status' = [n \in Members |-> IF n = m THEN "active"
                          ELSE IF n \in over THEN "expired" ELSE status[n]]
    /\ starts' = [starts EXCEPT ![m] = from]
    /\ ends' = [ends EXCEPT ![m] = till]
    /\ key' = [key EXCEPT ![m] = k]
    /\ UNCHANGED clock

\* A membership gets its end written, possibly a second time; memberships that
\* are over may expire with it.
Cancel(m, at) ==
    /\ status[m] # "absent" /\ starts[m] < at /\ at <= clock
    /\ \E over \in SUBSET Ended :
          status' = [n \in Members |-> IF n = m THEN "cancelled"
                       ELSE IF n \in over THEN "expired" ELSE status[n]]
    /\ ends' = [ends EXCEPT ![m] = at]
    /\ UNCHANGED <<clock, starts, key>>

Expire(over) ==
    /\ over \subseteq Ended
    /\ status' = [n \in Members |-> IF n \in over THEN "expired" ELSE status[n]]
    /\ UNCHANGED <<clock, starts, ends, key>>

Tick ==
    /\ clock' = clock + 1
    /\ UNCHANGED <<status, starts, ends, key>>

LedgerNext ==
    \/ \E m \in Members, k \in Keys \cup {None}, from \in 0 .. clock :
          \E cycle \in Cycles : Grant(m, k, from, from + cycle)
    \/ \E m \in Members, at \in 0 .. clock : Cancel(m, at)
    \/ \E over \in SUBSET Members : Expire(over)
    \/ Tick

LedgerSpec == LedgerInit /\ [][LedgerNext]_ledgerVars
=============================================================================
