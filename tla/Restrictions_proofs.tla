------------------------- MODULE Restrictions_proofs -------------------------
(***************************************************************************)
(* Proofs about Restrictions, for every number of rows and calls and every *)
(* length of time: what is off is over or lifted and stays off, periods    *)
(* keep a length, and a second restriction in force beside another was     *)
(* created by a call that could not know.                                  *)
(***************************************************************************)
EXTENDS Restrictions, TLAPS

-----------------------------------------------------------------------------
(* The inductive invariant.                                                *)

\* None of the rows seen was in force at the time t, nor will have been: a row
\* is over by then, starts later or is off, and what is off stays off.
ClearAt(seen, t, rows) ==
    \A m \in seen :
        /\ rows[m].state # "absent"
        /\ \/ rows[m].state = "inactive"
           \/ rows[m].starts > t
           \/ rows[m].ends # None /\ rows[m].ends <= t

HasLength(image) == image.ends # None => image.starts < image.ends

Creating(k) == k.op = "create" /\ k.stage \in {"begun", "expired", "inserting"}

\* What a call knows of the rows of the table, at the time now.
CallFits(k, rows, now) ==
    /\ Creating(k) =>
          /\ k.row \in Rows /\ rows[k.row].state = "absent"
          /\ k.image.state = "active" /\ HasLength(k.image)
          /\ k.image.checked <= now
          /\ ClearAt(k.image.seen, k.image.checked, rows)
    /\ k.stage = "inserting" => k.op = "create"
    /\ k.stage = "lifting" => k.row \in Rows /\ rows[k.row].state # "absent"

CallsFit == \A c \in Calls : CallFits(call[c], row, clock)

\* A row that is to be inserted is named by one call only.
NamesUnique ==
    \A c, d \in Calls : c # d /\ Creating(call[c]) => call[d].row # call[c].row

\* What a row says of the rows its call has seen.
RowsFit ==
    \A n \in Rows :
        /\ row[n].checked <= clock
        /\ ClearAt(row[n].seen, row[n].checked, row)

RestrictionInv ==
    /\ RestrictionTypeOK
    /\ CallsFit
    /\ NamesUnique
    /\ RowsFit
    /\ OffIsOverOrLifted
    /\ PeriodsHaveLength

-----------------------------------------------------------------------------
(* Lemmas.                                                                 *)

\* How the table may change under a call that has looked: rows stay, keep their
\* start, and keep their end unless they are switched off.
Later(rows, next) ==
    \A m \in Rows : rows[m].state # "absent" =>
        /\ next[m].state # "absent" /\ next[m].starts = rows[m].starts
        /\ \/ next[m].state = "inactive"
           \/ rows[m].state = "active" /\ next[m].ends = rows[m].ends

\* What was clear of restrictions at some time stays so.
LEMMA ClearPersists ==
    ASSUME NEW rows \in [Rows -> RowState], NEW next, Later(rows, next),
           NEW seen \in SUBSET Rows, NEW t \in Times, ClearAt(seen, t, rows)
    PROVE  ClearAt(seen, t, next)
  BY DEF Later, ClearAt, RowState

\* What a call knows stays true, as long as nobody else inserts its row.
LEMMA FitsPersists ==
    ASSUME NEW k \in CallState, NEW rows \in [Rows -> RowState], NEW next,
           NEW now \in Times, NEW then \in Times, now <= then,
           Later(rows, next), CallFits(k, rows, now),
           Creating(k) => next[k.row].state = "absent"
    PROVE  CallFits(k, next, then)
<1>1. CASE Creating(k)
  <2>1. k.image \in RowState
    BY DEF CallState
  <2>2. ClearAt(k.image.seen, k.image.checked, next)
    BY <1>1, <2>1, ClearPersists DEF CallFits, RowState
  <2>3. k.image.checked <= then
    BY <1>1, <2>1, RestrictionConstants DEF CallFits, RowState, Times
  <2> QED
    BY <1>1, <2>2, <2>3 DEF CallFits, Creating
<1>2. CASE ~Creating(k)
  BY <1>2 DEF CallFits, Later
<1> QED
  BY <1>1, <1>2

\* A slot that holds nothing knows nothing.
LEMMA IdleFits ==
    ASSUME NEW rows, NEW now
    PROVE  IdleCall \in CallState /\ CallFits(IdleCall, rows, now) /\ ~Creating(IdleCall)
           /\ IdleCall.row = None /\ NoRow \in RowState
  BY RestrictionConstants
  DEF IdleCall, NoRow, CallState, RowState, Types, Times, Ends, Terminal, CallFits,
      Creating

\* The invariant gives each row and each call its type.
LEMMA Typed ==
    ASSUME RestrictionInv
    PROVE  /\ clock \in Times /\ clock \in Nat /\ MaxTime \in Nat
           /\ row \in [Rows -> RowState] /\ call \in [Calls -> CallState]
           /\ lifted \subseteq Rows
           /\ \A c \in Calls : call[c] \in CallState /\ CallFits(call[c], row, clock)
  BY RestrictionConstants DEF RestrictionInv, RestrictionTypeOK, CallsFit, Times

\* A step of call c, which goes on as q, on the table and on nobody else's row.
LEMMA CallStep ==
    ASSUME RestrictionInv, NEW c \in Calls, NEW q \in CallState,
           call' = [call EXCEPT ![c] = q], clock' = clock,
           row' \in [Rows -> RowState], Later(row, row'), lifted' \subseteq Rows,
           CallFits(q, row', clock),
           \A d \in Calls : d # c /\ Creating(call[d]) => row'[call[d].row].state = "absent",
           NamesUnique', RowsFit', OffIsOverOrLifted', PeriodsHaveLength'
    PROVE  RestrictionInv'
<1>1. call \in [Calls -> CallState] /\ clock \in Times /\ row \in [Rows -> RowState]
  BY Typed
<1>2. RestrictionTypeOK'
  BY <1>1 DEF RestrictionTypeOK
<1>3. ASSUME NEW d \in Calls PROVE CallFits(call'[d], row', clock')
  <2>1. CASE d = c
    BY <1>1, <2>1
  <2>2. CASE d # c
    <3>1. call'[d] = call[d] /\ call[d] \in CallState /\ CallFits(call[d], row, clock)
      BY <1>1, <2>2, Typed
    <3>2. clock <= clock
      BY Typed
    <3> QED
      BY <1>1, <2>2, <3>1, <3>2, FitsPersists
  <2> QED
    BY <2>1, <2>2
<1> QED
  BY <1>2, <1>3 DEF RestrictionInv, CallsFit

\* ... that changes no row.
LEMMA OnlyCall ==
    ASSUME RestrictionInv, NEW c \in Calls, NEW q \in CallState,
           call' = [call EXCEPT ![c] = q], UNCHANGED <<clock, row, lifted>>,
           CallFits(q, row, clock),
           \A d \in Calls : d # c /\ Creating(call[d]) => q.row # call[d].row,
           \A d \in Calls : d # c /\ Creating(q) => call[d].row # q.row
    PROVE  RestrictionInv'
<1>1. row' \in [Rows -> RowState] /\ lifted' \subseteq Rows /\ Later(row, row')
  BY Typed DEF Later, RowState
<1>2. RowsFit' /\ OffIsOverOrLifted' /\ PeriodsHaveLength'
  BY DEF RestrictionInv, RowsFit, OffIsOverOrLifted, PeriodsHaveLength
<1>3. \A d \in Calls : d # c /\ Creating(call[d]) => row'[call[d].row].state = "absent"
  BY Typed DEF CallFits
<1>4. clock' = clock /\ CallFits(q, row', clock)
  OBVIOUS
<1>5. NamesUnique'
  <2>1. NamesUnique /\ call \in [Calls -> CallState]
    BY Typed DEF RestrictionInv
  <2> QED
    BY <2>1 DEF NamesUnique
<1> QED
  BY <1>1, <1>2, <1>3, <1>4, <1>5, CallStep

\* ... in particular one that ends the call.
LEMMA Ended ==
    ASSUME RestrictionInv, NEW c \in Calls, call' = [call EXCEPT ![c] = IdleCall],
           UNCHANGED <<clock, row, lifted>>
    PROVE  RestrictionInv'
<1>1. \A d \in Calls : Creating(call[d]) => IdleCall.row # call[d].row
  BY IdleFits, Typed, RestrictionConstants DEF CallFits
<1> QED
  BY <1>1, IdleFits, OnlyCall

-----------------------------------------------------------------------------
(* One lemma per action.                                                   *)

LEMMA InitKeeps == RestrictionInit => RestrictionInv
<1> SUFFICES ASSUME RestrictionInit PROVE RestrictionInv
  OBVIOUS
<1>1. RestrictionTypeOK
  BY IdleFits, RestrictionConstants DEF RestrictionInit, RestrictionTypeOK, Times
<1>2. CallsFit /\ NamesUnique
  BY IdleFits DEF RestrictionInit, CallsFit, NamesUnique
<1>3. RowsFit /\ OffIsOverOrLifted /\ PeriodsHaveLength
  BY DEF RestrictionInit, RowsFit, ClearAt, OffIsOverOrLifted, PeriodsHaveLength, NoRow
<1> QED
  BY <1>1, <1>2, <1>3 DEF RestrictionInv

LEMMA CreateKeeps ==
    ASSUME RestrictionInv, NEW c \in Calls, NEW m \in Rows, NEW type \in Types,
           NEW starts \in Times, NEW ends \in Ends, Create(c, m, type, starts, ends)
    PROVE  RestrictionInv'
<1> DEFINE image == [NoRow EXCEPT !.state = "active", !.type = type,
                       !.starts = starts, !.ends = ends]
           q == [IdleCall EXCEPT !.op = "create", !.stage = "begun", !.row = m,
                   !.image = image]
<1>1. /\ row[m].state = "absent" /\ \A d \in Calls : call[d].row # m
      /\ ends # None => starts < ends
      /\ call' = [call EXCEPT ![c] = q] /\ UNCHANGED <<clock, row, lifted>>
  BY DEF Create
<1>2. image \in RowState /\ image.state = "active" /\ image.starts = starts
      /\ image.ends = ends /\ image.seen = {} /\ image.checked = 0
  <2>1. 0 \in Times
    BY RestrictionConstants DEF Times
  <2> QED
    BY <2>1 DEF NoRow, RowState
<1> HIDE DEF image
<1>3. q \in CallState
  BY <1>2 DEF IdleCall, CallState, Terminal
<1>4. CallFits(q, row, clock)
  BY <1>1, <1>2, Typed DEF IdleCall, CallFits, Creating, HasLength, ClearAt
<1>5. q.row = m
  BY DEF IdleCall
<1> HIDE DEF q
<1>6. \A d \in Calls : call[d].row # q.row
  BY <1>1, <1>5
<1> QED
  BY <1>1, <1>3, <1>4, <1>6, OnlyCall

LEMMA LookKeeps ==
    ASSUME RestrictionInv, NEW c \in Calls, Look(c)
    PROVE  RestrictionInv'
<1> DEFINE q == [IdleCall EXCEPT !.op = "look", !.stage = "begun"]
<1>1. q \in CallState /\ q.row = None /\ CallFits(q, row, clock) /\ ~Creating(q)
  BY IdleFits DEF IdleCall, CallState, Terminal, CallFits, Creating
<1>2. \A d \in Calls : Creating(call[d]) => None # call[d].row
  BY Typed, RestrictionConstants DEF CallFits
<1>3. call' = [call EXCEPT ![c] = q] /\ UNCHANGED <<clock, row, lifted>>
  BY DEF Look
<1> HIDE DEF q
<1> QED
  BY <1>1, <1>2, <1>3, OnlyCall

LEMMA ExpireKeeps ==
    ASSUME RestrictionInv, NEW c \in Calls, Expire(c)
    PROVE  RestrictionInv'
<1> DEFINE q == [call[c] EXCEPT !.stage = "expired"]
<1>1. call[c] \in CallState /\ CallFits(call[c], row, clock) /\ call[c].stage = "begun"
      /\ row \in [Rows -> RowState] /\ clock' = clock /\ lifted' = lifted
  BY Typed DEF Expire
<1>2. ASSUME NEW m \in Rows
      PROVE  /\ row'[m] \in RowState
             /\ row'[m] = row[m] \/ row'[m] = [row[m] EXCEPT !.state = "inactive"]
             /\ row'[m] # row[m] =>
                  row[m].state = "active" /\ row[m].ends # None /\ row[m].ends <= clock
  <2>1. row'[m] = AfterExpiry(m) /\ row[m] \in RowState
    BY <1>1 DEF Expire
  <2>2. [row[m] EXCEPT !.state = "inactive"] \in RowState
    BY <2>1 DEF RowState
  <2> QED
    BY <2>1, <2>2 DEF AfterExpiry
<1>3. ASSUME NEW m \in Rows
      PROVE  /\ row'[m].starts = row[m].starts /\ row'[m].ends = row[m].ends
             /\ row'[m].seen = row[m].seen /\ row'[m].checked = row[m].checked
             /\ row'[m].state = row[m].state \/ row'[m].state = "inactive"
             /\ row'[m].state = "absent" <=> row[m].state = "absent"
             /\ row'[m].state # row[m].state => row[m].ends # None /\ row[m].ends <= clock
  <2>1. CASE row'[m] = row[m]
    BY <2>1
  <2>2. CASE row'[m] = [row[m] EXCEPT !.state = "inactive"] /\ row'[m] # row[m]
    <3>1. row[m] \in RowState
      BY <1>1
    <3>2. /\ row'[m].starts = row[m].starts /\ row'[m].ends = row[m].ends
          /\ row'[m].seen = row[m].seen /\ row'[m].checked = row[m].checked
          /\ row'[m].state = "inactive"
      BY <2>2, <3>1 DEF RowState
    <3> QED
      BY <1>2, <2>2, <3>2
  <2> QED
    BY <1>2, <2>1, <2>2
<1>4. row' \in [Rows -> RowState]
  BY <1>2 DEF Expire
<1>5. Later(row, row')
  BY <1>1, <1>3 DEF Later, RowState
<1>6. q \in CallState /\ q.row = call[c].row /\ Creating(q) = Creating(call[c])
  BY <1>1 DEF CallState, Creating
<1>7. CallFits(q, row, clock)
  BY <1>1 DEF CallFits, Creating, CallState
<1>8. \A d \in Calls : Creating(call[d]) => row'[call[d].row].state = "absent"
  BY <1>3, Typed DEF CallFits
<1>9. call' = [call EXCEPT ![c] = q]
  BY DEF Expire
<1> HIDE DEF q
<1>10. Creating(q) => row'[q.row].state = "absent"
  BY <1>6, <1>8
<1>11. CallFits(q, row', clock)
  <2>1. clock \in Times /\ clock <= clock
    BY Typed
  <2> QED
    BY <1>1, <1>5, <1>6, <1>7, <1>10, <2>1, FitsPersists
<1>12. RowsFit'
  <2>1. ASSUME NEW n \in Rows
        PROVE  row'[n].checked <= clock' /\ ClearAt(row'[n].seen, row'[n].checked, row')
    <3>1. row[n] \in RowState /\ row[n].checked <= clock
          /\ ClearAt(row[n].seen, row[n].checked, row)
      BY <1>1 DEF RestrictionInv, RowsFit
    <3>2. ClearAt(row[n].seen, row[n].checked, row')
      BY <1>1, <1>5, <3>1, ClearPersists DEF RowState
    <3> QED
      BY <1>1, <1>3, <3>1, <3>2
  <2> QED
    BY <2>1 DEF RowsFit
<1>13. OffIsOverOrLifted' /\ PeriodsHaveLength'
  BY <1>1, <1>3 DEF RestrictionInv, OffIsOverOrLifted, PeriodsHaveLength
<1>14. /\ \A d \in Calls : d # c /\ Creating(call[d]) => q.row # call[d].row
       /\ \A d \in Calls : d # c /\ Creating(q) => call[d].row # q.row
  BY <1>6 DEF RestrictionInv, NamesUnique
<1>15. NamesUnique'
  <2>1. NamesUnique /\ call \in [Calls -> CallState]
    BY Typed DEF RestrictionInv
  <2> QED
    BY <1>9, <1>14, <2>1 DEF NamesUnique
<1>16. q \in CallState /\ clock' = clock /\ lifted' \subseteq Rows
  BY <1>1, <1>6, Typed
<1> QED
  BY <1>4, <1>5, <1>8, <1>9, <1>11, <1>12, <1>13, <1>15, <1>16, CallStep

LEMMA CheckNoneKeeps ==
    ASSUME RestrictionInv, NEW c \in Calls, CheckNone(c)
    PROVE  RestrictionInv'
<1>1. call[c] \in CallState /\ CallFits(call[c], row, clock) /\ call[c].stage = "expired"
      /\ call[c].op = "create" /\ UNCHANGED <<clock, row, lifted>>
      /\ clock \in Times /\ clock \in Nat /\ row \in [Rows -> RowState]
  BY Typed DEF CheckNone
<1>2. CASE ~NoneInForce
  BY <1>1, <1>2, Ended DEF CheckNone
<1>3. CASE NoneInForce
  <2> DEFINE image == [call[c].image EXCEPT !.seen = Existing, !.checked = clock]
             q == [call[c] EXCEPT !.stage = "inserting", !.image = image]
  <2>1. Existing \in SUBSET Rows
    BY DEF Existing
  <2>2. ClearAt(Existing, clock, row)
    <3> SUFFICES ASSUME NEW m \in Existing
                 PROVE  /\ row[m].state # "absent"
                        /\ \/ row[m].state = "inactive"
                           \/ row[m].starts > clock
                           \/ row[m].ends # None /\ row[m].ends <= clock
      BY DEF ClearAt
    <3>1. m \in Rows /\ row[m] \in RowState /\ row[m].state # "absent" /\ ~InForce(m)
      BY <1>1, <1>3 DEF Existing, NoneInForce
    <3> QED
      BY <1>1, <3>1, RestrictionConstants DEF RowState, InForce, Times, Ends
  <2>3. image \in RowState
    BY <1>1, <2>1 DEF CallState, RowState
  <2>4. image.seen = Existing /\ image.checked = clock /\ image.state = call[c].image.state
        /\ image.starts = call[c].image.starts /\ image.ends = call[c].image.ends
    BY <1>1 DEF CallState, RowState
  <2> HIDE DEF image
  <2>5. q \in CallState /\ q.row = call[c].row /\ Creating(call[c])
    BY <1>1, <2>3 DEF CallState, Creating
  <2>6. CallFits(q, row, clock)
    BY <1>1, <2>2, <2>4 DEF CallFits, Creating, CallState, HasLength
  <2>7. call' = [call EXCEPT ![c] = q]
    BY <1>3 DEF CheckNone, image
  <2> HIDE DEF q
  <2>8. \A d \in Calls : d # c => call[d].row # q.row
    BY <2>5 DEF RestrictionInv, NamesUnique
  <2> QED
    BY <1>1, <2>5, <2>6, <2>7, <2>8, OnlyCall
<1> QED
  BY <1>2, <1>3

LEMMA InsertKeeps ==
    ASSUME RestrictionInv, NEW c \in Calls, Insert(c)
    PROVE  RestrictionInv'
<1> DEFINE m == call[c].row
           image == call[c].image
<1>1. call[c] \in CallState /\ CallFits(call[c], row, clock) /\ Creating(call[c])
  BY Typed DEF Insert, CallFits, Creating
<1>2. /\ row' = [row EXCEPT ![m] = image] /\ call' = [call EXCEPT ![c] = IdleCall]
      /\ clock' = clock /\ lifted' = lifted /\ row \in [Rows -> RowState]
  BY Typed DEF Insert
<1>3. /\ m \in Rows /\ image \in RowState /\ row[m].state = "absent"
      /\ image.state = "active" /\ HasLength(image) /\ image.checked <= clock
      /\ ClearAt(image.seen, image.checked, row)
  BY <1>1 DEF CallFits, CallState
<1>4. \A d \in Calls : d # c => call[d].row # m
  BY <1>1 DEF RestrictionInv, NamesUnique
<1> HIDE DEF m, image
<1>5. row' \in [Rows -> RowState] /\ Later(row, row')
  BY <1>2, <1>3 DEF Later, RowState
<1>6. \A d \in Calls : d # c /\ Creating(call[d]) => row'[call[d].row].state = "absent"
  BY <1>2, <1>3, <1>4, Typed DEF CallFits
<1>7. RowsFit'
  <2>1. ASSUME NEW n \in Rows
        PROVE  row'[n].checked <= clock' /\ ClearAt(row'[n].seen, row'[n].checked, row')
    <3>1. /\ row'[n] \in RowState /\ row'[n].checked <= clock
          /\ ClearAt(row'[n].seen, row'[n].checked, row)
      BY <1>2, <1>3, <1>5 DEF RestrictionInv, RowsFit
    <3> QED
      BY <1>2, <1>5, <3>1, ClearPersists DEF RowState
  <2> QED
    BY <2>1 DEF RowsFit
<1>8. OffIsOverOrLifted' /\ PeriodsHaveLength'
  BY <1>2, <1>3 DEF RestrictionInv, OffIsOverOrLifted, PeriodsHaveLength, HasLength
<1>9. NamesUnique'
  <2>1. NamesUnique /\ call \in [Calls -> CallState]
    BY Typed DEF RestrictionInv
  <2>2. \A d \in Calls : Creating(call[d]) => IdleCall.row # call[d].row
    BY IdleFits, Typed, RestrictionConstants DEF CallFits
  <2> QED
    BY <1>2, <2>1, <2>2, IdleFits DEF NamesUnique
<1> QED
  BY <1>2, <1>5, <1>6, <1>7, <1>8, <1>9, IdleFits, Typed, CallStep

LEMMA AnswerKeeps ==
    ASSUME RestrictionInv, NEW c \in Calls, Answer(c)
    PROVE  RestrictionInv'
<1>1. call[c] \in CallState /\ call[c].op = "look" /\ UNCHANGED <<clock, row, lifted>>
  BY Typed DEF Answer
<1>2. CASE call' = [call EXCEPT ![c] = [@ EXCEPT !.stage = "answered"]]
  <2> DEFINE q == [call[c] EXCEPT !.stage = "answered"]
  <2>1. q \in CallState /\ CallFits(q, row, clock) /\ ~Creating(q) /\ q.row = call[c].row
    BY <1>1 DEF CallState, Terminal, CallFits, Creating
  <2>2. call' = [call EXCEPT ![c] = q]
    BY <1>2
  <2> HIDE DEF q
  <2>3. \A d \in Calls : d # c /\ Creating(call[d]) => q.row # call[d].row
    BY <2>1 DEF RestrictionInv, NamesUnique
  <2> QED
    BY <1>1, <2>1, <2>2, <2>3, OnlyCall
<1>3. ASSUME NEW m \in Rows, Found(m),
             call' = [call EXCEPT ![c] = [@ EXCEPT !.stage = "answered", !.row = m,
                        !.status = EffectiveStatus(row[m])]]
      PROVE  RestrictionInv'
  <2> DEFINE status == EffectiveStatus(row[m])
             q == [call[c] EXCEPT !.stage = "answered", !.row = m, !.status = status]
  <2>1. status \in {"blocked", "suspended"}
    BY DEF EffectiveStatus
  <2>2. call' = [call EXCEPT ![c] = q]
    BY <1>3
  <2> HIDE DEF status
  <2>3. q \in CallState /\ CallFits(q, row, clock) /\ ~Creating(q) /\ q.row = m
    BY <1>1, <2>1 DEF CallState, Terminal, CallFits, Creating
  <2> HIDE DEF q
  <2>4. \A d \in Calls : Creating(call[d]) => m # call[d].row
    BY <1>3, Typed DEF CallFits, Found, InForce
  <2> QED
    BY <1>1, <2>2, <2>3, <2>4, OnlyCall
<1> QED
  BY <1>2, <1>3 DEF Answer

LEMMA FindToLiftKeeps ==
    ASSUME RestrictionInv, NEW c \in Calls, NEW m \in Rows, FindToLift(c, m)
    PROVE  RestrictionInv'
<1> DEFINE q == [IdleCall EXCEPT !.op = "lift", !.stage = "lifting", !.row = m,
                   !.image = row[m]]
<1>1. row[m] \in RowState /\ row[m].state = "active"
  BY Typed DEF FindToLift, Found, InForce
<1>2. q \in CallState /\ CallFits(q, row, clock) /\ ~Creating(q) /\ q.row = m
  BY <1>1 DEF IdleCall, CallState, Terminal, CallFits, Creating
<1>3. call' = [call EXCEPT ![c] = q] /\ UNCHANGED <<clock, row, lifted>>
  BY DEF FindToLift
<1> HIDE DEF q
<1>4. \A d \in Calls : Creating(call[d]) => m # call[d].row
  BY <1>1, Typed DEF CallFits
<1> QED
  BY <1>2, <1>3, <1>4, OnlyCall

LEMMA LiftKeeps ==
    ASSUME RestrictionInv, NEW c \in Calls, Lift(c)
    PROVE  RestrictionInv'
<1> DEFINE m == call[c].row
           ends == IF call[c].image.ends = None THEN clock ELSE call[c].image.ends
<1>1. /\ call[c] \in CallState /\ m \in Rows /\ row[m].state # "absent"
      /\ call' = [call EXCEPT ![c] = IdleCall] /\ clock' = clock
      /\ row \in [Rows -> RowState] /\ clock \in Nat /\ clock \in Times
  BY Typed DEF Lift, CallFits
<1>2. CASE UNCHANGED <<row, lifted>>
  BY <1>1, <1>2, Ended
<1>3. CASE /\ row[m].starts < ends /\ lifted' = lifted \cup {m}
           /\ row' = [row EXCEPT ![m] = [@ EXCEPT !.state = "inactive", !.ends = ends]]
  <2> DEFINE off == [row[m] EXCEPT !.state = "inactive", !.ends = ends]
  <2>1. ends \in Ends
    <3>1. row[m].starts \in Times /\ call[c].image.ends \in Ends
      BY <1>1 DEF RowState, CallState
    <3> QED
      BY <1>1, <1>3, <3>1, RestrictionConstants DEF Ends, Times
  <2> HIDE DEF ends
  <2>2. off \in RowState /\ off.state = "inactive" /\ off.ends = ends
        /\ off.starts = row[m].starts /\ off.seen = row[m].seen
        /\ off.checked = row[m].checked
    <3>1. row[m] \in RowState
      BY <1>1
    <3> HIDE DEF m
    <3> QED
      BY <2>1, <3>1 DEF RowState
  <2>3. row' = [row EXCEPT ![m] = off]
    BY <1>3
  <2> HIDE DEF off, m
  <2>4. row' \in [Rows -> RowState] /\ Later(row, row') /\ lifted' \subseteq Rows
    BY <1>1, <1>3, <2>2, <2>3, Typed DEF Later, RowState
  <2>5. \A d \in Calls : Creating(call[d]) =>
            call[d].row # m /\ row'[call[d].row].state = "absent"
    BY <1>1, <2>3, Typed DEF CallFits
  <2>6. RowsFit'
    <3>1. ASSUME NEW n \in Rows
          PROVE  row'[n].checked <= clock' /\ ClearAt(row'[n].seen, row'[n].checked, row')
      <4>1. /\ row'[n] \in RowState /\ row'[n].checked <= clock
            /\ ClearAt(row'[n].seen, row'[n].checked, row)
        BY <1>1, <2>2, <2>3, <2>4 DEF RestrictionInv, RowsFit
      <4> QED
        BY <1>1, <2>4, <4>1, ClearPersists DEF RowState
    <3> QED
      BY <3>1 DEF RowsFit
  <2>7. OffIsOverOrLifted' /\ PeriodsHaveLength'
    BY <1>1, <1>3, <2>2, <2>3
    DEF RestrictionInv, OffIsOverOrLifted, PeriodsHaveLength
  <2>8. NamesUnique'
    <3>1. NamesUnique /\ call \in [Calls -> CallState]
      BY Typed DEF RestrictionInv
    <3>2. \A d \in Calls : Creating(call[d]) => IdleCall.row # call[d].row
      BY IdleFits, Typed, RestrictionConstants DEF CallFits
    <3> QED
      BY <1>1, <3>1, <3>2, IdleFits DEF NamesUnique
  <2> QED
    BY <1>1, <2>4, <2>5, <2>6, <2>7, <2>8, IdleFits, Typed, CallStep
<1> QED
  BY <1>2, <1>3 DEF Lift

LEMMA TickKeeps ==
    ASSUME RestrictionInv, Tick
    PROVE  RestrictionInv'
<1>1. /\ clock \in Times /\ clock' \in Times /\ clock <= clock' /\ clock' = clock + 1
      /\ clock \in Nat /\ row' = row /\ call' = call /\ lifted' = lifted
      /\ row \in [Rows -> RowState]
  BY Typed DEF Tick, Times
<1>2. RestrictionTypeOK'
  BY <1>1, Typed DEF RestrictionTypeOK
<1>3. CallsFit'
  <2>1. Later(row, row)
    BY <1>1 DEF Later, RowState
  <2>2. ASSUME NEW c \in Calls PROVE CallFits(call[c], row, clock')
    <3>1. call[c] \in CallState /\ CallFits(call[c], row, clock)
      BY Typed
    <3>2. Creating(call[c]) => row[call[c].row].state = "absent"
      BY <3>1 DEF CallFits
    <3> QED
      BY <1>1, <2>1, <3>1, <3>2, FitsPersists
  <2> QED
    BY <1>1, <2>2 DEF CallsFit
<1>4. NamesUnique' /\ PeriodsHaveLength'
  BY <1>1 DEF RestrictionInv, NamesUnique, PeriodsHaveLength
<1>5. RowsFit' /\ OffIsOverOrLifted'
  <2>1. \A n \in Rows : /\ row[n].checked \in Nat
                        /\ row[n].ends # None => row[n].ends \in Nat
    BY <1>1, RestrictionConstants DEF RowState, Times, Ends
  <2> QED
    BY <1>1, <2>1 DEF RestrictionInv, RowsFit, OffIsOverOrLifted
<1> QED
  BY <1>2, <1>3, <1>4, <1>5 DEF RestrictionInv

\* Every step of every call, and of the clock, keeps the invariant.
LEMMA NextKeeps == RestrictionInv /\ [RestrictionNext]_restrictionVars => RestrictionInv'
<1> SUFFICES ASSUME RestrictionInv, [RestrictionNext]_restrictionVars
             PROVE  RestrictionInv'
  OBVIOUS
<1>1. ASSUME NEW c \in Calls, Fail(c) PROVE RestrictionInv'
  BY <1>1, Ended DEF Fail
<1>2. CASE UNCHANGED restrictionVars
  BY <1>2 DEF restrictionVars, RestrictionInv, RestrictionTypeOK, CallsFit, NamesUnique,
     RowsFit, OffIsOverOrLifted, PeriodsHaveLength
<1> QED
  BY <1>1, <1>2, CreateKeeps, FindToLiftKeeps, LookKeeps, ExpireKeeps, CheckNoneKeeps,
     InsertKeeps, AnswerKeeps, LiftKeeps, TickKeeps DEF RestrictionNext

LEMMA Invariance == RestrictionSpec => []RestrictionInv
  BY InitKeeps, NextKeeps, PTL DEF RestrictionSpec

\* A row that was seen was not in force at that time; what comes in force
\* nevertheless starts later.
LEMMA SeenStartLater == RestrictionInv => SecondOnlyUnseen
<1> SUFFICES ASSUME RestrictionInv, NEW m \in Rows, NEW n \in Rows,
                    InForce(m), InForce(n), m \in row[n].seen
             PROVE  row[m].starts > row[n].checked
  BY DEF SecondOnlyUnseen
<1>1. row[m] \in RowState /\ row[n] \in RowState /\ clock \in Nat
  BY Typed
<1>2. row[n].checked <= clock /\ ClearAt(row[n].seen, row[n].checked, row)
  BY DEF RestrictionInv, RowsFit
<1> QED
  BY <1>1, <1>2, RestrictionConstants DEF ClearAt, InForce, RowState, Times, Ends

\* Only an INSERT makes a row active, and its row is still absent.
LEMMA OffStep ==
    RestrictionInv /\ [RestrictionNext]_restrictionVars
    => \A m \in Rows : row[m].state = "inactive" => row'[m].state = "inactive"
<1> SUFFICES ASSUME RestrictionInv, [RestrictionNext]_restrictionVars, NEW m \in Rows,
                    row[m].state = "inactive"
             PROVE  row'[m].state = "inactive"
  OBVIOUS
<1>1. ASSUME NEW c \in Calls, Expire(c) PROVE row'[m].state = "inactive"
  BY <1>1 DEF Expire, AfterExpiry
<1>2. ASSUME NEW c \in Calls, Insert(c) PROVE row'[m].state = "inactive"
  <2>1. row[call[c].row].state = "absent"
    BY <1>2, Typed DEF Insert, CallFits, Creating
  <2> QED
    BY <1>2, <2>1, Typed DEF Insert
<1>3. ASSUME NEW c \in Calls, Lift(c) PROVE row'[m].state = "inactive"
  <2>1. row[m] \in RowState /\ row \in [Rows -> RowState]
    BY Typed
  <2>2. \/ row' = row
        \/ \E ends : row' = [row EXCEPT ![call[c].row] =
                                 [@ EXCEPT !.state = "inactive", !.ends = ends]]
    BY <1>3 DEF Lift
  <2>3. CASE row' = row
    BY <2>3
  <2>4. ASSUME NEW ends, row' = [row EXCEPT ![call[c].row] =
                                  [@ EXCEPT !.state = "inactive", !.ends = ends]]
        PROVE  row'[m].state = "inactive"
    <3>1. CASE m = call[c].row
      <4>1. row'[m] = [row[m] EXCEPT !.state = "inactive", !.ends = ends]
        BY <2>1, <2>4, <3>1
      <4> QED
        BY <2>1, <4>1 DEF RowState
    <3>2. CASE m # call[c].row
      BY <2>1, <2>4, <3>2
    <3> QED
      BY <3>1, <3>2
  <2> QED
    BY <2>2, <2>3, <2>4
<1>4. CASE UNCHANGED row
  BY <1>4
<1> QED
  BY <1>1, <1>2, <1>3, <1>4
  DEF RestrictionNext, restrictionVars, Tick, Create, FindToLift, Look, CheckNone,
      Answer, Fail

-----------------------------------------------------------------------------
(* The theorems.                                                           *)

\* Rows, calls and the clock keep their types; a lift writes an end that a row
\* may have.
THEOREM RestrictionTypeCorrect == RestrictionSpec => []RestrictionTypeOK
  BY Invariance, PTL DEF RestrictionInv

\* What is switched off is over or was lifted by an administrator
\* (expireEndedRestrictions runs in every login and every guard).
THEOREM OffJustified == RestrictionSpec => []OffIsOverOrLifted
  BY Invariance, PTL DEF RestrictionInv

\* Two restrictions are in force together only where the call that created the
\* second could not know (createAdministrativeRestriction).
THEOREM SecondUnseen == RestrictionSpec => []SecondOnlyUnseen
  BY Invariance, SeenStartLater, PTL

\* Periods keep a length (deactivateAdministrativeRestriction writes an end).
THEOREM LengthsStay == RestrictionSpec => []PeriodsHaveLength
  BY Invariance, PTL DEF RestrictionInv

\* What is over or lifted never restricts again, whichever of expiring, lifting
\* and inserting calls interleave.
THEOREM OffForGood == RestrictionSpec => OffStaysOff
  BY Invariance, OffStep, PTL DEF RestrictionSpec, OffStaysOff

=============================================================================
