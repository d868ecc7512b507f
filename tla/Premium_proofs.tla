--------------------------- MODULE Premium_proofs ---------------------------
(***************************************************************************)
(* Proofs about Premium for any memberships, keys, cycles and requests,    *)
(* and any bound of the clock.  The inductive invariant says what each     *)
(* request still knows about the rows after other requests have stepped.   *)
(***************************************************************************)
EXTENDS Premium, TLAPS

-----------------------------------------------------------------------------
(* The inductive invariant.                                                *)

\* What the table keeps: periods with a length that have begun, and a key only
\* on a row, on one row.
RowsFit ==
    /\ \A m \in Members :
        IF status[m] = "absent" THEN key[m] = None
        ELSE starts[m] < ends[m] /\ starts[m] <= clock
    /\ \A m, n \in Members : key[m] = key[n] /\ key[m] # None => m = n
    /\ AtMostOneActive
    /\ EndedInThePast

\* The request will insert the row it names.
WillInsert(c) ==
    \/ call[c].op = "activate" /\ call[c].stage \in {"begun", "swept"}
    \/ call[c].stage \in {"unkeyed", "inserting"}

\* The row to be inserted is named by this request alone.
RowReserved(c) ==
    WillInsert(c) =>
        /\ call[c].member \in Members /\ call[c].cycle \in Cycles
        /\ status[call[c].member] = "absent"
        /\ \A d \in Calls : d # c => call[d].member # call[c].member

\* The rows to be expired are still ended, whatever else became of them.
StaleRowsEnded(c) ==
    \A m \in call[c].stale :
        /\ status[m] # "absent"
        /\ status[m] = "active" => ends[m] <= call[c].now

\* The row an answer or a cancellation is about exists, with the answer's key;
\* only a request that has a key looks for a row again.
RowKnown(c) ==
    /\ call[c].stage \in {"activated", "replayed", "cancelling"} =>
        call[c].member \in Members /\ status[call[c].member] # "absent"
    /\ call[c].stage \in {"activated", "replayed"} =>
        key[call[c].member] = call[c].key
    /\ call[c].stage = "clashed" => call[c].key # None

\* A retry finds the key, so it never reaches the stages after the look for it.
KeyFound(c) ==
    call[c].keyTaken =>
        /\ KeyClash(c)
        /\ call[c].stage \notin {"unkeyed", "inserting", "activated", "conflict"}

CallFits(c) ==
    /\ call[c].now <= clock
    /\ RowReserved(c)
    /\ StaleRowsEnded(c)
    /\ RowKnown(c)
    /\ KeyFound(c)

IInv == PremiumTypeOK /\ RowsFit /\ \A c \in Calls : CallFits(c)

-----------------------------------------------------------------------------
(* A step of one request, seen by the others.                              *)

\* Rows stay, keep their key and, while they are active, their end; the only
\* row that may appear is the one the request c has reserved.
RowsEvolve(c) ==
    \A m \in Members :
        IF status[m] = "absent"
        THEN status'[m] # "absent" => WillInsert(c) /\ m = call[c].member
        ELSE /\ status'[m] # "absent" /\ key'[m] = key[m]
             /\ status'[m] = "active" => status[m] = "active" /\ ends'[m] = ends[m]

\* After its step, c names no row that another request has reserved.
KeepsClear(c) ==
    \/ call'[c].member \in {call[c].member, None}
    \/ call'[c].member \in Members /\ status[call'[c].member] # "absent"
    \/ \A d \in Calls : d # c => call[d].member # call'[c].member

\* A request whose step is orderly in this sense disturbs no other request.
LEMMA OneRequestSteps ==
    ASSUME IInv, NEW c \in Calls, clock' = clock,
           PremiumTypeOK', RowsFit', CallFits(c)',
           \A d \in Calls : d # c => call'[d] = call[d],
           RowsEvolve(c), KeepsClear(c)
    PROVE IInv'
<1>1. SUFFICES ASSUME NEW d \in Calls, d # c PROVE CallFits(d)'
  BY DEF IInv
<1>2. call'[d] = call[d] /\ CallFits(d) /\ call[d] \in CallState
  BY <1>1 DEF IInv, PremiumTypeOK
<1>3. CallFits(c)
  BY DEF IInv
<1>4. (call[d].now <= clock)'
  BY <1>2 DEF CallFits
<1>5. RowReserved(d)'
  <2> SUFFICES ASSUME WillInsert(d)
               PROVE /\ call[d].member \in Members /\ call[d].cycle \in Cycles
                     /\ status'[call[d].member] = "absent"
                     /\ \A e \in Calls : e # d => call'[e].member # call[d].member
    BY <1>2 DEF RowReserved, WillInsert
  <2>1. /\ call[d].member \in Members /\ call[d].cycle \in Cycles
        /\ status[call[d].member] = "absent"
        /\ \A e \in Calls : e # d => call[e].member # call[d].member
    BY <1>2 DEF CallFits, RowReserved
  <2>2. status'[call[d].member] = "absent"
    BY <1>1, <2>1 DEF RowsEvolve
  <2>3. call'[c].member # call[d].member
    BY <1>1, <2>1, PremiumConstants DEF KeepsClear
  <2> QED BY <2>1, <2>2, <2>3
<1>6. StaleRowsEnded(d)'
  BY <1>2 DEF CallFits, StaleRowsEnded, RowsEvolve, CallState
<1>7. RowKnown(d)'
  BY <1>2 DEF CallFits, RowKnown, RowsEvolve
<1>8. KeyFound(d)'
  <2> SUFFICES ASSUME call[d].keyTaken PROVE KeyClash(d)'
    BY <1>2 DEF CallFits, KeyFound
  <2>1. PICK m \in Members : key[m] = call[d].key /\ call[d].key # None
    BY <1>2 DEF CallFits, KeyFound, KeyClash
  <2>2. key'[m] = key[m]
    BY <2>1 DEF IInv, RowsFit, RowsEvolve
  <2> QED BY <1>2, <2>1, <2>2 DEF KeyClash
<1> QED BY <1>4, <1>5, <1>6, <1>7, <1>8 DEF CallFits

\* The same for a step that leaves the rows alone.
LEMMA OneRequestReads ==
    ASSUME IInv, NEW c \in Calls, UNCHANGED <<clock, rowVars>>,
           NEW next \in CallState, call' = [call EXCEPT ![c] = next],
           CallFits(c)', KeepsClear(c)
    PROVE IInv'
<1>1. PremiumTypeOK'
  BY DEF IInv, PremiumTypeOK, rowVars
<1>2. RowsFit'
  BY DEF IInv, RowsFit, AtMostOneActive, EndedInThePast, rowVars
<1>3. \A d \in Calls : d # c => call'[d] = call[d]
  BY DEF IInv, PremiumTypeOK
<1>4. RowsEvolve(c)
  BY DEF RowsEvolve, rowVars
<1> QED BY <1>1, <1>2, <1>3, <1>4, OneRequestSteps DEF rowVars

\* A request that ends has no claims left.
LEMMA EndFits ==
    ASSUME PremiumTypeOK, NEW c \in Calls, call[c] = IdleCall
    PROVE CallFits(c)
  BY DEF CallFits, RowReserved, WillInsert, StaleRowsEnded, RowKnown, KeyFound,
     IdleCall, PremiumTypeOK

LEMMA IdleCallState == IdleCall \in CallState
  BY DEF IdleCall, CallState, Stages, Terminal, RowImage, NoRow, Statuses

-----------------------------------------------------------------------------
(* Invariance, one lemma per kind of request.                              *)

\* The initial state, where no row exists and no request has begun.
LEMMA InitInvariant == PremiumInit => IInv
<1> SUFFICES ASSUME PremiumInit PROVE IInv
  OBVIOUS
<1>1. PremiumTypeOK
  BY IdleCallState DEF PremiumInit, PremiumTypeOK, Statuses
<1>2. RowsFit
  BY DEF PremiumInit, RowsFit, AtMostOneActive, EndedInThePast
<1>3. \A c \in Calls : CallFits(c)
  BY <1>1, EndFits DEF PremiumInit
<1> QED BY <1>1, <1>2, <1>3 DEF IInv

\* The steps that only read the table: the request's next state, with what it
\* must fit.
LEMMA ReadingSteps ==
    ASSUME IInv, NEW c \in Calls,
           \/ \E k \in Keys \cup {None}, cycle \in Cycles, m \in Members :
                 Activate(c, k, cycle, m)
           \/ Begin(c, "cancel") \/ Begin(c, "read")
           \/ SweepStale(c) \/ FindActive(c) \/ ActivateRefused(c)
           \/ ReplayAfterClash(c) \/ FindToCancel(c) \/ ReadFind(c) \/ Crash(c)
    PROVE IInv'
<1> USE DEF Terminal
<1>1. PremiumTypeOK /\ CallFits(c) /\ call[c] \in CallState
  BY DEF IInv, PremiumTypeOK
<1>2. UNCHANGED <<clock, rowVars>>
  BY DEF Activate, Begin, SweepStale, FindActive, ActivateRefused,
     ReplayAfterClash, FindToCancel, ReadFind, Crash
<1>3. ASSUME End(c) PROVE IInv'
  <2>1. call' = [call EXCEPT ![c] = IdleCall] /\ call'[c] = IdleCall
    BY <1>1, <1>3 DEF End, PremiumTypeOK
  <2>2. PremiumTypeOK'
    BY <1>1, <1>2, <2>1, IdleCallState DEF PremiumTypeOK, rowVars
  <2>3. CallFits(c)'
    BY <2>1, <2>2 DEF CallFits, RowReserved, WillInsert, StaleRowsEnded, RowKnown,
       KeyFound, IdleCall, PremiumTypeOK
  <2>4. KeepsClear(c)
    BY <2>1 DEF KeepsClear, IdleCall
  <2> QED BY <1>2, <2>1, <2>3, <2>4, IdleCallState, OneRequestReads
<1>4. ASSUME NEW k \in Keys \cup {None}, NEW cycle \in Cycles, NEW m \in Members,
             Activate(c, k, cycle, m)
      PROVE  IInv'
  <2> PICK taken \in BOOLEAN : taken <=> k # None /\ \E n \in Members : key[n] = k
    OBVIOUS
  <2> PICK next : next =
        [IdleCall EXCEPT !.op = "activate", !.stage = "begun", !.now = clock,
           !.key = k, !.cycle = cycle, !.member = m, !.keyTaken = taken]
    OBVIOUS
  <2>1. /\ next \in CallState /\ next.member = m /\ next.cycle = cycle
        /\ next.key = k /\ next.keyTaken = taken /\ next.stage = "begun"
    BY <1>1, IdleCallState, ZenonT(30) DEF CallState, IdleCall, Stages, PremiumTypeOK
  <2>2. call' = [call EXCEPT ![c] = next] /\ call'[c] = next
        /\ \A d \in Calls : d # c => call'[d] = call[d]
    <3>1. taken = (k # None /\ \E n \in Members : key[n] = k)
      OBVIOUS
    <3> QED BY <1>1, <1>4, <3>1 DEF Activate, PremiumTypeOK
  <2>3. status[m] = "absent" /\ \A d \in Calls : call[d].member # m
    BY <1>4 DEF Activate
  <2>4. RowReserved(c)'
    <3>1. call'[c].member = m /\ call'[c].cycle = cycle /\ status'[m] = "absent"
      BY <1>2, <2>1, <2>2, <2>3 DEF rowVars
    <3>2. \A d \in Calls : d # c => call'[d].member # m
      BY <2>2, <2>3
    <3> QED BY <3>1, <3>2 DEF RowReserved
  <2>5. KeyFound(c)'
    BY <1>2, <2>1, <2>2 DEF KeyFound, KeyClash, rowVars
  <2>6. CallFits(c)'
    BY <1>1, <1>2, <2>2, <2>4, <2>5 DEF CallFits, StaleRowsEnded, RowKnown, IdleCall,
       PremiumTypeOK
  <2>7. KeepsClear(c)
    BY <2>2, <2>3 DEF KeepsClear, IdleCall
  <2> QED BY <1>2, <2>1, <2>2, <2>6, <2>7, OneRequestReads
<1>5. ASSUME NEW op \in {"cancel", "read"}, Begin(c, op) PROVE IInv'
  <2> PICK next : next = [IdleCall EXCEPT !.op = op, !.stage = "begun", !.now = clock]
    OBVIOUS
  <2>1. next \in CallState
    BY <1>1, <1>5, IdleCallState DEF CallState, IdleCall, Stages, PremiumTypeOK
  <2>2. call' = [call EXCEPT ![c] = next] /\ call'[c] = next
    BY <1>1, <1>5 DEF Begin, PremiumTypeOK
  <2>3. CallFits(c)'
    BY <1>1, <1>2, <1>5, <2>2 DEF CallFits, RowReserved, WillInsert, StaleRowsEnded,
       RowKnown, KeyFound, IdleCall, PremiumTypeOK
  <2>4. KeepsClear(c)
    BY <2>2 DEF KeepsClear, IdleCall
  <2> QED BY <1>2, <2>1, <2>2, <2>3, <2>4, OneRequestReads
<1>6. CASE SweepStale(c)
  <2> PICK next : next = [call[c] EXCEPT !.stage = "swept", !.stale = Stale(call[c].now)]
    OBVIOUS
  <2>1. next \in CallState
    BY <1>1 DEF CallState, Stages, Stale
  <2>2. call' = [call EXCEPT ![c] = next] /\ call'[c] = next
        /\ \A d \in Calls : d # c => call'[d] = call[d]
    BY <1>1, <1>6 DEF SweepStale, PremiumTypeOK
  <2>3. CallFits(c)'
    BY <1>1, <1>2, <1>6, <2>2 DEF SweepStale, CallFits, RowReserved, WillInsert,
       StaleRowsEnded, RowKnown, KeyFound, KeyClash, CallState, Stale, rowVars
  <2>4. KeepsClear(c)
    BY <1>1, <2>2 DEF KeepsClear, CallState
  <2> QED BY <1>2, <2>1, <2>2, <2>3, <2>4, OneRequestReads
<1>7. ASSUME NEW stage \in {"conflict", "clashed"},
             call[c].stage \in {"unkeyed", "inserting"},
             stage = "clashed" => call[c].key # None,
             call' = [call EXCEPT ![c] = [@ EXCEPT !.stage = stage, !.stale = {}]]
      PROVE  IInv'
  <2> PICK next : next = [call[c] EXCEPT !.stage = stage, !.stale = {}]
    OBVIOUS
  <2>1. next \in CallState
    BY <1>1, <1>7 DEF CallState, Stages
  <2>2. call' = [call EXCEPT ![c] = next] /\ call'[c] = next
    BY <1>1, <1>7 DEF PremiumTypeOK
  <2>3. CallFits(c)'
    BY <1>1, <1>2, <1>7, <2>2 DEF CallFits, RowReserved, WillInsert,
       StaleRowsEnded, RowKnown, KeyFound, CallState, rowVars
  <2>4. KeepsClear(c)
    BY <1>1, <2>2 DEF KeepsClear, CallState
  <2> QED BY <1>2, <2>1, <2>2, <2>3, <2>4, OneRequestReads
<1>8. CASE FindActive(c)
  <2>1. CASE ActiveAt(call[c].now) # {}
    BY <1>7, <1>8, <2>1 DEF FindActive
  <2>2. CASE ActiveAt(call[c].now) = {}
    <3> PICK next : next = [call[c] EXCEPT !.stage = "inserting"]
      OBVIOUS
    <3>1. next \in CallState
      BY <1>1 DEF CallState, Stages
    <3>2. call' = [call EXCEPT ![c] = next] /\ call'[c] = next
          /\ \A d \in Calls : d # c => call'[d] = call[d]
      BY <1>1, <1>8, <2>2 DEF FindActive, Goto, PremiumTypeOK
    <3>3. CallFits(c)'
      BY <1>1, <1>2, <1>8, <3>2 DEF FindActive, CallFits, RowReserved, WillInsert,
         StaleRowsEnded, RowKnown, KeyFound, CallState, rowVars
    <3>4. KeepsClear(c)
      BY <1>1, <3>2 DEF KeepsClear, CallState
    <3> QED BY <1>2, <3>1, <3>2, <3>3, <3>4, OneRequestReads
  <2> QED BY <2>1, <2>2
<1>9. CASE ActivateRefused(c)
  BY <1>7, <1>9 DEF ActivateRefused, KeyClash
<1>10. ASSUME NEW m \in Members, NEW stage \in {"replayed", "cancelling", "reported"},
              call[c].stage \in {"clashed", "swept", "finding"}, status[m] # "absent",
              stage = "replayed" => key[m] = call[c].key,
              call' = [call EXCEPT ![c] = [@ EXCEPT
                         !.stage = stage, !.member = m, !.found = Image(m)]]
       PROVE  IInv'
  <2> PICK next : next = [call[c] EXCEPT !.stage = stage, !.member = m, !.found = Image(m)]
    OBVIOUS
  <2>1. next \in CallState
    BY <1>1, <1>10 DEF CallState, Stages, RowImage, Image, PremiumTypeOK
  <2>2. call' = [call EXCEPT ![c] = next] /\ call'[c] = next
        /\ \A d \in Calls : d # c => call'[d] = call[d]
    BY <1>1, <1>10 DEF PremiumTypeOK
  <2>3. CallFits(c)'
    BY <1>1, <1>2, <1>10, <2>2 DEF CallFits, RowReserved, WillInsert,
       StaleRowsEnded, RowKnown, KeyFound, KeyClash, CallState, rowVars
  <2>4. KeepsClear(c)
    BY <1>1, <1>10, <2>2 DEF KeepsClear, CallState
  <2> QED BY <1>2, <2>1, <2>2, <2>3, <2>4, OneRequestReads
<1>11. CASE ReplayAfterClash(c)
  <2>1. PICK m \in Members : key[m] = call[c].key
          /\ call' = [call EXCEPT ![c] = [@ EXCEPT
               !.stage = "replayed", !.member = m, !.found = Image(m)]]
    BY <1>11 DEF ReplayAfterClash
  <2>2. call[c].stage = "clashed"
    BY <1>11 DEF ReplayAfterClash
  <2>3. status[m] # "absent"
    BY <1>1, <2>1, <2>2 DEF CallFits, RowKnown, IInv, RowsFit
  <2> QED BY <1>10, <2>1, <2>2, <2>3
<1>12. CASE FindToCancel(c)
  BY <1>3, <1>10, <1>12 DEF FindToCancel, ActiveAt
<1>13. CASE ReadFind(c)
  BY <1>3, <1>10, <1>13 DEF ReadFind, ActiveAt
<1> QED BY <1>3, <1>4, <1>5, <1>6, <1>8, <1>9, <1>11, <1>12, <1>13 DEF Crash

\* A commit: the row of the request becomes active and what its transaction
\* swept expires; nobody else is active, for the index would have objected.
LEMMA ActivateCommits ==
    ASSUME IInv, NEW c \in Calls, ActivateCommit(c)
    PROVE  IInv'
<1> DEFINE m == call[c].member
           now == call[c].now
<1>1. PremiumTypeOK /\ RowsFit /\ CallFits(c) /\ call[c] \in CallState
  BY DEF IInv, PremiumTypeOK
<1>2. /\ m \in Members /\ status[m] = "absent" /\ call[c].cycle \in Cycles
      /\ \A d \in Calls : d # c => call[d].member # m
  BY <1>1 DEF ActivateCommit, CallFits, RowReserved, WillInsert
<1>3. now \in Nat /\ now <= clock /\ now + call[c].cycle \in Nat
      /\ now < now + call[c].cycle
  <2>1. now \in Nat /\ now <= clock
    BY <1>1 DEF CallFits, CallState
  <2>2. \A cycle \in Cycles : cycle \in Nat /\ 0 < cycle
    <3>1. \A cycle \in Cycles : cycle \in Nat /\ cycle # 0
      BY PremiumConstants
    <3> QED BY <3>1
  <2> HIDE DEF now
  <2> QED BY <1>2, <2>1, <2>2
<1> PICK next : next = [call[c] EXCEPT !.stage = "activated", !.stale = {},
         !.found = [status |-> "active", starts |-> now, ends |-> now + call[c].cycle]]
  OBVIOUS
<1>4. /\ next \in CallState /\ next.member = m /\ next.key = call[c].key
      /\ next.now = now /\ next.stale = {} /\ next.stage = "activated"
      /\ next.keyTaken = call[c].keyTaken
  BY <1>1, <1>3 DEF CallState, Stages, Terminal, RowImage, Statuses
<1>5. /\ call' = [call EXCEPT ![c] = next] /\ call'[c] = next
      /\ \A d \in Calls : d # c => call'[d] = call[d]
  BY <1>1 DEF ActivateCommit, InsertRow, PremiumTypeOK
<1>6. /\ status' \in [Members -> Statuses]
      /\ \A n \in Members : n # m =>
            status'[n] # "active" /\ (status'[n] # status[n] =>
                n \in call[c].stale /\ status[n] = "active" /\ status'[n] = "expired")
      /\ status'[m] = "active"
  <2>1. status' = [Expired(call[c].stale) EXCEPT ![m] = "active"]
    BY DEF ActivateCommit, InsertRow
  <2>2. Expired(call[c].stale) \in [Members -> Statuses]
        /\ \A n \in Members : Expired(call[c].stale)[n] # "active"
    BY <1>1 DEF ActivateCommit, ActiveClash, Expired, PremiumTypeOK, Statuses
  <2>3. \A n \in Members : Expired(call[c].stale)[n] # status[n] =>
          n \in call[c].stale /\ status[n] = "active"
          /\ Expired(call[c].stale)[n] = "expired"
    BY DEF Expired
  <2> QED BY <1>2, <2>1, <2>2, <2>3 DEF Statuses
<1>7. /\ clock' = clock
      /\ starts' \in [Members -> Nat] /\ starts'[m] = now
      /\ ends' \in [Members -> Nat] /\ ends'[m] = now + call[c].cycle
      /\ key' \in [Members -> Keys \cup {None}] /\ key'[m] = call[c].key
      /\ \A n \in Members : n # m =>
            starts'[n] = starts[n] /\ ends'[n] = ends[n] /\ key'[n] = key[n]
  BY <1>1, <1>2, <1>3 DEF ActivateCommit, InsertRow, PremiumTypeOK, CallState
<1>8. \A n \in Members : call[c].key # None => key[n] # call[c].key
  BY DEF ActivateCommit, KeyClash
<1> HIDE DEF m, now
<1>9. PremiumTypeOK'
  BY <1>1, <1>4, <1>5, <1>6, <1>7 DEF PremiumTypeOK
<1>10. RowsFit'
  <2>1. \A n \in Members :
          IF status'[n] = "absent" THEN key'[n] = None
          ELSE starts'[n] < ends'[n] /\ starts'[n] <= clock'
    BY <1>1, <1>3, <1>6, <1>7 DEF RowsFit
  <2>2. \A n, o \in Members : key'[n] = key'[o] /\ key'[n] # None => n = o
    BY <1>1, <1>2, <1>7, <1>8 DEF RowsFit
  <2>3. AtMostOneActive'
    BY <1>6 DEF AtMostOneActive
  <2>4. EndedInThePast'
    <3> SUFFICES ASSUME NEW n \in Members, status'[n] \in {"expired", "cancelled"}
                 PROVE  starts'[n] < ends'[n] /\ ends'[n] <= clock'
      BY DEF EndedInThePast
    <3>1. n # m /\ starts'[n] = starts[n] /\ ends'[n] = ends[n] /\ clock' = clock
      BY <1>6, <1>7
    <3>2. CASE status'[n] = status[n]
      BY <1>1, <3>1, <3>2 DEF RowsFit, EndedInThePast
    <3>3. CASE status'[n] # status[n]
      <4>1. n \in call[c].stale /\ status[n] = "active"
        BY <1>6, <3>1, <3>3
      <4>2. ends[n] <= now /\ starts[n] < ends[n] /\ ends[n] \in Nat /\ clock \in Nat
        BY <1>1, <4>1 DEF CallFits, StaleRowsEnded, RowsFit, PremiumTypeOK, now
      <4> QED BY <1>3, <3>1, <4>2
    <3> QED BY <3>2, <3>3
  <2> QED BY <2>1, <2>2, <2>3, <2>4 DEF RowsFit
<1>11. CallFits(c)'
  <2>1. KeyFound(c)'
    BY <1>1, <1>4, <1>5 DEF ActivateCommit, CallFits, KeyFound
  <2>2. RowReserved(c)'
    BY <1>4, <1>5 DEF RowReserved, WillInsert
  <2>3. StaleRowsEnded(c)'
    BY <1>4, <1>5 DEF StaleRowsEnded
  <2>4. RowKnown(c)'
    <3>1. call'[c].member = m /\ call'[c].key = call[c].key /\ call'[c].stage = "activated"
      BY <1>4, <1>5
    <3>2. m \in Members /\ status'[m] = "active" /\ key'[m] = call[c].key
      BY <1>2, <1>6, <1>7
    <3> QED BY <3>1, <3>2 DEF RowKnown
  <2> QED BY <1>3, <1>4, <1>5, <1>7, <2>1, <2>2, <2>3, <2>4 DEF CallFits
<1>12. RowsEvolve(c)
  BY <1>1, <1>2, <1>6, <1>7 DEF RowsEvolve, ActivateCommit, WillInsert, m
<1>13. KeepsClear(c)
  BY <1>4, <1>5 DEF KeepsClear, m
<1> QED BY <1>5, <1>7, <1>9, <1>10, <1>11, <1>12, <1>13, OneRequestSteps

\* The other commits expire rows and change nothing else; what they expire is
\* ended.
LEMMA RowsExpire ==
    ASSUME IInv, NEW c \in Calls, NEW over \in SUBSET Members,
           \A n \in over : status[n] = "active" => ends[n] <= clock,
           status' = Expired(over), UNCHANGED <<clock, starts, ends, key>>,
           PremiumTypeOK', CallFits(c)', KeepsClear(c),
           \A d \in Calls : d # c => call'[d] = call[d]
    PROVE  IInv'
<1>1. PremiumTypeOK /\ RowsFit
  BY DEF IInv
<1>2. \A n \in Members : status'[n] # status[n] =>
         n \in over /\ status[n] = "active" /\ status'[n] = "expired"
  BY DEF Expired
<1>3. RowsFit'
  BY <1>1, <1>2 DEF RowsFit, AtMostOneActive, EndedInThePast
<1>4. RowsEvolve(c)
  BY <1>2 DEF RowsEvolve
<1> QED BY <1>3, <1>4, OneRequestSteps

\* A replay commits what its transaction has expired.
LEMMA ReplayCommits ==
    ASSUME IInv, NEW c \in Calls, FindByKey(c)
    PROVE  IInv'
<1>1. PremiumTypeOK /\ RowsFit /\ CallFits(c) /\ call[c] \in CallState
  BY DEF IInv, PremiumTypeOK
<1>2. call[c].stage = "swept" /\ call[c].op = "activate"
      /\ UNCHANGED <<clock, starts, ends, key>>
  BY DEF FindByKey
<1>3. CASE ~KeyClash(c) /\ Goto(c, "unkeyed") /\ UNCHANGED status
  <2> PICK next : next = [call[c] EXCEPT !.stage = "unkeyed"]
    OBVIOUS
  <2>1. next \in CallState
    BY <1>1 DEF CallState, Stages
  <2>2. call' = [call EXCEPT ![c] = next] /\ call'[c] = next
        /\ \A d \in Calls : d # c => call'[d] = call[d]
    BY <1>1, <1>3 DEF Goto, PremiumTypeOK
  <2>3. CallFits(c)'
    BY <1>1, <1>2, <1>3, <2>2 DEF CallFits, RowReserved, WillInsert,
       StaleRowsEnded, RowKnown, KeyFound, CallState
  <2>4. KeepsClear(c)
    BY <1>1, <2>2 DEF KeepsClear, CallState
  <2> QED BY <1>2, <1>3, <2>1, <2>2, <2>3, <2>4, OneRequestReads DEF rowVars
<1>4. ASSUME NEW m \in Members, call[c].key # None, key[m] = call[c].key,
             status' = Expired(call[c].stale),
             call' = [call EXCEPT ![c] = [@ EXCEPT
               !.stage = "replayed", !.member = m, !.stale = {},
               !.found = [Image(m) EXCEPT !.status = Expired(call[c].stale)[m]]]]
      PROVE  IInv'
  <2> PICK next : next = [call[c] EXCEPT
               !.stage = "replayed", !.member = m, !.stale = {},
               !.found = [Image(m) EXCEPT !.status = Expired(call[c].stale)[m]]]
    OBVIOUS
  <2>1. status' \in [Members -> Statuses]
    BY <1>1, <1>4 DEF Expired, PremiumTypeOK, Statuses
  <2>2. /\ next \in CallState /\ next.stage = "replayed" /\ next.member = m
        /\ next.stale = {} /\ next.key = call[c].key /\ next.now = call[c].now
        /\ next.keyTaken = call[c].keyTaken
    BY <1>1, <1>4, <2>1 DEF CallState, Stages, Terminal, RowImage, Image, PremiumTypeOK
  <2>3. call' = [call EXCEPT ![c] = next] /\ call'[c] = next
        /\ \A d \in Calls : d # c => call'[d] = call[d]
    BY <1>1, <1>4 DEF PremiumTypeOK
  <2>4. PremiumTypeOK'
    BY <1>1, <1>2, <2>1, <2>2, <2>3 DEF PremiumTypeOK
  <2>5. status[m] # "absent" /\ status'[m] # "absent"
    BY <1>1, <1>4 DEF RowsFit, Expired
  <2>6. CallFits(c)'
    <3>1. KeyFound(c)'
      BY <1>2, <1>4, <2>2, <2>3 DEF KeyFound, KeyClash
    <3>2. RowReserved(c)' /\ StaleRowsEnded(c)'
      BY <2>2, <2>3 DEF RowReserved, WillInsert, StaleRowsEnded
    <3>3. RowKnown(c)'
      BY <1>2, <1>4, <2>2, <2>3, <2>5 DEF RowKnown
    <3> QED BY <1>1, <1>2, <2>2, <2>3, <3>1, <3>2, <3>3 DEF CallFits
  <2>7. KeepsClear(c)
    BY <2>2, <2>3, <2>5 DEF KeepsClear
  <2>8. \A n \in call[c].stale : status[n] = "active" => ends[n] <= clock
    BY <1>1 DEF CallFits, StaleRowsEnded, PremiumTypeOK, CallState
  <2>9. call[c].stale \in SUBSET Members
    BY <1>1 DEF CallState
  <2> QED BY <1>2, <1>4, <2>3, <2>4, <2>6, <2>7, <2>8, <2>9, RowsExpire
<1> QED BY <1>3, <1>4 DEF FindByKey

\* A read expires what it finds ended.
LEMMA ReadExpires ==
    ASSUME IInv, NEW c \in Calls, ReadExpire(c)
    PROVE  IInv'
<1>1. PremiumTypeOK /\ RowsFit /\ CallFits(c) /\ call[c] \in CallState
  BY DEF IInv, PremiumTypeOK
<1>2. call[c].stage = "begun" /\ UNCHANGED <<clock, starts, ends, key>>
      /\ status' = Expired(Stale(call[c].now))
  BY DEF ReadExpire
<1> PICK next : next = [call[c] EXCEPT !.stage = "finding"]
  OBVIOUS
<1>3. next \in CallState
  BY <1>1 DEF CallState, Stages
<1>4. call' = [call EXCEPT ![c] = next] /\ call'[c] = next
      /\ \A d \in Calls : d # c => call'[d] = call[d]
  BY <1>1 DEF ReadExpire, Goto, PremiumTypeOK
<1>5. PremiumTypeOK'
  <2>1. status' \in [Members -> Statuses]
    BY <1>1, <1>2 DEF Expired, PremiumTypeOK, Statuses
  <2> QED BY <1>1, <1>2, <1>3, <1>4, <2>1 DEF PremiumTypeOK
<1>6. CallFits(c)'
  <2>1. \A n \in Members :
          /\ status'[n] = "active" => status[n] = "active"
          /\ status'[n] = "absent" <=> status[n] = "absent"
    BY <1>2 DEF Expired
  <2> QED BY <1>1, <1>2, <1>4, <2>1 DEF CallFits, RowReserved, WillInsert,
          StaleRowsEnded, RowKnown, KeyFound, KeyClash, CallState
<1>7. KeepsClear(c)
  BY <1>1, <1>4 DEF KeepsClear, CallState
<1>8. Stale(call[c].now) \in SUBSET Members
      /\ \A n \in Stale(call[c].now) : ends[n] <= clock
  BY <1>1 DEF Stale, CallFits, PremiumTypeOK, CallState
<1> QED BY <1>2, <1>4, <1>5, <1>6, <1>7, <1>8, RowsExpire

\* A cancellation writes an end that has come, if the dates check lets it.
LEMMA CancelCommits ==
    ASSUME IInv, NEW c \in Calls, CancelCommit(c)
    PROVE  IInv'
<1> DEFINE m == call[c].member
           now == call[c].now
           at == IF now < call[c].found.ends THEN now ELSE call[c].found.ends
<1>1. PremiumTypeOK /\ RowsFit /\ CallFits(c) /\ call[c] \in CallState
  BY DEF IInv, PremiumTypeOK
<1>2. m \in Members /\ status[m] # "absent"
  BY <1>1 DEF CancelCommit, CallFits, RowKnown
<1>3. /\ call' = [call EXCEPT ![c] = IdleCall] /\ call'[c] = IdleCall
      /\ \A d \in Calls : d # c => call'[d] = call[d]
      /\ UNCHANGED <<clock, starts, key>>
  BY <1>1 DEF CancelCommit, End, PremiumTypeOK
<1>4. CASE UNCHANGED <<status, ends>>
  <2>1. CallFits(c)'
    BY <1>3, <1>4 DEF CallFits, RowReserved, WillInsert, StaleRowsEnded,
       RowKnown, KeyFound, IdleCall, IInv, PremiumTypeOK
  <2>2. KeepsClear(c)
    BY <1>3 DEF KeepsClear, IdleCall
  <2> QED BY <1>3, <1>4, <2>1, <2>2, IdleCallState, OneRequestReads DEF rowVars
<1>5. CASE /\ starts[m] < at
           /\ status' = [Expired(call[c].stale) EXCEPT ![m] = "cancelled"]
           /\ ends' = [ends EXCEPT ![m] = at]
  <2>1. at \in Nat /\ at <= clock
    BY <1>1 DEF CallFits, CallState, RowImage, PremiumTypeOK
  <2>2. /\ status' \in [Members -> Statuses] /\ status'[m] = "cancelled"
        /\ \A n \in Members : n # m /\ status'[n] # status[n] =>
              n \in call[c].stale /\ status[n] = "active" /\ status'[n] = "expired"
    BY <1>1, <1>2, <1>5 DEF Expired, PremiumTypeOK, Statuses
  <2>3. /\ ends' \in [Members -> Nat] /\ ends'[m] = at
        /\ \A n \in Members : n # m => ends'[n] = ends[n]
    BY <1>1, <1>2, <1>5, <2>1 DEF PremiumTypeOK
  <2>4. starts[m] < at
    BY <1>5
  <2> HIDE DEF m, now, at
  <2>5. PremiumTypeOK'
    BY <1>1, <1>3, <2>2, <2>3, IdleCallState DEF PremiumTypeOK
  <2>6. \A n \in call[c].stale : status[n] = "active" => ends[n] <= clock
    BY <1>1 DEF CallFits, StaleRowsEnded, PremiumTypeOK, CallState
  <2>7. RowsFit'
    <3>1. \A n \in Members :
            IF status'[n] = "absent" THEN key'[n] = None
            ELSE starts'[n] < ends'[n] /\ starts'[n] <= clock'
      BY <1>1, <1>2, <1>3, <2>2, <2>3, <2>4 DEF RowsFit
    <3>2. AtMostOneActive'
      BY <1>1, <2>2 DEF RowsFit, AtMostOneActive
    <3>3. EndedInThePast'
      BY <1>1, <1>3, <2>1, <2>2, <2>3, <2>4, <2>6, <3>1 DEF RowsFit, EndedInThePast
    <3> QED BY <1>1, <1>3, <3>1, <3>2, <3>3 DEF RowsFit
  <2>8. CallFits(c)'
    BY <2>5, <1>3 DEF CallFits, RowReserved, WillInsert, StaleRowsEnded,
       RowKnown, KeyFound, IdleCall, PremiumTypeOK
  <2>9. RowsEvolve(c)
    BY <1>2, <1>3, <2>2, <2>3 DEF RowsEvolve
  <2>10. KeepsClear(c)
    BY <1>3 DEF KeepsClear, IdleCall
  <2> QED BY <1>3, <2>5, <2>7, <2>8, <2>9, <2>10, OneRequestSteps
<1> QED BY <1>4, <1>5 DEF CancelCommit

\* Time passes: what was past stays past.
LEMMA TimePasses == IInv /\ Tick => IInv'
<1> SUFFICES ASSUME IInv, Tick PROVE IInv'
  OBVIOUS
<1>1. PremiumTypeOK /\ RowsFit
  BY DEF IInv
<1>2. clock' = clock + 1 /\ UNCHANGED <<status, starts, ends, key, call>>
  BY DEF Tick, rowVars
<1>3. PremiumTypeOK'
  BY <1>1, <1>2 DEF PremiumTypeOK
<1>4. RowsFit'
  BY <1>1, <1>2 DEF RowsFit, AtMostOneActive, EndedInThePast, PremiumTypeOK
<1>5. ASSUME NEW c \in Calls PROVE CallFits(c)'
  <2>1. CallFits(c) /\ call[c].now \in Nat /\ clock \in Nat
    BY <1>1 DEF IInv, PremiumTypeOK, CallState
  <2> QED BY <1>2, <2>1 DEF CallFits, RowReserved, WillInsert, StaleRowsEnded,
          RowKnown, KeyFound, KeyClash
<1> QED BY <1>3, <1>4, <1>5 DEF IInv

\* Every step keeps the invariant.
LEMMA NextInvariant == IInv /\ [PremiumNext]_premiumVars => IInv'
<1> SUFFICES ASSUME IInv, [PremiumNext]_premiumVars PROVE IInv'
  OBVIOUS
<1>1. CASE Tick
  BY <1>1, TimePasses
<1>2. ASSUME NEW c \in Calls, CallNext(c) PROVE IInv'
  BY <1>2, ReadingSteps, ActivateCommits, ReplayCommits, ReadExpires, CancelCommits
     DEF CallNext
<1>3. CASE UNCHANGED premiumVars
  BY <1>3 DEF premiumVars, rowVars, IInv, PremiumTypeOK, RowsFit, AtMostOneActive,
     EndedInThePast, CallFits, RowReserved, WillInsert, StaleRowsEnded, RowKnown,
     KeyFound, KeyClash
<1> QED BY <1>1, <1>2, <1>3 DEF PremiumNext

LEMMA Invariance == PremiumSpec => []IInv
  BY InitInvariant, NextInvariant, PTL DEF PremiumSpec

-----------------------------------------------------------------------------
(* What follows for every behaviour.                                       *)

\* Clock, rows and requests always have their types.
THEOREM PremiumTypeCorrect == PremiumSpec => []PremiumTypeOK
<1>1. IInv => PremiumTypeOK
  BY DEF IInv
<1> QED BY <1>1, Invariance, PTL

\* Two activations that both find no active membership never both insert one.
THEOREM OneActive == PremiumSpec => []AtMostOneActive
<1>1. IInv => AtMostOneActive
  BY DEF IInv, RowsFit
<1> QED BY <1>1, Invariance, PTL

\* Whatever request an idempotency key is sent with, the answer is about the
\* same membership.
THEOREM OneMembershipForKey == PremiumSpec => []OneMembershipPerKey
<1>1. IInv => OneMembershipPerKey
  BY DEF IInv, RowsFit, CallFits, RowKnown, OneMembershipPerKey
<1> QED BY <1>1, Invariance, PTL

\* A key that was committed before a retry began is always found by it.
THEOREM RetriesReplay == PremiumSpec => []RetryIsReplayed
<1>1. IInv => RetryIsReplayed
  BY DEF IInv, CallFits, KeyFound, RetryIsReplayed
<1> QED BY <1>1, Invariance, PTL

\* Nobody's membership is taken before its period is over.
THEOREM PeriodsEnd == PremiumSpec => []EndedInThePast
<1>1. IInv => EndedInThePast
  BY DEF IInv, RowsFit
<1> QED BY <1>1, Invariance, PTL

-----------------------------------------------------------------------------
(* The implementation of PremiumLedger.                                    *)

\* Each commit is one of the ledger's operations; the rest is invisible to it.
LEMMA CommitsAreLedgerSteps ==
    ASSUME IInv, NEW c \in Calls, CallNext(c)
    PROVE  [Ledger!LedgerNext]_(Ledger!ledgerVars)
<1>1. PremiumTypeOK /\ RowsFit /\ CallFits(c) /\ call[c] \in CallState
  BY DEF IInv, PremiumTypeOK
<1>2. call[c].now \in Nat /\ call[c].now \in 0 .. clock /\ clock \in Nat
  BY <1>1 DEF CallFits, CallState, PremiumTypeOK
<1>3. ASSUME NEW rows \in SUBSET Members,
             \A n \in rows : status[n] = "active" => ends[n] <= clock
      PROVE  \E over \in SUBSET Ledger!Ended :
               Expired(rows) =
            [n \in Members |-> IF n \in over THEN "expired" ELSE status[n]]
  <2> DEFINE over == {n \in rows : status[n] = "active"}
  <2>1. over \in SUBSET Ledger!Ended
    BY <1>3 DEF Ledger!Ended
  <2>2. Expired(rows) =
            [n \in Members |-> IF n \in over THEN "expired" ELSE status[n]]
    BY DEF Expired
  <2> QED BY <2>1, <2>2
<1>4. call[c].stale \in SUBSET Members
      /\ \A n \in call[c].stale : status[n] = "active" => ends[n] <= clock
  BY <1>1, <1>2 DEF CallFits, StaleRowsEnded, PremiumTypeOK, CallState
<1>5. CASE ActivateCommit(c)
  <2> DEFINE m == call[c].member  now == call[c].now  till == now + call[c].cycle
  <2>1. /\ m \in Members /\ status[m] = "absent" /\ call[c].cycle \in Cycles
        /\ call[c].key \in Keys \cup {None} /\ now < till
    <3>1. m \in Members /\ status[m] = "absent" /\ call[c].cycle \in Cycles
      BY <1>1, <1>5 DEF ActivateCommit, CallFits, RowReserved, WillInsert
    <3>2. call[c].cycle \in Nat /\ call[c].cycle # 0
      BY <3>1, PremiumConstants
    <3> QED BY <1>1, <1>2, <3>1, <3>2 DEF CallState
  <2>2. PICK over \in SUBSET Ledger!Ended :
          Expired(call[c].stale) =
              [n \in Members |-> IF n \in over THEN "expired" ELSE status[n]]
    BY <1>3, <1>4
  <2>3. \A n \in Members : status[n] = "active" => n \in over
    BY <1>5, <2>2 DEF ActivateCommit, ActiveClash
  <2>4. status' = [n \in Members |-> IF n = m THEN "active"
                     ELSE IF n \in over THEN "expired" ELSE status[n]]
    BY <1>5, <2>1, <2>2 DEF ActivateCommit, InsertRow
  <2>5. call[c].key # None => \A n \in Members : key[n] # call[c].key
    BY <1>5 DEF ActivateCommit, KeyClash
  <2>6. /\ starts' = [starts EXCEPT ![m] = now] /\ ends' = [ends EXCEPT ![m] = till]
        /\ key' = [key EXCEPT ![m] = call[c].key] /\ UNCHANGED clock
    BY <1>5 DEF ActivateCommit, InsertRow
  <2>7. now <= clock
    BY <1>2
  <2>8. Ledger!Grant(m, call[c].key, now, till)
    BY <2>1, <2>3, <2>4, <2>5, <2>6, <2>7 DEF Ledger!Grant
  <2>9. \E k \in Keys \cup {None}, from \in 0 .. clock, cycle \in Cycles :
          Ledger!Grant(m, k, from, from + cycle)
    BY <1>2, <2>1, <2>8
  <2> HIDE DEF m
  <2> QED BY <2>1, <2>9 DEF Ledger!LedgerNext
<1>6. CASE CancelCommit(c)
  <2> DEFINE m == call[c].member  now == call[c].now
             at == IF now < call[c].found.ends THEN now ELSE call[c].found.ends
  <2>1. CASE starts[m] < at
    <3>1. m \in Members /\ status[m] # "absent"
      BY <1>1, <1>6 DEF CancelCommit, CallFits, RowKnown
    <3>2. at \in 0 .. clock
      BY <1>1, <1>2 DEF CallState, RowImage
    <3>3. PICK over \in SUBSET Ledger!Ended :
            Expired(call[c].stale) =
              [n \in Members |-> IF n \in over THEN "expired" ELSE status[n]]
      BY <1>3, <1>4
    <3>4. status' = [n \in Members |-> IF n = m THEN "cancelled"
                       ELSE IF n \in over THEN "expired" ELSE status[n]]
      BY <1>6, <2>1, <3>1, <3>3 DEF CancelCommit
    <3>5. ends' = [ends EXCEPT ![m] = at] /\ UNCHANGED <<clock, starts, key>>
      BY <1>6, <2>1 DEF CancelCommit
    <3>6. at <= clock
      BY <1>2, <3>2
    <3>7. Ledger!Cancel(m, at)
      BY <2>1, <3>1, <3>4, <3>5, <3>6 DEF Ledger!Cancel
    <3> HIDE DEF m, at
    <3> QED BY <3>1, <3>2, <3>7 DEF Ledger!LedgerNext
  <2>2. CASE ~(starts[m] < at)
    BY <1>6, <2>2 DEF CancelCommit, Ledger!ledgerVars
  <2> QED BY <2>1, <2>2
<1>7. ASSUME NEW rows \in SUBSET Members,
             \A n \in rows : status[n] = "active" => ends[n] <= clock,
             status' = Expired(rows), UNCHANGED <<clock, starts, ends, key>>
      PROVE  Ledger!LedgerNext
  <2>1. PICK over \in SUBSET Ledger!Ended :
          Expired(rows) =
            [n \in Members |-> IF n \in over THEN "expired" ELSE status[n]]
    BY <1>3, <1>7
  <2>2. Ledger!Expire(over) /\ over \in SUBSET Members
    BY <1>7, <2>1 DEF Ledger!Expire, Ledger!Ended
  <2> QED BY <2>2 DEF Ledger!LedgerNext
<1>8. CASE FindByKey(c)
  BY <1>4, <1>7, <1>8 DEF FindByKey, Ledger!ledgerVars
<1>9. CASE ReadExpire(c)
  <2>1. Stale(call[c].now) \in SUBSET Members
        /\ \A n \in Stale(call[c].now) : ends[n] <= clock
    BY <1>1, <1>2 DEF Stale, PremiumTypeOK
  <2> QED BY <1>7, <1>9, <2>1 DEF ReadExpire
<1>10. ASSUME UNCHANGED <<clock, rowVars>> PROVE UNCHANGED Ledger!ledgerVars
  BY <1>10 DEF rowVars, Ledger!ledgerVars
<1> QED BY <1>5, <1>6, <1>8, <1>9, <1>10 DEF CallNext, Activate, Begin, SweepStale,
        FindActive, ActivateRefused, ReplayAfterClash, FindToCancel, ReadFind, Crash

\* PremiumService keeps the promise of PremiumLedger: every request takes
\* effect at one moment, or not at all.
THEOREM ImplementsTheLedger == PremiumSpec => ImplementsLedger
<1>1. PremiumInit => Ledger!LedgerInit
  BY DEF PremiumInit, Ledger!LedgerInit
<1>2. IInv /\ [PremiumNext]_premiumVars => [Ledger!LedgerNext]_(Ledger!ledgerVars)
  <2> SUFFICES ASSUME IInv, [PremiumNext]_premiumVars
               PROVE  [Ledger!LedgerNext]_(Ledger!ledgerVars)
    OBVIOUS
  <2>1. CASE Tick
    BY <2>1 DEF Tick, rowVars, Ledger!Tick, Ledger!LedgerNext
  <2>2. ASSUME NEW c \in Calls, CallNext(c)
        PROVE  [Ledger!LedgerNext]_(Ledger!ledgerVars)
    BY <2>2, CommitsAreLedgerSteps
  <2>3. CASE UNCHANGED premiumVars
    BY <2>3 DEF premiumVars, rowVars, Ledger!ledgerVars
  <2> QED BY <2>1, <2>2, <2>3 DEF PremiumNext
<1> QED BY <1>1, <1>2, Invariance, PTL DEF PremiumSpec, ImplementsLedger, Ledger!LedgerSpec
=============================================================================
