--------------------------- MODULE Profile_proofs ---------------------------
(***************************************************************************)
(* Type correctness of Profile, its invariants and its action property.    *)
(* Adulthood rests on the checked bodies: what a request carries past its  *)
(* check is still adult when it is written, since nobody becomes younger.  *)
(***************************************************************************)
EXTENDS Profile, Calendar_proofs

\* What a request that has passed its checks carries.
CheckedBodies ==
    \A r \in Requests : request[r].stage = "checked" =>
        row \in Row /\ request[r].body \in Updates /\ Accepted(request[r].body)

RowIsAdult == row \in Row /\ row.birthDate # None => IsAdult(row.birthDate)

\* The verdict is on the picture there is, and so is one that was read with it.
VerdictsAreJudged ==
    /\ verdict # "none" => judged = picture
    /\ \A r \in Requests :
          request[r].status \in {"verified", "rejected"} /\ ~request[r].raced =>
             /\ request[r].stage = "read" =>
                   request[r].shown = request[r].judged /\ request[r].shown = picture
             /\ request[r].stage = "shown" => request[r].shown = request[r].judged

ProfileInv == ProfileTypeOK /\ CheckedBodies /\ RowIsAdult /\ VerdictsAreJudged

-----------------------------------------------------------------------------

LEMMA BirthsAreDates ==
    ASSUME NEW b \in Births
    PROVE  /\ IsDate(b) /\ b # None /\ b # Absent
           /\ LocalDay(b).year \in Int /\ LocalDay(b).month \in Int /\ LocalDay(b).day \in Int
<1>1. IsDate(b) /\ b # None /\ b # Absent
  BY ProfileConstants
<1>2. b.year \in Int /\ b.month \in Int /\ b.day \in Int
  BY <1>1, DatesAreTyped
<1>3. Yesterday(b).year \in Int /\ Yesterday(b).month \in Int /\ Yesterday(b).day \in Int
  BY <1>1, YesterdayTyped
<1> QED
  BY <1>1, <1>2, <1>3 DEF LocalDay

\* A body that is accepted gives a row that is well formed, and completed unless
\* its first name is blank.
LEMMA WrittenRows ==
    ASSUME row \in Row, NEW body \in Updates, Accepted(body)
    PROVE  /\ Written(body) \in Row
           /\ Written(body).birthDate = IF body.birthDate = Absent THEN row.birthDate
                                        ELSE body.birthDate
           /\ Completed(row) /\ ~Completed(Written(body)) => Written(body).firstName = ""
<1> DEFINE w == Written(body)
<1>1. /\ body \in [phone : {"real", Absent}, firstName : Text \cup {None, Absent},
                   city : Text \cup {None, Absent}, birthDate : Births \cup {None, Absent},
                   latitude : Coordinates, longitude : Coordinates]
      /\ None # Absent /\ {None, Absent} \cap {"given", "blank", "exact", "real"} = {}
  BY ProfileConstants
<1>2. /\ body.phone \in {"real", Absent} /\ body.firstName \in {"given", "blank", Absent}
      /\ body.city \in {"given", Absent} /\ body.birthDate \in Births \cup {None, Absent}
  BY <1>1 DEF Accepted, Text
<1> DEFINE
      phone == IF body.phone = Absent THEN row.phone ELSE body.phone
      first == IF body.firstName = Absent THEN row.firstName ELSE Trimmed(body.firstName)
      city == IF body.city = Absent THEN row.city ELSE Trimmed(body.city)
      birth == IF body.birthDate = Absent THEN row.birthDate ELSE body.birthDate
      north == IF body.latitude = Absent THEN row.latitude ELSE Rounded(body.latitude)
      east == IF body.longitude = Absent THEN row.longitude ELSE Rounded(body.longitude)
<1>3. w = [row EXCEPT !.phone = phone, !.firstName = first, !.city = city,
                      !.birthDate = birth, !.latitude = north, !.longitude = east]
  BY Zenon DEF Written
<1>4. /\ row.phone \in {"placeholder", "real"} /\ row.firstName \in {"given", ""}
      /\ row.city \in {None, "given"} /\ row.latitude \in {None, "rounded"}
      /\ row.longitude \in {None, "rounded"} /\ row.birthDate \in Births \cup {None}
  BY DEF Row
<1>5. phone \in {row.phone, "real"}
  BY <1>2
<1>6. first \in {row.firstName, "given", ""}
  BY <1>2 DEF Trimmed
<1>7. city \in {row.city, "given"}
  BY <1>2 DEF Trimmed
<1>8. birth \in Births \cup {None}
  BY <1>2, <1>4
<1>9. north \in {None, "rounded"} /\ east \in {None, "rounded"}
  BY <1>4 DEF Rounded
<1> HIDE DEF w, phone, first, city, birth, north, east
<1>10. /\ w \in Row /\ w.phone = phone /\ w.firstName = first /\ w.city = city
       /\ w.birthDate = birth
  BY <1>3, <1>4, <1>5, <1>6, <1>7, <1>8, <1>9 DEF Row
<1>11. Completed(row) /\ ~Completed(w) => w.firstName = ""
  BY <1>5, <1>6, <1>7, <1>10 DEF Completed
<1> QED
  BY <1>10, <1>11, Zenon DEF w, birth

\* A status that tells of a verdict is read from one.
LEMMA StatusTellsOfVerdict ==
    ASSUME verdict \in {"none", "match", "mismatch"}
    PROVE  /\ VerificationStatus \in {"missing_avatar", "pending_vectorization",
                                      "ready_for_validation", "verified", "rejected"}
           /\ VerificationStatus \in {"verified", "rejected"} => verdict # "none"
<1>1. CASE picture = None
  BY <1>1 DEF VerificationStatus
<1>2. CASE picture # None /\ verdict = "match"
  BY <1>2 DEF VerificationStatus
<1>3. CASE picture # None /\ verdict # "match" /\ face = None
  BY <1>3 DEF VerificationStatus
<1>4. CASE picture # None /\ verdict = "none" /\ face # None
  BY <1>4 DEF VerificationStatus
<1>5. CASE picture # None /\ verdict = "mismatch" /\ face # None
  BY <1>5 DEF VerificationStatus
<1> QED
  BY <1>1, <1>2, <1>3, <1>4, <1>5
-----------------------------------------------------------------------------

LEMMA RequestsTyped ==
    ASSUME ProfileTypeOK, NEW r \in Requests
    PROVE  /\ request \in [Requests -> RequestState] /\ request[r] \in RequestState
           /\ IdleRequest \in RequestState
           /\ IdleRequest.stage = "idle" /\ IdleRequest.status = None
           /\ IdleRequest.raced = FALSE
BY DEF ProfileTypeOK, RequestState, IdleRequest

LEMMA InitInv == ProfileInit => ProfileInv
<1> SUFFICES ASSUME ProfileInit PROVE ProfileInv
  OBVIOUS
<1>1. ProfileTypeOK
  <2>1. IdleRequest \in RequestState
    BY DEF IdleRequest, RequestState
  <2> QED
    BY <2>1 DEF ProfileInit, ProfileTypeOK, Avatar!LifecycleInit, Avatar!Images
<1>2. \A r \in Requests : request[r].stage = "idle"
  BY DEF ProfileInit, IdleRequest
<1> QED
  BY <1>1, <1>2, ProfileConstants DEF ProfileInit, ProfileInv, CheckedBodies, RowIsAdult, VerdictsAreJudged,
                    Avatar!LifecycleInit

\* The row that register writes.
LEMMA RegisterKeeps ==
    ASSUME ProfileInv, NEW body \in Registrations, Register(body)
    PROVE  ProfileInv'
<1>1. /\ body \in [phone : {"real"}, firstName : Text, city : Text, birthDate : Births,
                   latitude : Coordinates, longitude : Coordinates]
  BY ProfileConstants
<1>2. /\ Trimmed(body.firstName) \in {"given", ""} /\ body.city = "given"
      /\ body.birthDate \in Births
      /\ Rounded(body.latitude) \in {None, "rounded"}
      /\ Rounded(body.longitude) \in {None, "rounded"}
  BY <1>1 DEF Register, Trimmed, Text, Rounded
<1>3. row' \in Row /\ row'.birthDate = body.birthDate
  BY <1>2 DEF Register, Row
<1>4. ProfileTypeOK'
  BY <1>3 DEF ProfileInv, ProfileTypeOK, Register, avatarVars
<1>5. CheckedBodies'
  BY <1>3 DEF ProfileInv, CheckedBodies, Register, Accepted, IsAdult
<1>6. RowIsAdult'
  BY <1>3 DEF RowIsAdult, Register, IsAdult
<1>7. VerdictsAreJudged'
  BY DEF ProfileInv, VerdictsAreJudged, Register, avatarVars
<1> QED
  BY <1>4, <1>5, <1>6, <1>7 DEF ProfileInv

LEMMA FirstLoginKeeps ==
    ASSUME ProfileInv, FirstSocialLogin
    PROVE  ProfileInv'
<1>1. row' \in Row /\ row'.birthDate = None
  BY DEF FirstSocialLogin, Row
<1> QED
  BY <1>1 DEF ProfileInv, ProfileTypeOK, CheckedBodies, RowIsAdult, VerdictsAreJudged,
              FirstSocialLogin, avatarVars, Accepted, IsAdult

\* The check leaves an accepted body to be written.
LEMMA CheckKeeps ==
    ASSUME ProfileInv, NEW r \in Requests, NEW body \in Updates, CheckUpdate(r, body)
    PROVE  ProfileInv'
<1> DEFINE q == [IdleRequest EXCEPT !.stage = "checked", !.body = body]
<1>1. request' = [request EXCEPT ![r] = q] /\ UNCHANGED <<today, row, object, avatarVars>>
  BY DEF CheckUpdate
<1>2. q \in RequestState /\ q.stage = "checked" /\ q.body = body
  BY RequestsTyped DEF IdleRequest, RequestState, ProfileInv
<1> HIDE DEF q
<1>3. /\ request' \in [Requests -> RequestState] /\ request'[r] = q
      /\ \A s \in Requests : s # r => request'[s] = request[s]
  BY <1>1, <1>2 DEF ProfileInv, ProfileTypeOK
<1>4. ProfileTypeOK'
  BY <1>1, <1>3 DEF ProfileInv, ProfileTypeOK, avatarVars
<1>5. CheckedBodies'
  BY <1>1, <1>2, <1>3 DEF ProfileInv, ProfileTypeOK, CheckedBodies, CheckUpdate, Accepted,
                          IsAdult, CoordinatePair
<1>6. RowIsAdult'
  BY <1>1 DEF ProfileInv, RowIsAdult, IsAdult
<1>7. VerdictsAreJudged'
  BY <1>1, <1>2, <1>3 DEF ProfileInv, VerdictsAreJudged, avatarVars
<1> QED
  BY <1>4, <1>5, <1>6, <1>7 DEF ProfileInv

\* What is written was accepted, and is accepted still.
LEMMA WriteKeeps ==
    ASSUME ProfileInv, NEW r \in Requests, WriteUpdate(r)
    PROVE  ProfileInv'
<1> DEFINE body == request[r].body
<1>1. /\ row' = Written(body) /\ request' = [request EXCEPT ![r] = IdleRequest]
      /\ UNCHANGED <<today, object, avatarVars>>
  BY DEF WriteUpdate
<1>2. row \in Row /\ body \in Updates /\ Accepted(body)
  BY DEF ProfileInv, ProfileTypeOK, CheckedBodies, WriteUpdate
<1>3. /\ row' \in Row
      /\ row'.birthDate = IF body.birthDate = Absent THEN row.birthDate ELSE body.birthDate
  BY <1>1, <1>2, WrittenRows
<1>4. /\ request' \in [Requests -> RequestState] /\ request'[r] = IdleRequest
      /\ \A s \in Requests : s # r => request'[s] = request[s]
  BY <1>1, RequestsTyped DEF ProfileInv, ProfileTypeOK
<1>5. ProfileTypeOK'
  BY <1>1, <1>3, <1>4 DEF ProfileInv, ProfileTypeOK, avatarVars
<1>6. CheckedBodies'
  BY <1>1, <1>3, <1>4 DEF ProfileInv, CheckedBodies, Accepted, IsAdult, IdleRequest
<1>7. RowIsAdult'
  BY <1>1, <1>2, <1>3 DEF ProfileInv, RowIsAdult, Accepted, IsAdult, Row
<1>8. VerdictsAreJudged'
  BY <1>1, <1>4 DEF ProfileInv, VerdictsAreJudged, avatarVars, IdleRequest
<1> QED
  BY <1>5, <1>6, <1>7, <1>8 DEF ProfileInv

\* The snapshot takes the picture together with the verdict on it.
LEMMA SnapshotKeeps ==
    ASSUME ProfileInv, NEW r \in Requests, ReadSnapshot(r)
    PROVE  ProfileInv'
<1> DEFINE q == [IdleRequest EXCEPT !.stage = "read", !.status = VerificationStatus,
                                    !.shown = picture, !.judged = judged]
<1>1. request' = [request EXCEPT ![r] = q] /\ UNCHANGED <<today, row, object, avatarVars>>
  BY DEF ReadSnapshot
<1>2. /\ VerificationStatus \in {"missing_avatar", "pending_vectorization",
                                 "ready_for_validation", "verified", "rejected"}
      /\ VerificationStatus \in {"verified", "rejected"} => verdict # "none"
  BY StatusTellsOfVerdict DEF ProfileInv, ProfileTypeOK
<1>3. /\ q \in RequestState /\ q.stage = "read" /\ q.status = VerificationStatus
      /\ q.shown = picture /\ q.judged = judged
  BY <1>2, RequestsTyped DEF IdleRequest, RequestState, ProfileInv, ProfileTypeOK
<1> HIDE DEF q
<1>4. /\ request' \in [Requests -> RequestState] /\ request'[r] = q
      /\ \A s \in Requests : s # r => request'[s] = request[s]
  BY <1>1, <1>3 DEF ProfileInv, ProfileTypeOK
<1>5. ProfileTypeOK'
  BY <1>1, <1>4 DEF ProfileInv, ProfileTypeOK, avatarVars
<1>6. CheckedBodies'
  BY <1>1, <1>3, <1>4 DEF ProfileInv, CheckedBodies, Accepted, IsAdult
<1>7. RowIsAdult'
  BY <1>1 DEF ProfileInv, RowIsAdult, IsAdult
<1>8. VerdictsAreJudged'
  BY <1>1, <1>2, <1>3, <1>4 DEF ProfileInv, VerdictsAreJudged, avatarVars
<1> QED
  BY <1>5, <1>6, <1>7, <1>8 DEF ProfileInv

\* Unless an upload came between, the second read finds the same picture.
LEMMA StorageKeyKeeps ==
    ASSUME ProfileInv, NEW r \in Requests, ReadStorageKey(r)
    PROVE  ProfileInv'
<1>1. PICK p \in {request[r].shown} \cup ({picture} \cap Keys) :
        request' = [request EXCEPT ![r].stage = "shown", ![r].shown = p]
  BY DEF ReadStorageKey
<1>2. UNCHANGED <<today, row, object, avatarVars>> /\ request[r].stage = "read"
  BY DEF ReadStorageKey
<1>3. /\ request[r] \in RequestState /\ request \in [Requests -> RequestState]
      /\ p \in Avatar!Images \cup {None}
  BY RequestsTyped DEF ProfileInv, RequestState, Avatar!Images
<1> DEFINE q == [request[r] EXCEPT !.stage = "shown", !.shown = p]
<1>4. /\ q \in RequestState /\ q.stage = "shown" /\ q.status = request[r].status
      /\ q.shown = p /\ q.judged = request[r].judged /\ q.raced = request[r].raced
  BY <1>3 DEF RequestState
<1>5. request' = [request EXCEPT ![r] = q]
  BY <1>1, <1>3
<1> HIDE DEF q
<1>6. /\ request' \in [Requests -> RequestState] /\ request'[r] = q
      /\ \A s \in Requests : s # r => request'[s] = request[s]
  BY <1>3, <1>4, <1>5
<1>7. ProfileTypeOK'
  BY <1>2, <1>6 DEF ProfileInv, ProfileTypeOK, avatarVars
<1>8. CheckedBodies'
  BY <1>2, <1>4, <1>6 DEF ProfileInv, CheckedBodies, Accepted, IsAdult
<1>9. RowIsAdult'
  BY <1>2 DEF ProfileInv, RowIsAdult, IsAdult
<1>10. VerdictsAreJudged'
  BY <1>1, <1>2, <1>4, <1>6 DEF ProfileInv, VerdictsAreJudged, avatarVars
<1> QED
  BY <1>7, <1>8, <1>9, <1>10 DEF ProfileInv

LEMMA StorageKeeps ==
    ASSUME ProfileInv, NEW k \in Keys, CreateUploadUrl(k) \/ PutObject(k)
    PROVE  ProfileInv'
<1>1. /\ object' \in [Keys -> {"none", "issued", "stored"}]
      /\ UNCHANGED <<today, row, request, avatarVars>>
  BY DEF ProfileInv, ProfileTypeOK, CreateUploadUrl, PutObject
<1> QED
  BY <1>1 DEF ProfileInv, ProfileTypeOK, CheckedBodies, RowIsAdult, VerdictsAreJudged,
              avatarVars, Accepted, IsAdult

\* An upload leaves no verdict, and marks the requests that read before it.
LEMMA ConfirmKeeps ==
    ASSUME ProfileInv, NEW k \in Keys, ConfirmUpload(k)
    PROVE  ProfileInv'
<1>1. /\ picture' = k /\ face' = None /\ verdict' = "none"
      /\ judged' \in {judged, None}
      /\ UNCHANGED <<today, row, object>>
  BY DEF ConfirmUpload, Avatar!Upload
<1>2. request' = [r \in Requests |->
         IF request[r].stage = "read" THEN [request[r] EXCEPT !.raced = TRUE]
         ELSE request[r]]
  BY DEF ConfirmUpload
<1>3. \A r \in Requests :
        /\ request'[r] \in RequestState
        /\ request'[r].stage = request[r].stage /\ request'[r].body = request[r].body
        /\ request'[r].status = request[r].status /\ request'[r].shown = request[r].shown
        /\ request'[r].judged = request[r].judged
        /\ request'[r].raced = (request[r].raced \/ request[r].stage = "read")
  <2> TAKE r \in Requests
  <2>1. request[r] \in RequestState
    BY RequestsTyped DEF ProfileInv
  <2>2. CASE request[r].stage = "read"
    BY <1>2, <2>1, <2>2 DEF RequestState
  <2>3. CASE request[r].stage # "read"
    BY <1>2, <2>1, <2>3 DEF RequestState
  <2> QED
    BY <2>2, <2>3
<1>4. ProfileTypeOK'
  BY <1>1, <1>2, <1>3 DEF ProfileInv, ProfileTypeOK, Avatar!Images
<1>5. CheckedBodies'
  BY <1>1, <1>3 DEF ProfileInv, CheckedBodies, Accepted, IsAdult
<1>6. RowIsAdult'
  BY <1>1 DEF ProfileInv, RowIsAdult, IsAdult
<1>7. VerdictsAreJudged'
  BY <1>1, <1>3 DEF ProfileInv, VerdictsAreJudged
<1> QED
  BY <1>4, <1>5, <1>6, <1>7 DEF ProfileInv

LEMMA FaceServiceKeeps ==
    ASSUME ProfileInv,
           \/ \E i \in Avatar!Images : SaveVector(i)
           \/ \E match \in BOOLEAN : SaveResult(match)
    PROVE  ProfileInv'
<1>1. CASE \E i \in Avatar!Images : SaveVector(i)
  BY <1>1 DEF ProfileInv, ProfileTypeOK, CheckedBodies, RowIsAdult, VerdictsAreJudged,
              SaveVector, Avatar!Learn, Accepted, IsAdult
<1>2. CASE \E match \in BOOLEAN : SaveResult(match)
  BY <1>2 DEF ProfileInv, ProfileTypeOK, CheckedBodies, RowIsAdult, VerdictsAreJudged,
              SaveResult, Avatar!Judge, Accepted, IsAdult
<1> QED
  BY <1>1, <1>2

\* Who is adult today is adult on every later day.
LEMMA NextDayKeeps ==
    ASSUME ProfileInv, NextDay
    PROVE  ProfileInv'
<1>1. /\ today \in Days /\ today' \in Days /\ NotAfter(today, today')
      /\ UNCHANGED <<row, object, request, avatarVars>>
  BY DEF ProfileInv, ProfileTypeOK, NextDay
<1>2. IsDate(today) /\ IsDate(today')
  BY <1>1, ProfileConstants
<1>3. ASSUME NEW b \in Births, IsAdult(b)
      PROVE  Age(LocalDay(b), today') >= MinimumAge
  <2>1. Age(LocalDay(b), today) <= Age(LocalDay(b), today')
    BY <1>1, <1>2, BirthsAreDates, AgeGrows
  <2>2. Age(LocalDay(b), today) \in Int /\ Age(LocalDay(b), today') \in Int
    BY <1>2, BirthsAreDates, DatesAreTyped DEF Age
  <2> QED
    BY <1>3, <2>1, <2>2 DEF IsAdult, MinimumAge
<1>4. ProfileTypeOK'
  BY <1>1 DEF ProfileInv, ProfileTypeOK, avatarVars
<1>5. CheckedBodies'
  <2>1. ASSUME NEW r \in Requests, request[r].stage = "checked"
        PROVE  /\ row \in Row /\ request[r].body \in Updates /\ Accepted(request[r].body)
               /\ request[r].body.birthDate \notin {Absent, None} =>
                     Age(LocalDay(request[r].body.birthDate), today') >= MinimumAge
    <3> DEFINE body == request[r].body
    <3>1. row \in Row /\ body \in Updates /\ Accepted(body)
      BY <2>1 DEF ProfileInv, CheckedBodies
    <3>2. body.birthDate \in Births \cup {None, Absent}
      BY <3>1, ProfileConstants
    <3>3. body.birthDate \notin {Absent, None} => IsAdult(body.birthDate)
      BY <3>1 DEF Accepted
    <3> HIDE DEF body
    <3>4. body.birthDate \notin {Absent, None} =>
             Age(LocalDay(body.birthDate), today') >= MinimumAge
      BY <1>3, <3>2, <3>3
    <3> QED
      BY <3>1, <3>4 DEF body
  <2> QED
    BY <1>1, <2>1 DEF CheckedBodies, Accepted, IsAdult
<1>6. RowIsAdult'
  BY <1>1, <1>3 DEF ProfileInv, ProfileTypeOK, RowIsAdult, IsAdult, Row
<1>7. VerdictsAreJudged'
  BY <1>1 DEF ProfileInv, VerdictsAreJudged, avatarVars
<1> QED
  BY <1>4, <1>5, <1>6, <1>7 DEF ProfileInv

-----------------------------------------------------------------------------

LEMMA NextKeeps == ProfileInv /\ [ProfileNext]_profileVars => ProfileInv'
<1> SUFFICES ASSUME ProfileInv, [ProfileNext]_profileVars PROVE ProfileInv'
  OBVIOUS
<1>1. CASE \E body \in Registrations : Register(body)
  BY <1>1, RegisterKeeps
<1>2. CASE FirstSocialLogin
  BY <1>2, FirstLoginKeeps
<1>3. CASE \E r \in Requests, body \in Updates : CheckUpdate(r, body)
  BY <1>3, CheckKeeps
<1>4. CASE \E r \in Requests : WriteUpdate(r)
  BY <1>4, WriteKeeps
<1>5. CASE \E r \in Requests : ReadSnapshot(r)
  BY <1>5, SnapshotKeeps
<1>6. CASE \E r \in Requests : ReadStorageKey(r)
  BY <1>6, StorageKeyKeeps
<1>7. CASE \E k \in Keys : CreateUploadUrl(k) \/ PutObject(k)
  BY <1>7, StorageKeeps
<1>8. CASE \E k \in Keys : ConfirmUpload(k)
  BY <1>8, ConfirmKeeps
<1>9. CASE \/ \E i \in Avatar!Images : SaveVector(i)
           \/ \E match \in BOOLEAN : SaveResult(match)
  BY <1>9, FaceServiceKeeps
<1>10. CASE NextDay
  BY <1>10, NextDayKeeps
<1>11. CASE UNCHANGED profileVars
  BY <1>11 DEF ProfileInv, ProfileTypeOK, CheckedBodies, RowIsAdult, VerdictsAreJudged,
               profileVars, avatarVars, Accepted, IsAdult
<1> QED
  BY <1>1, <1>2, <1>3, <1>4, <1>5, <1>6, <1>7, <1>8, <1>9, <1>10, <1>11 DEF ProfileNext

LEMMA ProfileSafe == ProfileSpec => []ProfileInv
  BY InitInv, NextKeeps, PTL DEF ProfileSpec

\* A row, its requests and its avatar are always well formed: what updateMe lets
\* through never stores a blank city or a coordinate as it was sent.
THEOREM ProfileTyped == ProfileSpec => []ProfileTypeOK
<1>1. ProfileInv => ProfileTypeOK
  BY DEF ProfileInv
<1> QED
  BY <1>1, ProfileSafe, PTL

\* Whatever birth dates are sent, on whatever days, whoever has one in the profile
\* is 18 or will be within two days, although the day goes on between the check
\* and the write (isAdultBirthDate).
THEOREM ProfilesAreAdult == ProfileSpec => []BirthDatesAreAdult
<1>1. ASSUME ProfileInv PROVE BirthDatesAreAdult
  <2> SUFFICES ASSUME row # None, row.birthDate # None
               PROVE  NotAfter(AddYears(row.birthDate, MinimumAge),
                               IF West THEN Tomorrow(Tomorrow(today)) ELSE today)
    BY DEF BirthDatesAreAdult
  <2> DEFINE b == row.birthDate
  <2>1. b \in Births /\ today \in Days
    BY <1>1 DEF ProfileInv, ProfileTypeOK, Row
  <2>2. IsDate(b) /\ IsDate(today)
    BY <2>1, ProfileConstants
  <2>3. Age(LocalDay(b), today) >= MinimumAge
    BY <1>1 DEF ProfileInv, ProfileTypeOK, RowIsAdult, IsAdult
  <2> HIDE DEF b
  <2>4. CASE West
    <3>1. Age(Yesterday(b), today) >= MinimumAge
      BY <2>3, <2>4 DEF LocalDay
    <3> QED
      BY <2>2, <2>4, <3>1, AdultsWithinTwoDays DEF b
  <2>5. CASE ~West
    <3>1. Age(b, today) >= MinimumAge
      BY <2>3, <2>5 DEF LocalDay
    <3> QED
      BY <2>2, <2>5, <3>1, AdultsHadTheirBirthday DEF b
  <2> QED
    BY <2>4, <2>5
<1> QED
  BY <1>1, ProfileSafe, PTL

\* On every day of every calendar a membership has its length (calculateEndsAt).
THEOREM PeriodsAlwaysFit == ProfileSpec => []PeriodsFitTheCalendar
<1>1. ASSUME ProfileInv PROVE PeriodsFitTheCalendar
  <2>1. IsDate(today)
    BY <1>1, ProfileConstants DEF ProfileInv, ProfileTypeOK
  <2> QED
    BY <2>1, PeriodsFitEveryDate DEF PeriodsFitTheCalendar
<1> QED
  BY <1>1, ProfileSafe, PTL

\* However requests, uploads and the face service interleave, a public profile shows
\* no picture with the verdict on another one, unless an upload was confirmed
\* between its two reads (getPublicProfile).
THEOREM VerdictsAreOfPictures == ProfileSpec => []ShownVerdictIsOfPicture
<1>1. ProfileInv => ShownVerdictIsOfPicture
  BY DEF ProfileInv, VerdictsAreJudged, ShownVerdictIsOfPicture
<1> QED
  BY <1>1, ProfileSafe, PTL

\* No update makes a completed profile incomplete but by a first name of blanks
\* (updateMe, isProfileCompleted).
THEOREM CompletedStays == ProfileSpec => CompletedStaysCompleted
<1>1. ASSUME ProfileInv, [ProfileNext]_profileVars
      PROVE  row # None /\ Completed(row) /\ ~Completed(row') => row'.firstName = ""
  <2>1. CASE \E r \in Requests : WriteUpdate(r)
    <3>1. PICK r \in Requests : WriteUpdate(r)
      BY <2>1
    <3>2. row \in Row /\ request[r].body \in Updates /\ Accepted(request[r].body)
      BY <1>1, <3>1 DEF ProfileInv, CheckedBodies, WriteUpdate
    <3> QED
      BY <3>1, <3>2, WrittenRows DEF WriteUpdate
  <2>2. CASE ~(\E r \in Requests : WriteUpdate(r))
    <3>1. row = None \/ row' = row
      BY <1>1, <2>2 DEF ProfileNext, profileVars, Register, FirstSocialLogin, CheckUpdate,
                        ReadSnapshot, ReadStorageKey, CreateUploadUrl, PutObject,
                        ConfirmUpload, SaveVector, SaveResult, NextDay
    <3> QED
      BY <3>1
  <2> QED
    BY <2>1, <2>2
<1>2. [][ProfileNext]_profileVars /\ []ProfileInv => CompletedStaysCompleted
  BY <1>1, PTL DEF CompletedStaysCompleted
<1> QED
  BY <1>2, ProfileSafe, PTL DEF ProfileSpec
=============================================================================
