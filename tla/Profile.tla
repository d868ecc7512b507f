------------------------------ MODULE Profile ------------------------------
(***************************************************************************)
(* The profile of one user: how its row comes to be, what updateMe accepts *)
(* and writes, and what the public profile reads, beside the avatar, whose *)
(* part is the abstract AvatarLifecycle, and the storage of its images.    *)
(*                                                                         *)
(* Abstractions.  lastName, timeZone, gender and bio are overwritten       *)
(* without effect on anything here; a body that is refused for its zone    *)
(* changes nothing; uniqueness of phone and document is the matter of      *)
(* Accounts.  A text is "given", or "blank" and then stored as "".  A      *)
(* coordinate is "exact" as a client sends it and "rounded" as it is       *)
(* stored.  A null is None, a field left out is Absent.  The face service  *)
(* may save vectors and results at any time, so what is under way in the   *)
(* queue makes no difference.                                              *)
(***************************************************************************)
EXTENDS Calendar

CONSTANTS
    Days,           \* bound: the days on which something happens
    Births,         \* birth dates
    West,           \* whether the process runs west of UTC
    Registrations,  \* bodies of register
    Updates,        \* bodies of PATCH profile/me
    Requests,       \* request slots
    Keys,           \* storage keys with the prefix of the user
    None,           \* no value
    Absent          \* a field that a body leaves out

Text == {"given", "blank"}
Coordinates == {"exact", None, Absent}

Row == [phone : {"placeholder", "real"}, firstName : {"given", ""},
        city : {None, "given"}, latitude : {None, "rounded"},
        longitude : {None, "rounded"}, birthDate : Births \cup {None}]

ASSUME ProfileConstants ==
    /\ \A d \in Days \cup Births : IsDate(d)
    /\ West \in BOOLEAN
    /\ Registrations \subseteq
         [phone : {"real"}, firstName : Text, city : Text, birthDate : Births,
          latitude : Coordinates, longitude : Coordinates]
    /\ Updates \subseteq
         [phone : {"real", Absent}, firstName : Text \cup {None, Absent},
          city : Text \cup {None, Absent}, birthDate : Births \cup {None, Absent},
          latitude : Coordinates, longitude : Coordinates]
    /\ None \notin Row /\ None # Absent /\ {None, Absent} \cap (Keys \cup Births) = {}
    /\ {None, Absent} \cap {"given", "blank", "exact", "real"} = {}

VARIABLES
    today,    \* the day in the process's time zone
    row,      \* the columns of users and user_profiles
    object,   \* the objects of the bucket: their upload URL was issued, or they are there
    request,  \* what each request slot is doing
    picture, face, verdict,  \* the avatar, see AvatarLifecycle
    judged    \* history: the avatar that the last verdict was written for

avatarVars == <<picture, face, verdict, judged>>
profileVars == <<today, row, object, request, avatarVars>>

Avatar == INSTANCE AvatarLifecycle WITH
              Validations <- {}, Callbacks <- TRUE, work <- {}

-----------------------------------------------------------------------------
(* Rules of users-profile.util and of the services.                        *)

Trimmed(text) == IF text = "blank" THEN "" ELSE text

\* Mutated: the coordinate is kept as it was sent.
Rounded_Exact(c) == IF c = Absent THEN None ELSE c

\* normalizeApproximateCoordinate.
Rounded(c) == IF c \in {"exact", "rounded"} THEN "rounded" ELSE None

\* assertCoordinatePair.
CoordinatePair(body) == body.latitude # Absent <=> body.longitude # Absent

\* A birth date is midnight UTC, which west of UTC is still the day before.
LocalDay(birth) == IF West THEN Yesterday(birth) ELSE birth

\* isAdultBirthDate.
IsAdult(birth) == Age(LocalDay(birth), today) >= MinimumAge

\* isProfileCompleted.
Completed(r) == r.firstName # "" /\ r.city = "given" /\ r.phone # "placeholder"

\* resolveAvatarVerificationStatus; the vector's timestamp is set with it.
VerificationStatus ==
    CASE picture = None -> "missing_avatar"
      [] picture # None /\ verdict = "match" -> "verified"
      [] picture # None /\ verdict # "match" /\ face = None -> "pending_vectorization"
      [] picture # None /\ verdict = "none" /\ face # None -> "ready_for_validation"
      [] OTHER -> "rejected"

-----------------------------------------------------------------------------

IdleRequest == [stage |-> "idle", body |-> None, status |-> None, shown |-> None,
                judged |-> None, raced |-> FALSE]
RequestState ==
    [stage : {"idle", "checked", "read", "shown"}, body : Updates \cup {None},
     status : {None, "missing_avatar", "pending_vectorization", "ready_for_validation",
               "verified", "rejected"},
     shown : Avatar!Images \cup {None}, judged : Avatar!Images \cup {None},
     raced : BOOLEAN]

ProfileTypeOK ==
    /\ today \in Days /\ row \in Row \cup {None}
    /\ object \in [Keys -> {"none", "issued", "stored"}]
    /\ request \in [Requests -> RequestState]
    /\ picture \in Avatar!Images \cup {None} /\ face \in Avatar!Images \cup {None}
    /\ verdict \in {"none", "match", "mismatch"}
    /\ judged \in Avatar!Images \cup {None}

\* No user yet; picture is the one that a provider may bring along.
ProfileInit ==
    /\ today \in Days /\ row = None
    /\ object = [k \in Keys |-> "none"]
    /\ request = [r \in Requests |-> IdleRequest]
    /\ Avatar!LifecycleInit /\ judged = None

-----------------------------------------------------------------------------
(* How the row comes to be.                                                *)

\* AuthService.register, as far as the profile goes.
Register(body) ==
    /\ row = None /\ picture = None
    /\ IsAdult(body.birthDate)
    /\ CoordinatePair(body)
    /\ body.city # "blank"
    /\ row' = [phone |-> "real", firstName |-> Trimmed(body.firstName),
               city |-> body.city, birthDate |-> body.birthDate,
               latitude |-> Rounded(body.latitude),
               longitude |-> Rounded(body.longitude)]
    /\ UNCHANGED <<today, object, request, avatarVars>>

\* findOrCreateLocalUserFromIdentity: the first login with an identity.
FirstSocialLogin ==
    /\ row = None
    /\ row' = [phone |-> "placeholder", firstName |-> "given", city |-> None,
               birthDate |-> None, latitude |-> None, longitude |-> None]
    /\ UNCHANGED <<today, object, request, avatarVars>>

-----------------------------------------------------------------------------
(* updateMe.                                                               *)

\* Mutated: an empty city is accepted.
Accepted_AnyCity(body) ==
    /\ CoordinatePair(body)
    /\ body.birthDate \notin {Absent, None} => IsAdult(body.birthDate)
    /\ None \notin {body.firstName, body.city}

\* What the checks let through.  A null birth date is the epoch to them; null
\* in a text column ends the request with an error.
Accepted(body) ==
    /\ CoordinatePair(body)
    /\ body.birthDate \notin {Absent, None} => IsAdult(body.birthDate)
    /\ body.city # "blank"
    /\ None \notin {body.firstName, body.city}

\* The columns that the body names, as user.update writes them.
Written(body) ==
    [row EXCEPT
        !.phone = IF body.phone = Absent THEN @ ELSE body.phone,
        !.firstName = IF body.firstName = Absent THEN @ ELSE Trimmed(body.firstName),
        !.city = IF body.city = Absent THEN @ ELSE Trimmed(body.city),
        !.birthDate = IF body.birthDate = Absent THEN @ ELSE body.birthDate,
        !.latitude = IF body.latitude = Absent THEN @ ELSE Rounded(body.latitude),
        !.longitude = IF body.longitude = Absent THEN @ ELSE Rounded(body.longitude)]

CheckUpdate(r, body) ==
    /\ row # None /\ request[r].stage \in {"idle", "shown"}
    /\ Accepted(body)
    /\ request' = [request EXCEPT ![r] = [IdleRequest EXCEPT
                     !.stage = "checked", !.body = body]]
    /\ UNCHANGED <<today, row, object, avatarVars>>

WriteUpdate(r) ==
    /\ request[r].stage = "checked"
    /\ row' = Written(request[r].body)
    /\ request' = [request EXCEPT ![r] = IdleRequest]
    /\ UNCHANGED <<today, object, avatarVars>>

-----------------------------------------------------------------------------
(* getPublicProfile.                                                       *)

\* getUserIdentitySnapshot: the picture and its status from one read.
ReadSnapshot(r) ==
    /\ row # None /\ request[r].stage \in {"idle", "shown"}
    /\ request' = [request EXCEPT ![r] = [IdleRequest EXCEPT
                     !.stage = "read", !.status = VerificationStatus,
                     !.shown = picture, !.judged = judged]]
    /\ UNCHANGED <<today, row, object, avatarVars>>

\* The storage key is read once more, and its image shown; where it cannot be
\* signed, the picture of the snapshot is.
ReadStorageKey(r) ==
    /\ request[r].stage = "read"
    /\ \E p \in {request[r].shown} \cup ({picture} \cap Keys) :
          request' = [request EXCEPT ![r].stage = "shown", ![r].shown = p]
    /\ UNCHANGED <<today, row, object, avatarVars>>

-----------------------------------------------------------------------------
(* The avatar and its storage.                                             *)

\* UsersAvatarService.createUploadUrl: a new key.
CreateUploadUrl(k) ==
    /\ row # None /\ object[k] = "none"
    /\ object' = [object EXCEPT ![k] = "issued"]
    /\ UNCHANGED <<today, row, request, avatarVars>>

\* The client uploads to the signed URL.
PutObject(k) ==
    /\ object[k] = "issued"
    /\ object' = [object EXCEPT ![k] = "stored"]
    /\ UNCHANGED <<today, row, request, avatarVars>>

\* Mutated: the verdict on the old avatar stays.
ConfirmUpload_KeepsVerdict(k) ==
    /\ object[k] = "stored"
    /\ picture' = k /\ face' = None
    /\ judged' = IF judged = k THEN None ELSE judged
    /\ request' = [r \in Requests |->
         IF request[r].stage = "read" THEN [request[r] EXCEPT !.raced = TRUE]
         ELSE request[r]]
    /\ UNCHANGED <<today, row, object, verdict>>

\* UsersAvatarService.confirmUpload: an object of the user that is there.
ConfirmUpload(k) ==
    /\ object[k] = "stored"
    /\ Avatar!Upload(k)
    /\ judged' = IF judged = k THEN None ELSE judged
    /\ request' = [r \in Requests |->
         IF request[r].stage = "read" THEN [request[r] EXCEPT !.raced = TRUE]
         ELSE request[r]]
    /\ UNCHANGED <<today, row, object>>

SaveVector(i) ==
    /\ row # None
    /\ Avatar!Learn(i)
    /\ UNCHANGED <<today, row, object, request, judged>>

SaveResult(match) ==
    /\ row # None
    /\ Avatar!Judge(match)
    /\ judged' = picture
    /\ UNCHANGED <<today, row, object, request>>

\* Time goes on to a later day.
NextDay ==
    /\ \E d \in Days : today # d /\ NotAfter(today, d) /\ today' = d
    /\ UNCHANGED <<row, object, request, avatarVars>>

-----------------------------------------------------------------------------

ProfileNext ==
    \/ \E body \in Registrations : Register(body)
    \/ FirstSocialLogin
    \/ \E r \in Requests :
          \/ \E body \in Updates : CheckUpdate(r, body)
          \/ WriteUpdate(r) \/ ReadSnapshot(r) \/ ReadStorageKey(r)
    \/ \E k \in Keys : CreateUploadUrl(k) \/ PutObject(k) \/ ConfirmUpload(k)
    \/ \E i \in Avatar!Images : SaveVector(i)
    \/ \E match \in BOOLEAN : SaveResult(match)
    \/ NextDay

ProfileSpec == ProfileInit /\ [][ProfileNext]_profileVars

-----------------------------------------------------------------------------
(* Properties.                                                             *)

\* Whoever has a birth date in the profile is 18, or will be within two days:
\* west of UTC the date counts from the evening before, and the day before
\* 1 March may be 28 February in the year of birth and 29 February 18 years on.
\* (isAdultBirthDate, against the day of the 18th birthday)
BirthDatesAreAdult ==
    row # None /\ row.birthDate # None =>
        NotAfter(AddYears(row.birthDate, MinimumAge),
                 IF West THEN Tomorrow(Tomorrow(today)) ELSE today)

\* A membership that begins today lasts as many days as this month has, half a
\* year or a year; one that begins tomorrow ends at most two days before it.
\* (calculateEndsAt at the ends of months)
PeriodsFitTheCalendar == PeriodsFit(today)

\* A public profile shows no picture with the verdict on another one, unless an
\* upload was confirmed between its two reads.
ShownVerdictIsOfPicture ==
    \A r \in Requests :
        /\ request[r].stage = "shown" /\ ~request[r].raced
        /\ request[r].status \in {"verified", "rejected"}
        => request[r].shown = request[r].judged

\* A completed profile is made incomplete only by a first name of blanks.
CompletedStaysCompleted ==
    [][row # None /\ Completed(row) /\ ~Completed(row') => row'.firstName = ""]_profileVars

\* docs/catalog-signals-contract.md: coordinates "when present ... must be sent as
\* a complete latitude/longitude pair": the profile never has one without the other.
CoordinatesArePair ==
    row # None => (row.latitude = None <=> row.longitude = None)

=============================================================================
