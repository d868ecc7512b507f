-------------------------- MODULE AvatarLifecycle --------------------------
(***************************************************************************)
(* What the avatar of a user goes through, whatever statements, retries    *)
(* and failures it takes: it is uploaded, a face is learnt, it is judged.  *)
(* Work in the background may learn a face or judge, and only while it is  *)
(* under way; where the face service has its endpoints (Callbacks), it may *)
(* do either at any time.                                                  *)
(***************************************************************************)
CONSTANTS
    Keys,         \* uploaded images; each also names the work of vectorising it
    Validations,  \* names of validations
    Callbacks,    \* whether the face service may write on its own
    None          \* no value

VARIABLES
    picture,  \* the avatar
    face,     \* the image that the known face was computed from
    verdict,  \* "none", "match" or "mismatch"
    work      \* what is under way

lifecycleVars == <<picture, face, verdict, work>>

Images == Keys \cup {"picture"}

LifecycleInit ==
    /\ picture \in {None, "picture"}
    /\ face = None /\ verdict = "none" /\ work = {}

\* A new picture inherits nothing that was known of the one before.
Upload(k) ==
    /\ picture' = k /\ face' = None /\ verdict' = "none"
    /\ UNCHANGED work

Submit(j) ==
    /\ picture # None /\ j \notin work
    /\ work' = work \cup {j}
    /\ UNCHANGED <<picture, face, verdict>>

\* A face is learnt again without a change to the verdict.
Learn(i) ==
    /\ i \in work \/ Callbacks
    /\ face' = i
    /\ UNCHANGED <<picture, verdict, work>>

Judge(match) ==
    /\ work \cap Validations # {} \/ Callbacks
    /\ verdict' = IF match THEN "match" ELSE "mismatch"
    /\ UNCHANGED <<picture, face, work>>

Finish(j) ==
    /\ j \in work
    /\ work' = work \ {j}
    /\ UNCHANGED <<picture, face, verdict>>

LifecycleNext ==
    \/ \E k \in Keys : Upload(k)
    \/ \E j \in Keys \cup Validations : Submit(j) \/ Finish(j)
    \/ \E i \in Images : Learn(i)
    \/ \E match \in BOOLEAN : Judge(match)

LifecycleSpec == LifecycleInit /\ [][LifecycleNext]_lifecycleVars

\* What is under way comes to an end.
WorkEnds == \A j \in Keys \cup Validations : j \in work ~> j \notin work
=============================================================================
