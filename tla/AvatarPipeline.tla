--------------------------- MODULE AvatarPipeline ---------------------------
(***************************************************************************)
(* The avatar of one user: the upload is confirmed, a background job       *)
(* extracts its face vector, and on request another job compares a photo   *)
(* with that vector.  Two API requests may run beside the workers of the   *)
(* BullMQ queue, and they all write the same user_profiles row without a   *)
(* transaction: every update is an action of its own.                      *)
(*                                                                         *)
(* The queue (external) runs a job again while its attempts last, gives a  *)
(* job whose worker died to another worker once, ignores an add whose id   *)
(* exists, and forgets ended jobs after a while.                           *)
(*                                                                         *)
(* Abstractions.  A vector is the image it was computed from.  Timestamps, *)
(* retry counts, scores and error texts of the row are left out.  The row  *)
(* exists and is never deleted, so no error of a job is a BadRequest or a  *)
(* NotFound, and every error is retryable.                                 *)
(***************************************************************************)
EXTENDS Naturals, FiniteSets

CONSTANTS
    Keys,         \* storage keys of uploaded images; a vector job's id is its key
    Validations,  \* ids of validation jobs (bounds how many are kept at once)
    Requests,     \* request slots
    Workers,      \* how many jobs run at once
    MaxAttempts,  \* attempts given to each job, 5 in the code
    MaxDeaths,    \* bound: how often a worker, a request or a statement fails
    Callbacks,    \* whether the face service calls the two save endpoints
    None          \* no value

ASSUME AvatarConstants ==
    /\ Workers \in Nat \ {0} /\ MaxAttempts \in Nat \ {0} /\ MaxDeaths \in Nat
    /\ Callbacks \in BOOLEAN
    /\ Keys \cap Validations = {} /\ None \notin Keys \cup Validations \cup {"picture"}

VARIABLES
    avatar,     \* avatarStorageKey, or "picture": only avatarUrl, from a provider
    embedding,  \* avatarVectorEmbedding, as the image it was computed from
    verified,   \* isAvatarVerified
    validated,  \* lastAvatarValidationAt is set
    progress,   \* avatarVectorStatus and avatarValidationStatus
    request,    \* what each request slot is doing
    job,        \* the jobs of the queue
    deaths,     \* how often something has failed so far
    mishap      \* history: something happened that may leave a status unfinished

profileVars == <<avatar, embedding, verified, validated, progress>>
avatarVars == <<profileVars, request, job, deaths, mishap>>

Images == Keys \cup {"picture"}
Jobs == Keys \cup Validations
Kind(j) == IF j \in Keys THEN "vector" ELSE "validation"

Unfinished == {"queued", "processing", "retrying"}
Progress == Unfinished \cup {"idle", "completed", "failed"}
NothingBegun == [kind \in {"vector", "validation"} |-> "idle"]
Over == {"absent", "completed", "failed"}

JobState ==
    \* tries: attemptsMade; stalls: how often its worker died; result:
    \* what the face service answered; gaveUp, told: what its user was mailed
    [state : Over \cup {"waiting", "active"},
     step : {"none", "started", "marked", "matched", "ready", "answered", "saved",
             "reporting", "failing", "apologizing", "done", "thrown"},
     tries : 0..(MaxAttempts - 1), stalls : 0..1, result : BOOLEAN,
     gaveUp : BOOLEAN, told : Nat]

NoJob == [state |-> "absent", step |-> "none", tries |-> 0, stalls |-> 0,
          result |-> FALSE, gaveUp |-> FALSE, told |-> 0]
Added == [NoJob EXCEPT !.state = "waiting"]

\* A job that waits to be run again; what concerned the last run only is dropped.
Again(record) ==
    [record EXCEPT !.state = "waiting", !.step = "none", !.result = FALSE]

\* A job that has ended keeps only whether its user was told that it failed.
Failed(record) == [NoJob EXCEPT !.state = "failed", !.gaveUp = record.gaveUp]
Completed == [NoJob EXCEPT !.state = "completed"]

RequestState == [stage : {"idle", "reset", "queuing", "accepted", "requested"},
                 key : Keys \cup {None}]
IdleRequest == [stage |-> "idle", key |-> None]

AvatarTypeOK ==
    /\ avatar \in Images \cup {None} /\ embedding \in Images \cup {None}
    /\ verified \in BOOLEAN /\ validated \in BOOLEAN
    /\ progress \in [{"vector", "validation"} -> Progress]
    /\ request \in [Requests -> RequestState] /\ job \in [Jobs -> JobState]
    /\ deaths \in 0..MaxDeaths /\ mishap \in BOOLEAN

\* A profile as register or the first social login creates it.
AvatarInit ==
    /\ avatar \in {None, "picture"}
    /\ embedding = None /\ verified = FALSE /\ validated = FALSE
    /\ progress = NothingBegun
    /\ request = [r \in Requests |-> IdleRequest]
    /\ job = [j \in Jobs |-> NoJob]
    /\ deaths = 0 /\ mishap = FALSE

-----------------------------------------------------------------------------
(* Helpers.                                                                *)

SetProgress(kind, s) == progress' = [progress EXCEPT ![kind] = s]
GotoStage(r, stage) == request' = [request EXCEPT ![r].stage = stage]
GotoStep(j, step) == job' = [job EXCEPT ![j].step = step]
At(j, step) == job[j].state = "active" /\ job[j].step = step
Mishap == mishap' = TRUE

\* A vector job whose image is no longer the avatar writes the status anyway.
MishapIfSuperseded(j) ==
    IF j \in Keys /\ avatar # j THEN Mishap ELSE UNCHANGED mishap

-----------------------------------------------------------------------------
(* UsersAvatarService.confirmUpload and queueVectorExtraction.             *)

\* The stored object and the profile have been looked up; the first update
\* names the new avatar and resets everything known of the old one.
ConfirmUpload(r, k) ==
    /\ request[r].stage = "idle"
    /\ request' = [request EXCEPT ![r] = [stage |-> "reset", key |-> k]]
    /\ avatar' = k /\ embedding' = None
    /\ verified' = FALSE /\ validated' = FALSE
    /\ progress' = NothingBegun
    /\ UNCHANGED <<job, deaths, mishap>>

MarkVectorQueued(r) ==
    /\ request[r].stage = "reset"
    /\ SetProgress("vector", "queued")
    /\ GotoStage(r, "queuing")
    /\ UNCHANGED <<avatar, embedding, verified, validated, job, deaths,
                   mishap>>

\* queue.add under the id of the storage key.
AddVectorJob(r) ==
    LET k == request[r].key IN
    /\ request[r].stage = "queuing"
    /\ IF job[k].state = "absent"
       THEN job' = [job EXCEPT ![k] = Added] /\ UNCHANGED mishap
       ELSE Mishap /\ UNCHANGED job
    /\ request' = [request EXCEPT ![r] = IdleRequest]
    /\ UNCHANGED <<profileVars, deaths>>

-----------------------------------------------------------------------------
(* queueAvatarValidation.                                                  *)

\* One read decides; a request that is refused or finds a validation running
\* changes nothing.
AcceptValidation(r) ==
    /\ request[r].stage = "idle"
    /\ avatar # None /\ embedding # None
    /\ progress["validation"] \notin Unfinished
    /\ GotoStage(r, "accepted")
    /\ UNCHANGED <<profileVars, job, deaths, mishap>>

MarkValidationQueued(r) ==
    /\ request[r].stage = "accepted"
    /\ SetProgress("validation", "queued")
    /\ GotoStage(r, "requested")
    /\ UNCHANGED <<avatar, embedding, verified, validated, job, deaths,
                   mishap>>

\* queue.add under an id that holds the time.
AddValidationJob(r, v) ==
    /\ request[r].stage = "requested" /\ job[v].state = "absent"
    /\ job' = [job EXCEPT ![v] = Added]
    /\ request' = [request EXCEPT ![r] = IdleRequest]
    /\ UNCHANGED <<profileVars, deaths, mishap>>

-----------------------------------------------------------------------------
(* The queue.                                                              *)

\* A worker that has nothing to do takes a job.
StartJob(j) ==
    /\ job[j].state = "waiting"
    /\ Cardinality({i \in Jobs : job[i].state = "active"}) < Workers
    /\ job' = [job EXCEPT ![j].state = "active", ![j].step = "started"]
    /\ UNCHANGED <<profileVars, request, deaths, mishap>>

\* The handler has returned.
CompleteJob(j) ==
    /\ At(j, "done")
    /\ job' = [job EXCEPT ![j] = Completed]
    /\ UNCHANGED <<profileVars, request, deaths, mishap>>

\* Mutated: one attempt more than the handler counts with.
RetryOrFailJob_OneMore(j) ==
    /\ At(j, "thrown")
    /\ job' = [job EXCEPT ![j] = IF job[j].tries < MaxAttempts
         THEN [Again(job[j]) EXCEPT !.tries = job[j].tries + 1]
         ELSE Failed(job[j])]
    /\ UNCHANGED <<profileVars, request, deaths, mishap>>

\* Mutated: an attempt that failed is not counted.
RetryOrFailJob_NotCounted(j) ==
    /\ At(j, "thrown")
    /\ job' = [job EXCEPT ![j] = Again(job[j])]
    /\ UNCHANGED <<profileVars, request, deaths, mishap>>

\* The handler has thrown: the processor passes the error on, and the job runs
\* again while attempts are left.
RetryOrFailJob(j) ==
    /\ At(j, "thrown")
    /\ job' = [job EXCEPT ![j] = IF job[j].tries + 1 < MaxAttempts
         THEN [Again(job[j]) EXCEPT !.tries = job[j].tries + 1]
         ELSE Failed(job[j])]
    /\ UNCHANGED <<profileVars, request, deaths, mishap>>

\* removeOnComplete, removeOnFail.
ForgetJob(j) ==
    /\ job[j].state \in {"completed", "failed"}
    /\ job' = [job EXCEPT ![j] = NoJob]
    /\ UNCHANGED <<profileVars, request, deaths, mishap>>

-----------------------------------------------------------------------------
(* AvatarVerificationService: what both jobs do.                           *)

\* markVectorProcessing, markValidationProcessing.
MarkProcessing(j) ==
    /\ At(j, "started")
    /\ SetProgress(Kind(j), IF job[j].tries > 0 THEN "retrying" ELSE "processing")
    /\ GotoStep(j, "marked")
    /\ MishapIfSuperseded(j)
    /\ UNCHANGED <<avatar, embedding, verified, validated, request, deaths>>

\* The face service answers with an error or not at all.
RequestFails(j) ==
    /\ At(j, IF j \in Keys THEN "marked" ELSE "ready")
    /\ GotoStep(j, "failing")
    /\ UNCHANGED <<profileVars, request, deaths, mishap>>

\* Mutated: the user hears of a failure, but the status stays.
HandleFailure_NoStatus(j) ==
    /\ At(j, "failing")
    /\ job' = [job EXCEPT ![j].step = "apologizing", ![j].gaveUp = TRUE]
    /\ UNCHANGED <<profileVars, request, deaths, mishap>>

\* handleVectorJobFailure, handleValidationJobFailure: the status.
HandleFailure(j) ==
    LET willRetry == job[j].tries + 1 < MaxAttempts IN
    /\ At(j, "failing")
    /\ SetProgress(Kind(j), IF willRetry THEN "retrying" ELSE "failed")
    /\ job' = [job EXCEPT ![j].step = IF willRetry THEN "thrown" ELSE "apologizing",
                          ![j].gaveUp = ~willRetry]
    /\ MishapIfSuperseded(j)
    /\ UNCHANGED <<avatar, embedding, verified, validated, request, deaths>>

\* notifyProcessingFailed; the error is rethrown.
NotifyFailed(j) ==
    /\ At(j, "apologizing")
    /\ GotoStep(j, "thrown")
    /\ UNCHANGED <<profileVars, request, deaths, mishap>>

-----------------------------------------------------------------------------
(* processQueuedVectorExtraction.                                          *)

\* requestVectorExtraction has a vector; saveAvatarVectorIfAvatarMatches reads
\* the profile.  Where the avatar has changed the job returns at once.
ExtractVector(k) ==
    /\ At(k, "marked")
    /\ GotoStep(k, IF avatar = k THEN "matched" ELSE "done")
    /\ UNCHANGED <<profileVars, request, deaths, mishap>>

\* Mutated: an earlier verdict does not survive a new vector.
WriteVector_ForgetsVerdict(image) ==
    /\ embedding' = image
    /\ SetProgress("vector", "completed")
    /\ validated' = FALSE
    /\ UNCHANGED <<avatar, verified>>

\* saveAvatarVector: the update.
WriteVector(image) ==
    /\ embedding' = image
    /\ SetProgress("vector", "completed")
    /\ UNCHANGED <<avatar, verified, validated>>

SaveVector(k) ==
    /\ At(k, "matched")
    /\ WriteVector(k)
    /\ GotoStep(k, "saved")
    /\ MishapIfSuperseded(k)
    /\ UNCHANGED <<request, deaths>>

-----------------------------------------------------------------------------
(* processQueuedAvatarValidation.                                          *)

\* ensureAvatarValidationReady.
EnsureReady(v) ==
    /\ v \in Validations /\ At(v, "marked")
    /\ GotoStep(v, IF embedding = None THEN "failing" ELSE "ready")
    /\ UNCHANGED <<profileVars, request, deaths, mishap>>

\* requestAvatarValidation; the face service asks for the vector (vector/get).
Compare(v, match) ==
    /\ At(v, "ready") /\ embedding # None
    /\ job' = [job EXCEPT ![v].step = "answered", ![v].result = match]
    /\ UNCHANGED <<profileVars, request, deaths, mishap>>

\* saveAvatarValidationResult: the update.
WriteResult(match) ==
    /\ verified' = match /\ validated' = TRUE
    /\ SetProgress("validation", "completed")
    /\ UNCHANGED <<avatar, embedding>>

SaveResult(v) ==
    /\ At(v, "answered")
    /\ WriteResult(job[v].result)
    /\ GotoStep(v, "saved")
    /\ UNCHANGED <<request, deaths, mishap>>

\* Either job: the update that writes COMPLETED once more.
WriteCompleted(j) ==
    /\ At(j, "saved")
    /\ SetProgress(Kind(j), "completed")
    /\ GotoStep(j, IF j \in Keys THEN "done" ELSE "reporting")
    /\ MishapIfSuperseded(j)
    /\ UNCHANGED <<avatar, embedding, verified, validated, request, deaths>>

\* Mutated: the handler fails after the email was sent.
NotifyCompleted_Throws(v) ==
    /\ At(v, "reporting")
    /\ job' = [job EXCEPT ![v].step = "failing", ![v].told = @ + 1]
    /\ UNCHANGED <<profileVars, request, deaths, mishap>>

\* notifyValidationCompleted.
NotifyCompleted(v) ==
    /\ At(v, "reporting")
    /\ job' = [job EXCEPT ![v].step = "done", ![v].told = @ + 1]
    /\ UNCHANGED <<profileVars, request, deaths, mishap>>

-----------------------------------------------------------------------------
(* The save endpoints, which the face service may call at any time.        *)

SaveVectorEndpoint(image) ==
    /\ Callbacks
    /\ WriteVector(image)
    /\ UNCHANGED <<request, job, deaths, mishap>>

SaveResultEndpoint(match) ==
    /\ Callbacks
    /\ WriteResult(match)
    /\ UNCHANGED <<request, job, deaths, mishap>>

-----------------------------------------------------------------------------
(* Failures.                                                               *)

MayFail == deaths < MaxDeaths /\ deaths' = deaths + 1

\* A statement or an email of a running job fails, the email perhaps after it
\* was delivered.  An error before the try or in the catch leaves the handler;
\* any other is handled.
JobStepFails(j) ==
    LET step == job[j].step IN
    /\ MayFail
    /\ job[j].state = "active" /\ step \notin {"done", "thrown"}
    /\ \E sent \in IF step = "reporting" THEN {0, 1} ELSE {0} :
          job' = [job EXCEPT ![j].told = @ + sent, ![j].step =
                    IF step \in {"started", "failing", "apologizing"}
                    THEN "thrown" ELSE "failing"]
    /\ IF step \in {"started", "failing"} THEN Mishap ELSE UNCHANGED mishap
    /\ UNCHANGED <<profileVars, request>>

\* The worker of a job dies: the job waits again, a second time it fails.
WorkerDies(j) ==
    /\ MayFail
    /\ job[j].state = "active"
    /\ job' = [job EXCEPT ![j] = IF job[j].stalls = 0
         THEN [Again(job[j]) EXCEPT !.stalls = 1] ELSE Failed(job[j])]
    /\ Mishap
    /\ UNCHANGED <<profileVars, request>>

\* A request fails between two of its updates.
RequestDies(r) ==
    /\ MayFail
    /\ request[r].stage # "idle"
    /\ request' = [request EXCEPT ![r] = IdleRequest]
    /\ Mishap
    /\ UNCHANGED <<profileVars, job>>

-----------------------------------------------------------------------------

Api(r) ==
    \/ \E k \in Keys : ConfirmUpload(r, k)
    \/ AcceptValidation(r)
    \/ MarkVectorQueued(r) \/ AddVectorJob(r) \/ MarkValidationQueued(r)
    \/ \E v \in Validations : AddValidationJob(r, v)

RunJob(j) ==
    \/ StartJob(j) \/ MarkProcessing(j) \/ RequestFails(j)
    \/ HandleFailure(j) \/ NotifyFailed(j)
    \/ j \in Keys /\ (ExtractVector(j) \/ SaveVector(j))
    \/ j \in Validations /\ (EnsureReady(j) \/ SaveResult(j) \/ NotifyCompleted(j))
    \/ j \in Validations /\ \E match \in BOOLEAN : Compare(j, match)
    \/ WriteCompleted(j) \/ CompleteJob(j) \/ RetryOrFailJob(j)

AvatarNext ==
    \/ \E r \in Requests : Api(r) \/ RequestDies(r)
    \/ \E j \in Jobs : RunJob(j) \/ ForgetJob(j) \/ JobStepFails(j) \/ WorkerDies(j)
    \/ \E image \in Images : SaveVectorEndpoint(image)
    \/ \E match \in BOOLEAN : SaveResultEndpoint(match)

AvatarSpec == AvatarInit /\ [][AvatarNext]_avatarVars

\* A worker that runs goes on, and a free worker takes some waiting job (strong:
\* other jobs may take the worker in between).
AvatarFairness == \A j \in Jobs : WF_avatarVars(RunJob(j)) /\ SF_avatarVars(StartJob(j))
AvatarFairSpec == AvatarSpec /\ AvatarFairness

-----------------------------------------------------------------------------
(* Properties.                                                             *)

Quiet ==
    /\ \A r \in Requests : request[r].stage = "idle"
    /\ \A j \in Jobs : job[j].state \in Over

\* Once nothing runs any more, neither status is left at queued, processing or
\* retrying, and a completed extraction has its vector, unless a process died
\* between two steps, an add was ignored because its id existed, or the job of
\* an avatar that was replaced wrote the status.
QuietStatusIsFinal ==
    Quiet /\ ~mishap =>
        /\ \A kind \in DOMAIN progress : progress[kind] \notin Unfinished
        /\ progress["vector"] = "completed" => embedding # None

\* The handlers and the queue count attempts alike: a job whose user was told
\* that it failed for good does not wait for another attempt, unless its worker
\* died, and a job without mishap fails only after telling so.
AttemptsAgree ==
    \A j \in Jobs :
        /\ job[j].gaveUp /\ job[j].state = "waiting" => job[j].stalls > 0
        /\ job[j].state = "failed" /\ ~mishap => job[j].gaveUp

\* Although a validation that fails at any step is run again, its result is
\* mailed once: each further mail takes a worker that dies or an email that
\* fails after its delivery.
ResultMailedOnce == \A v \in Validations : job[v].told <= 1 + deaths

\* The verdict that the columns amount to, as resolveAvatarVerificationStatus
\* reads them where an avatar and its vector are there.
Verdict == IF verified THEN "match" ELSE IF validated THEN "mismatch" ELSE "none"

\* The updates of requests, jobs and endpoints, none of them in a transaction,
\* amount to the avatar's lifecycle: a verdict is lost only to a new upload,
\* vectors and verdicts come from work that is under way, and an upload leaves
\* nothing of the avatar before it.
Lifecycle == INSTANCE AvatarLifecycle WITH
    picture <- avatar, face <- embedding, verdict <- Verdict,
    work <- {j \in Jobs : job[j].state \in {"waiting", "active"}}
ImplementsLifecycle == Lifecycle!LifecycleSpec

\* Every job ends, although its handler fails at any step and its worker dies, the
\* second time too, and whatever requests and endpoints write beside it.
JobsEnd == Lifecycle!WorkEnds

\* saveAvatarVectorIfAvatarMatches refuses a vector with the reason
\* 'avatar_changed_before_vector_persisted': the vector kept is the avatar's.
VectorIsOfAvatar == embedding # None => embedding = avatar

=============================================================================
