----------------------- MODULE AvatarPipeline_proofs -----------------------
(***************************************************************************)
(* The safety properties of AvatarPipeline and its refinement of           *)
(* AvatarLifecycle.                                                        *)
(*                                                                         *)
(* The invariant has a part for every job, in terms of its record alone,   *)
(* and one for the statuses: whoever left a status unfinished is still on  *)
(* the way to finish it.  A step of a job keeps the first part for the     *)
(* other jobs, and the second unless it ends what was under way.           *)
(***************************************************************************)
EXTENDS AvatarPipeline, TLAPS

\* A request that will write or add something has an avatar to do it for.
RequestsHaveAvatar ==
    \A r \in Requests :
        /\ request[r].stage # "idle" => avatar # None
        /\ request[r].stage \in {"reset", "queuing"} => request[r].key \in Keys

\* How the attempts of a job stand, m being whether there was a mishap.
AttemptsStand(q, m) ==
    /\ q.state = "waiting" /\ q.gaveUp => q.stalls > 0
    /\ q.state = "failed" /\ ~m => q.gaveUp
    /\ q.state = "active" /\ q.gaveUp =>
          q.stalls > 0 \/ (q.tries + 1 >= MaxAttempts /\ q.step \in {"apologizing", "thrown"})
    /\ q.state = "active" /\ q.step = "apologizing" => q.gaveUp
    /\ q.state = "active" /\ q.step = "thrown" /\ ~m => q.gaveUp \/ q.tries + 1 < MaxAttempts

\* What was mailed, d being how often something failed.
ToldInTime(q, d) ==
    q.told <= d + (IF q.state = "active" /\ q.step = "done" THEN 1 ELSE 0)

\* A job that will yet write its status.
Busy(j, q) ==
    \/ q.state = "waiting"
    \/ /\ q.state = "active"
       /\ \/ q.step = "started"
          \/ q.step = "thrown" /\ q.tries + 1 < MaxAttempts
          \/ /\ q.step \in {"marked", "matched", "ready", "answered", "failing"}
             /\ j \in Keys => avatar = j

VectorDue == \E k \in Keys : Busy(k, job[k])
ValidationDue == \E v \in Validations : Busy(v, job[v])
InStage(stages) == \E r \in Requests : request[r].stage \in stages

\* Whatever left a status unfinished will finish it.
StatusesAreDue ==
    ~mishap =>
        /\ progress["vector"] \in Unfinished => InStage({"queuing"}) \/ VectorDue
        /\ progress["validation"] \in Unfinished => InStage({"requested"}) \/ ValidationDue
        /\ progress["vector"] = "completed" /\ embedding = None =>
              InStage({"reset", "queuing"}) \/ VectorDue
        /\ \A k \in Keys : At(k, "saved") /\ avatar = k /\ embedding = None =>
              \E r \in Requests : request[r].stage \in {"reset", "queuing"} /\ request[r].key = k

JobsStand ==
    \A j \in Jobs : AttemptsStand(job[j], mishap) /\ ToldInTime(job[j], deaths)

PipelineInv == AvatarTypeOK /\ RequestsHaveAvatar /\ JobsStand /\ StatusesAreDue

-----------------------------------------------------------------------------

LEMMA JobsTyped ==
    ASSUME AvatarTypeOK, NEW j \in Jobs
    PROVE  /\ job \in [Jobs -> JobState] /\ job[j] \in JobState
           /\ job[j].state \in Over \cup {"waiting", "active"}
           /\ job[j].tries \in 0..(MaxAttempts - 1) /\ job[j].stalls \in 0..1
           /\ job[j].result \in BOOLEAN /\ job[j].gaveUp \in BOOLEAN /\ job[j].told \in Nat
           /\ deaths \in Nat /\ MaxAttempts \in Nat \ {0}
           /\ NoJob \in JobState /\ Added \in JobState
<1>1. MaxAttempts \in Nat \ {0} /\ MaxDeaths \in Nat
  BY AvatarConstants
<1>2. job \in [Jobs -> JobState] /\ deaths \in 0..MaxDeaths
  BY DEF AvatarTypeOK
<1>3. /\ job[j].state \in Over \cup {"waiting", "active"}
      /\ job[j].tries \in 0..(MaxAttempts - 1) /\ job[j].stalls \in 0..1
      /\ job[j].result \in BOOLEAN /\ job[j].gaveUp \in BOOLEAN /\ job[j].told \in Nat
  BY <1>2 DEF JobState
<1>4. 0 \in 0..(MaxAttempts - 1) /\ 0 \in 0..1
  BY <1>1
<1>5. NoJob \in JobState
  BY <1>4 DEF JobState, NoJob, Over
<1>6. Added \in JobState
  BY <1>5 DEF JobState, Added
<1> QED
  BY <1>1, <1>2, <1>3, <1>5, <1>6

LEMMA Kinds ==
    ASSUME NEW j \in Jobs
    PROVE  /\ Kind(j) \in {"vector", "validation"}
           /\ Kind(j) = "vector" <=> j \in Keys
           /\ Kind(j) = "validation" <=> j \in Validations
BY AvatarConstants DEF Kind, Jobs

\* A step of a job leaves requests and avatar alone: the statuses are what is
\* left to look at.
LEMMA JobWrites ==
    ASSUME PipelineInv, NEW j \in Jobs, NEW q \in JobState,
           UNCHANGED <<avatar, request>>,
           job' = [job EXCEPT ![j] = q],
           embedding' \in Images \cup {None}, verified' \in BOOLEAN, validated' \in BOOLEAN,
           progress' \in [{"vector", "validation"} -> Progress],
           deaths' \in 0..MaxDeaths, deaths' >= deaths, mishap' \in BOOLEAN, mishap => mishap',
           AttemptsStand(q, mishap'), ToldInTime(q, deaths'),
           StatusesAreDue'
    PROVE  PipelineInv'
<1>1. /\ job' \in [Jobs -> JobState] /\ job'[j] = q
      /\ \A i \in Jobs : i # j => job'[i] = job[i]
  BY DEF PipelineInv, AvatarTypeOK
<1>2. AvatarTypeOK'
  BY <1>1 DEF PipelineInv, AvatarTypeOK
<1>3. RequestsHaveAvatar'
  BY DEF PipelineInv, RequestsHaveAvatar
<1>4. JobsStand'
  <2> SUFFICES ASSUME NEW i \in Jobs
               PROVE  AttemptsStand(job'[i], mishap') /\ ToldInTime(job'[i], deaths')
    BY DEF JobsStand, AttemptsStand, ToldInTime
  <2>1. CASE i = j
    BY <1>1, <2>1
  <2>2. CASE i # j
    <3>1. AttemptsStand(job[i], mishap) /\ ToldInTime(job[i], deaths)
      BY DEF PipelineInv, JobsStand
    <3>2. deaths \in Nat /\ deaths' \in Nat /\ job[i].told \in Nat
      BY JobsTyped DEF PipelineInv
    <3> QED
      BY <1>1, <2>2, <3>1, <3>2 DEF AttemptsStand, ToldInTime
  <2> QED
    BY <2>1, <2>2
<1> QED
  BY <1>2, <1>3, <1>4 DEF PipelineInv

\* A step that changes nothing but one job.
LEMMA JobSteps ==
    ASSUME PipelineInv, NEW j \in Jobs, NEW q \in JobState,
           UNCHANGED <<profileVars, request>>,
           job' = [job EXCEPT ![j] = q],
           deaths' \in 0..MaxDeaths, deaths' >= deaths, mishap' \in BOOLEAN, mishap => mishap',
           AttemptsStand(q, mishap'), ToldInTime(q, deaths'),
           ~mishap' /\ Busy(j, job[j]) => Busy(j, q),
           ~mishap' /\ q.state = "active" /\ q.step = "saved" => At(j, "saved")
    PROVE  PipelineInv'
<1>1. /\ job' \in [Jobs -> JobState] /\ job'[j] = q
      /\ \A i \in Jobs : i # j => job'[i] = job[i]
  BY DEF PipelineInv, AvatarTypeOK
<1>2. StatusesAreDue'
  <2> SUFFICES ASSUME ~mishap'
               PROVE  StatusesAreDue'
    BY DEF StatusesAreDue
  <2>1. \A i \in Jobs : Busy(i, job[i]) => Busy(i, job[i])'
    BY <1>1 DEF Busy, profileVars
  <2>2. (VectorDue => VectorDue') /\ (ValidationDue => ValidationDue')
    BY <2>1 DEF VectorDue, ValidationDue, Jobs
  <2>3. \A k \in Keys : At(k, "saved")' => At(k, "saved")
    BY <1>1 DEF At, Jobs
  <2> QED
    BY <2>2, <2>3 DEF PipelineInv, StatusesAreDue, InStage, profileVars
<1>3. /\ embedding' \in Images \cup {None} /\ verified' \in BOOLEAN /\ validated' \in BOOLEAN
      /\ progress' \in [{"vector", "validation"} -> Progress]
      /\ UNCHANGED <<avatar, request>>
  BY DEF PipelineInv, AvatarTypeOK, profileVars
<1> QED
  BY <1>2, <1>3, JobWrites

\* A job that writes its status stays under way, or the status is final.
LEMMA StatusWrites ==
    ASSUME PipelineInv, NEW j \in Jobs, NEW q \in JobState, NEW s \in Progress,
           UNCHANGED <<avatar, request>>,
           job' = [job EXCEPT ![j] = q],
           progress' = [progress EXCEPT ![Kind(j)] = s],
           embedding' = embedding \/ embedding' # None,
           mishap => mishap',
           ~mishap' /\ s \in Unfinished => Busy(j, q),
           ~mishap' /\ j \in Keys /\ s = "completed" =>
              embedding' # None \/ InStage({"reset", "queuing"}),
           j \in Keys /\ q.step = "saved" => embedding' # None
    PROVE  StatusesAreDue'
<1> SUFFICES ASSUME ~mishap'
             PROVE  StatusesAreDue'
  BY DEF StatusesAreDue
<1>1. /\ job' \in [Jobs -> JobState] /\ job'[j] = q
      /\ \A i \in Jobs : i # j => job'[i] = job[i]
  BY DEF PipelineInv, AvatarTypeOK
<1>2. /\ Kind(j) \in {"vector", "validation"} /\ progress \in [{"vector", "validation"} -> Progress]
      /\ Kind(j) = "vector" <=> j \in Keys
      /\ Kind(j) = "validation" <=> j \in Validations
  BY Kinds DEF PipelineInv, AvatarTypeOK
<1>3. \A i \in Jobs : i # j /\ Busy(i, job[i]) => Busy(i, job[i])'
  BY <1>1 DEF Busy
<1>4. Busy(j, q) => Busy(j, job[j])'
  BY <1>1 DEF Busy
<1>5. StatusesAreDue
  BY DEF PipelineInv
<1>6. progress'["vector"] \in Unfinished => InStage({"queuing"})' \/ VectorDue'
  <2>1. CASE j \in Keys
    BY <1>2, <1>4, <2>1 DEF VectorDue
  <2>2. CASE j \notin Keys
    <3>1. progress'["vector"] = progress["vector"]
      BY <1>2, <2>2
    <3>2. VectorDue => VectorDue'
      BY <1>3, <2>2 DEF VectorDue, Jobs
    <3> QED
      BY <1>5, <3>1, <3>2 DEF StatusesAreDue, InStage
  <2> QED
    BY <2>1, <2>2
<1>7. progress'["validation"] \in Unfinished => InStage({"requested"})' \/ ValidationDue'
  <2>1. CASE j \in Validations
    BY <1>2, <1>4, <2>1 DEF ValidationDue
  <2>2. CASE j \notin Validations
    <3>1. progress'["validation"] = progress["validation"]
      BY <1>2, <2>2
    <3>2. ValidationDue => ValidationDue'
      BY <1>3, <2>2 DEF ValidationDue, Jobs
    <3> QED
      BY <1>5, <3>1, <3>2 DEF StatusesAreDue, InStage
  <2> QED
    BY <2>1, <2>2
<1>8. progress'["vector"] = "completed" /\ embedding' = None =>
        InStage({"reset", "queuing"})' \/ VectorDue'
  <2>1. CASE j \in Keys
    BY <1>2, <2>1 DEF InStage
  <2>2. CASE j \notin Keys
    <3>1. progress'["vector"] = progress["vector"]
      BY <1>2, <2>2
    <3>2. VectorDue => VectorDue'
      BY <1>3, <2>2 DEF VectorDue, Jobs
    <3> QED
      BY <1>5, <3>1, <3>2 DEF StatusesAreDue, InStage
  <2> QED
    BY <2>1, <2>2
<1>9. \A k \in Keys : At(k, "saved")' /\ avatar' = k /\ embedding' = None =>
        \E r \in Requests : request'[r].stage \in {"reset", "queuing"} /\ request'[r].key = k
  <2> SUFFICES ASSUME NEW k \in Keys, At(k, "saved")', avatar' = k, embedding' = None
               PROVE  \E r \in Requests :
                         request'[r].stage \in {"reset", "queuing"} /\ request'[r].key = k
    OBVIOUS
  <2>1. k # j
    BY <1>1 DEF At
  <2>2. At(k, "saved")
    BY <1>1, <2>1 DEF At, Jobs
  <2> QED
    BY <1>5, <2>2 DEF StatusesAreDue
<1> QED
  BY <1>6, <1>7, <1>8, <1>9 DEF StatusesAreDue

-----------------------------------------------------------------------------
(* The steps that change nothing but one job.                              *)

LEMMA StartKeeps ==
    ASSUME PipelineInv, NEW j \in Jobs, StartJob(j)
    PROVE  PipelineInv'
<1> DEFINE q == [job[j] EXCEPT !.state = "active", !.step = "started"]
<1>1. /\ job' = [job EXCEPT ![j].state = "active", ![j].step = "started"]
      /\ UNCHANGED <<profileVars, request, deaths, mishap>> /\ job[j].state = "waiting"
  BY DEF StartJob
<1>2. job[j] \in JobState /\ job \in [Jobs -> JobState] /\ deaths \in 0..MaxDeaths
  BY DEF PipelineInv, AvatarTypeOK
<1>3. /\ q \in JobState /\ q.state = "active" /\ q.step = "started"
      /\ q.gaveUp = job[j].gaveUp /\ q.stalls = job[j].stalls /\ q.told = job[j].told
  BY <1>2 DEF JobState
<1>4. job' = [job EXCEPT ![j] = q]
  BY <1>1, <1>2
<1> HIDE DEF q
<1>5. AttemptsStand(job[j], mishap) /\ ToldInTime(job[j], deaths)
  BY DEF PipelineInv, JobsStand
<1>6. AttemptsStand(q, mishap') /\ ToldInTime(q, deaths')
  BY <1>1, <1>3, <1>5 DEF AttemptsStand, ToldInTime
<1>7. Busy(j, q) /\ q.step # "saved"
  BY <1>3 DEF Busy
<1>8. deaths' \in 0..MaxDeaths /\ deaths' >= deaths /\ mishap' \in BOOLEAN /\ (mishap => mishap')
  BY <1>1, <1>2 DEF PipelineInv, AvatarTypeOK
<1> QED
  BY <1>1, <1>3, <1>4, <1>6, <1>7, <1>8, JobSteps
\* A job goes on from one step to another of its run.
LEMMA MoveKeeps ==
    ASSUME PipelineInv, NEW j \in Jobs, NEW s \in {"marked", "matched", "ready", "failing", "done"},
           GotoStep(j, s), job[j].state = "active",
           job[j].step \notin {"apologizing", "thrown", "done"},
           UNCHANGED <<profileVars, request, deaths, mishap>>,
           Busy(j, job[j]) => s # "done" /\ (j \in Keys => avatar = j)
    PROVE  PipelineInv'
<1> DEFINE q == [job[j] EXCEPT !.step = s]
<1>1. job' = [job EXCEPT ![j].step = s]
  BY DEF GotoStep
<1>2. job[j] \in JobState /\ job \in [Jobs -> JobState] /\ deaths \in 0..MaxDeaths
  BY DEF PipelineInv, AvatarTypeOK
<1>3. /\ q \in JobState /\ q.state = "active" /\ q.step = s
      /\ q.gaveUp = job[j].gaveUp /\ q.stalls = job[j].stalls /\ q.told = job[j].told
  BY <1>2 DEF JobState
<1>4. job' = [job EXCEPT ![j] = q]
  BY <1>1, <1>2
<1> HIDE DEF q
<1>5. AttemptsStand(job[j], mishap) /\ ToldInTime(job[j], deaths)
  BY DEF PipelineInv, JobsStand
<1>6. AttemptsStand(q, mishap')
  BY <1>3, <1>5 DEF AttemptsStand
<1>7. ToldInTime(q, deaths')
  <2>1. job[j].told \in Nat /\ deaths \in Nat
    BY JobsTyped DEF PipelineInv
  <2> QED
    BY <1>3, <1>5, <2>1 DEF ToldInTime
<1>8. Busy(j, job[j]) => Busy(j, q)
  BY <1>3 DEF Busy
<1>9. deaths' \in 0..MaxDeaths /\ deaths' >= deaths /\ mishap' \in BOOLEAN /\ (mishap => mishap')
  BY <1>2 DEF PipelineInv, AvatarTypeOK
<1> QED
  BY <1>3, <1>4, <1>6, <1>7, <1>8, <1>9, JobSteps

LEMMA RequestFailsKeeps ==
    ASSUME PipelineInv, NEW j \in Jobs, RequestFails(j)
    PROVE  PipelineInv'
BY MoveKeeps DEF RequestFails, At, Busy

LEMMA ExtractVectorKeeps ==
    ASSUME PipelineInv, NEW j \in Keys, ExtractVector(j)
    PROVE  PipelineInv'
BY MoveKeeps DEF ExtractVector, At, Busy, Jobs

LEMMA EnsureReadyKeeps ==
    ASSUME PipelineInv, NEW j \in Validations, EnsureReady(j)
    PROVE  PipelineInv'
BY MoveKeeps, AvatarConstants DEF EnsureReady, At, Busy, Jobs

LEMMA NotifyFailedKeeps ==
    ASSUME PipelineInv, NEW j \in Jobs, NotifyFailed(j)
    PROVE  PipelineInv'
<1> DEFINE q == [job[j] EXCEPT !.step = "thrown"]
<1>1. /\ job' = [job EXCEPT ![j].step = "thrown"]
      /\ UNCHANGED <<profileVars, request, deaths, mishap>>
      /\ job[j].state = "active" /\ job[j].step = "apologizing"
  BY DEF NotifyFailed, GotoStep, At
<1>2. /\ job[j] \in JobState /\ job \in [Jobs -> JobState] /\ j \in Jobs
      /\ deaths \in 0..MaxDeaths /\ mishap \in BOOLEAN /\ MaxDeaths \in Nat
  BY AvatarConstants DEF PipelineInv, AvatarTypeOK, Jobs
<1>3. /\ q \in JobState /\ q.state = "active" /\ q.step = "thrown"
      /\ q.tries = job[j].tries
      /\ q.gaveUp = job[j].gaveUp /\ q.stalls = job[j].stalls /\ q.told = job[j].told
  BY <1>1, <1>2, JobsTyped DEF PipelineInv, JobState, NoJob, Completed, Over
<1>4. job' = [job EXCEPT ![j] = q]
  BY <1>1, <1>2
<1> HIDE DEF q
<1>5. AttemptsStand(job[j], mishap) /\ ToldInTime(job[j], deaths)
  BY <1>2 DEF PipelineInv, JobsStand
<1>6. AttemptsStand(q, mishap')
  BY <1>1, <1>3, <1>5 DEF AttemptsStand
<1>7. ToldInTime(q, deaths')
  <2>1. job[j].told \in Nat /\ deaths \in Nat
    BY <1>2, JobsTyped DEF PipelineInv
  <2> QED
    BY <1>1, <1>3, <1>5, <2>1 DEF ToldInTime
<1>8. ~mishap' /\ Busy(j, job[j]) => Busy(j, q)
  BY <1>1, <1>3 DEF Busy
<1>9. deaths' \in 0..MaxDeaths /\ deaths' >= deaths /\ mishap' \in BOOLEAN /\ (mishap => mishap')
  BY <1>1, <1>2
<1> QED
  BY <1>1, <1>2, <1>3, <1>4, <1>6, <1>7, <1>8, <1>9, JobSteps

LEMMA CompareKeeps ==
    ASSUME PipelineInv, NEW j \in Validations, NEW match \in BOOLEAN, Compare(j, match)
    PROVE  PipelineInv'
<1> DEFINE q == [job[j] EXCEPT !.step = "answered", !.result = match]
<1>1. /\ job' = [job EXCEPT ![j].step = "answered", ![j].result = match]
      /\ UNCHANGED <<profileVars, request, deaths, mishap>>
      /\ job[j].state = "active" /\ job[j].step = "ready" /\ j \notin Keys
  BY AvatarConstants DEF Compare, At
<1>2. /\ job[j] \in JobState /\ job \in [Jobs -> JobState] /\ j \in Jobs
      /\ deaths \in 0..MaxDeaths /\ mishap \in BOOLEAN /\ MaxDeaths \in Nat
  BY AvatarConstants DEF PipelineInv, AvatarTypeOK, Jobs
<1>3. /\ q \in JobState /\ q.state = "active" /\ q.step = "answered"
      /\ q.gaveUp = job[j].gaveUp /\ q.stalls = job[j].stalls /\ q.told = job[j].told
  BY <1>1, <1>2, JobsTyped DEF PipelineInv, JobState, NoJob, Completed, Over
<1>4. job' = [job EXCEPT ![j] = q]
  BY <1>1, <1>2
<1> HIDE DEF q
<1>5. AttemptsStand(job[j], mishap) /\ ToldInTime(job[j], deaths)
  BY <1>2 DEF PipelineInv, JobsStand
<1>6. AttemptsStand(q, mishap')
  BY <1>1, <1>3, <1>5 DEF AttemptsStand
<1>7. ToldInTime(q, deaths')
  <2>1. job[j].told \in Nat /\ deaths \in Nat
    BY <1>2, JobsTyped DEF PipelineInv
  <2> QED
    BY <1>1, <1>3, <1>5, <2>1 DEF ToldInTime
<1>8. ~mishap' /\ Busy(j, job[j]) => Busy(j, q)
  BY <1>1, <1>3 DEF Busy
<1>9. deaths' \in 0..MaxDeaths /\ deaths' >= deaths /\ mishap' \in BOOLEAN /\ (mishap => mishap')
  BY <1>1, <1>2
<1> QED
  BY <1>1, <1>2, <1>3, <1>4, <1>6, <1>7, <1>8, <1>9, JobSteps

LEMMA NotifyCompletedKeeps ==
    ASSUME PipelineInv, NEW j \in Validations, NotifyCompleted(j)
    PROVE  PipelineInv'
<1> DEFINE q == [job[j] EXCEPT !.step = "done", !.told = job[j].told + 1]
<1>1. /\ job' = [job EXCEPT ![j].step = "done", ![j].told = job[j].told + 1]
      /\ UNCHANGED <<profileVars, request, deaths, mishap>>
      /\ job[j].state = "active" /\ job[j].step = "reporting"
  BY DEF NotifyCompleted, At
<1>2. /\ job[j] \in JobState /\ job \in [Jobs -> JobState] /\ j \in Jobs
      /\ deaths \in 0..MaxDeaths /\ mishap \in BOOLEAN /\ MaxDeaths \in Nat
  BY AvatarConstants DEF PipelineInv, AvatarTypeOK, Jobs
<1>3. /\ q \in JobState /\ q.state = "active" /\ q.step = "done"
      /\ q.gaveUp = job[j].gaveUp /\ q.stalls = job[j].stalls /\ q.told = job[j].told + 1
  BY <1>1, <1>2, JobsTyped DEF PipelineInv, JobState, NoJob, Completed, Over
<1>4. job' = [job EXCEPT ![j] = q]
  BY <1>1, <1>2
<1> HIDE DEF q
<1>5. AttemptsStand(job[j], mishap) /\ ToldInTime(job[j], deaths)
  BY <1>2 DEF PipelineInv, JobsStand
<1>6. AttemptsStand(q, mishap')
  BY <1>1, <1>3, <1>5 DEF AttemptsStand
<1>7. ToldInTime(q, deaths')
  <2>1. job[j].told \in Nat /\ deaths \in Nat
    BY <1>2, JobsTyped DEF PipelineInv
  <2> QED
    BY <1>1, <1>3, <1>5, <2>1 DEF ToldInTime
<1>8. ~mishap' /\ Busy(j, job[j]) => Busy(j, q)
  BY <1>1, <1>3 DEF Busy
<1>9. deaths' \in 0..MaxDeaths /\ deaths' >= deaths /\ mishap' \in BOOLEAN /\ (mishap => mishap')
  BY <1>1, <1>2
<1> QED
  BY <1>1, <1>2, <1>3, <1>4, <1>6, <1>7, <1>8, <1>9, JobSteps

LEMMA CompleteKeeps ==
    ASSUME PipelineInv, NEW j \in Jobs, CompleteJob(j)
    PROVE  PipelineInv'
<1> DEFINE q == Completed
<1>1. /\ job' = [job EXCEPT ![j] = q]
      /\ UNCHANGED <<profileVars, request, deaths, mishap>>
      /\ job[j].state = "active" /\ job[j].step = "done"
  BY DEF CompleteJob, At
<1>2. /\ job[j] \in JobState /\ job \in [Jobs -> JobState] /\ j \in Jobs
      /\ deaths \in 0..MaxDeaths /\ mishap \in BOOLEAN /\ MaxDeaths \in Nat
  BY AvatarConstants DEF PipelineInv, AvatarTypeOK, Jobs
<1>3. /\ q \in JobState /\ q.state = "completed" /\ q.step = "none" /\ q.told = 0
  BY <1>1, <1>2, JobsTyped DEF PipelineInv, JobState, NoJob, Completed, Over
<1>4. job' = [job EXCEPT ![j] = q]
  BY <1>1, <1>2
<1> HIDE DEF q
<1>5. AttemptsStand(job[j], mishap) /\ ToldInTime(job[j], deaths)
  BY <1>2 DEF PipelineInv, JobsStand
<1>6. AttemptsStand(q, mishap')
  BY <1>1, <1>3, <1>5 DEF AttemptsStand
<1>7. ToldInTime(q, deaths')
  <2>1. job[j].told \in Nat /\ deaths \in Nat
    BY <1>2, JobsTyped DEF PipelineInv
  <2> QED
    BY <1>1, <1>3, <1>5, <2>1 DEF ToldInTime
<1>8. ~mishap' /\ Busy(j, job[j]) => Busy(j, q)
  BY <1>1, <1>3 DEF Busy
<1>9. deaths' \in 0..MaxDeaths /\ deaths' >= deaths /\ mishap' \in BOOLEAN /\ (mishap => mishap')
  BY <1>1, <1>2
<1> QED
  BY <1>1, <1>2, <1>3, <1>4, <1>6, <1>7, <1>8, <1>9, JobSteps

LEMMA ForgetKeeps ==
    ASSUME PipelineInv, NEW j \in Jobs, ForgetJob(j)
    PROVE  PipelineInv'
<1> DEFINE q == NoJob
<1>1. /\ job' = [job EXCEPT ![j] = q]
      /\ UNCHANGED <<profileVars, request, deaths, mishap>>
      /\ job[j].state \in {"completed", "failed"}
  BY DEF ForgetJob
<1>2. /\ job[j] \in JobState /\ job \in [Jobs -> JobState] /\ j \in Jobs
      /\ deaths \in 0..MaxDeaths /\ mishap \in BOOLEAN /\ MaxDeaths \in Nat
  BY AvatarConstants DEF PipelineInv, AvatarTypeOK, Jobs
<1>3. /\ q \in JobState /\ q.state = "absent" /\ q.step = "none" /\ q.told = 0
  BY <1>1, <1>2, JobsTyped DEF PipelineInv, JobState, NoJob, Completed, Over
<1>4. job' = [job EXCEPT ![j] = q]
  BY <1>1, <1>2
<1> HIDE DEF q
<1>5. AttemptsStand(job[j], mishap) /\ ToldInTime(job[j], deaths)
  BY <1>2 DEF PipelineInv, JobsStand
<1>6. AttemptsStand(q, mishap')
  BY <1>1, <1>3, <1>5 DEF AttemptsStand
<1>7. ToldInTime(q, deaths')
  <2>1. job[j].told \in Nat /\ deaths \in Nat
    BY <1>2, JobsTyped DEF PipelineInv
  <2> QED
    BY <1>1, <1>3, <1>5, <2>1 DEF ToldInTime
<1>8. ~mishap' /\ Busy(j, job[j]) => Busy(j, q)
  BY <1>1, <1>3 DEF Busy
<1>9. deaths' \in 0..MaxDeaths /\ deaths' >= deaths /\ mishap' \in BOOLEAN /\ (mishap => mishap')
  BY <1>1, <1>2
<1> QED
  BY <1>1, <1>2, <1>3, <1>4, <1>6, <1>7, <1>8, <1>9, JobSteps

LEMMA AgainTyped ==
    ASSUME NEW x \in JobState
    PROVE  /\ Again(x) \in JobState /\ Again(x).state = "waiting" /\ Again(x).step = "none"
           /\ Again(x).tries = x.tries /\ Again(x).stalls = x.stalls
           /\ Again(x).gaveUp = x.gaveUp /\ Again(x).told = x.told
BY DEF Again, JobState

LEMMA FailedTyped ==
    ASSUME NEW x \in JobState
    PROVE  /\ Failed(x) \in JobState /\ Failed(x).state = "failed"
           /\ Failed(x).gaveUp = x.gaveUp /\ Failed(x).told = 0
<1>1. MaxAttempts \in Nat \ {0}
  BY AvatarConstants
<1>2. 0 \in 0..(MaxAttempts - 1)
  BY <1>1
<1>3. NoJob \in JobState /\ NoJob.told = 0
  BY <1>2 DEF NoJob, JobState, Over
<1>4. "failed" \in Over
  BY DEF Over
<1> QED
  BY <1>3, <1>4 DEF Failed, JobState

\* A run that threw counts as an attempt; the last one ends the job.
LEMMA RetryKeeps ==
    ASSUME PipelineInv, NEW j \in Jobs, RetryOrFailJob(j)
    PROVE  PipelineInv'
<1>1. /\ job[j].state = "active" /\ job[j].step = "thrown"
      /\ UNCHANGED <<profileVars, request, deaths, mishap>>
  BY DEF RetryOrFailJob, At
<1>2. /\ job[j] \in JobState /\ job \in [Jobs -> JobState] /\ MaxAttempts \in Nat \ {0}
      /\ job[j].tries \in 0..(MaxAttempts - 1) /\ job[j].told \in Nat /\ deaths \in Nat
  BY JobsTyped DEF PipelineInv
<1>3. /\ deaths' \in 0..MaxDeaths /\ deaths' >= deaths
      /\ mishap' \in BOOLEAN /\ (mishap => mishap') /\ UNCHANGED <<profileVars, request>>
  BY <1>1, <1>2 DEF PipelineInv, AvatarTypeOK
<1>4. AttemptsStand(job[j], mishap) /\ ToldInTime(job[j], deaths)
  BY DEF PipelineInv, JobsStand
<1>5. CASE job[j].tries + 1 < MaxAttempts
  <2> DEFINE q == [Again(job[j]) EXCEPT !.tries = job[j].tries + 1]
  <2>1. job' = [job EXCEPT ![j] = q]
    BY <1>5 DEF RetryOrFailJob
  <2>2. job[j].tries + 1 \in 0..(MaxAttempts - 1)
    BY <1>2, <1>5
  <2>3. /\ q \in JobState /\ q.state = "waiting" /\ q.step = "none"
        /\ q.gaveUp = job[j].gaveUp /\ q.stalls = job[j].stalls /\ q.told = job[j].told
    BY <1>2, <2>2, AgainTyped DEF JobState
  <2> HIDE DEF q
  <2>4. job[j].gaveUp => job[j].stalls > 0
    BY <1>1, <1>2, <1>4, <1>5 DEF AttemptsStand
  <2>5. AttemptsStand(q, mishap')
    BY <2>3, <2>4 DEF AttemptsStand
  <2>6. ToldInTime(q, deaths')
    BY <1>1, <1>2, <1>4, <2>3 DEF ToldInTime
  <2>7. Busy(j, q) /\ q.step # "saved"
    BY <2>3 DEF Busy
  <2> QED
    BY <1>3, <2>1, <2>3, <2>5, <2>6, <2>7, JobSteps
<1>6. CASE ~(job[j].tries + 1 < MaxAttempts)
  <2> DEFINE q == Failed(job[j])
  <2>1. job' = [job EXCEPT ![j] = q]
    BY <1>6 DEF RetryOrFailJob
  <2>2. /\ q \in JobState /\ q.state = "failed" /\ q.gaveUp = job[j].gaveUp /\ q.told = 0
    BY <1>2, FailedTyped
  <2> HIDE DEF q
  <2>3. ~mishap => job[j].gaveUp
    BY <1>1, <1>4, <1>6 DEF AttemptsStand
  <2>4. AttemptsStand(q, mishap')
    BY <1>1, <2>2, <2>3 DEF AttemptsStand
  <2>5. ToldInTime(q, deaths')
    BY <1>1, <1>2, <2>2 DEF ToldInTime
  <2>6. ~Busy(j, job[j])
    BY <1>1, <1>6 DEF Busy
  <2> QED
    BY <1>3, <2>1, <2>2, <2>4, <2>5, <2>6, JobSteps
<1> QED
  BY <1>5, <1>6

LEMMA StepFailsKeeps ==
    ASSUME PipelineInv, NEW j \in Jobs, JobStepFails(j)
    PROVE  PipelineInv'
<1> DEFINE s == IF job[j].step \in {"started", "failing", "apologizing"}
                THEN "thrown" ELSE "failing"
<1>1. PICK sent \in {0, 1} :
        job' = [job EXCEPT ![j].told = job[j].told + sent, ![j].step = s]
  BY JobsTyped DEF JobStepFails, PipelineInv
<1>2. /\ job[j].state = "active" /\ job[j].step \notin {"done", "thrown"}
      /\ UNCHANGED <<profileVars, request>> /\ deaths' = deaths + 1 /\ deaths < MaxDeaths
      /\ mishap' = IF job[j].step \in {"started", "failing"} THEN TRUE ELSE mishap
  BY DEF JobStepFails, MayFail, Mishap
<1>3. /\ job[j] \in JobState /\ job \in [Jobs -> JobState]
      /\ job[j].told \in Nat /\ deaths \in Nat /\ mishap \in BOOLEAN
      /\ deaths \in 0..MaxDeaths /\ MaxDeaths \in Nat
  BY JobsTyped, AvatarConstants DEF PipelineInv, AvatarTypeOK
<1>4. /\ deaths' \in 0..MaxDeaths /\ deaths' >= deaths
      /\ mishap' \in BOOLEAN /\ (mishap => mishap')
  <2>1. deaths' \in 0..MaxDeaths /\ deaths' >= deaths
    BY <1>2, <1>3
  <2>2. mishap' = TRUE \/ mishap' = mishap
    BY <1>2, Zenon
  <2> QED
    BY <1>3, <2>1, <2>2
<1>5. AttemptsStand(job[j], mishap) /\ ToldInTime(job[j], deaths)
  BY DEF PipelineInv, JobsStand
<1> DEFINE q == [job[j] EXCEPT !.told = job[j].told + sent, !.step = s]
<1>6. job' = [job EXCEPT ![j] = q]
  BY <1>1, <1>3
<1>7. /\ s \in {"thrown", "failing"} /\ job[j].told + sent \in Nat
      /\ q \in JobState /\ q.state = "active" /\ q.step = s
      /\ q.tries = job[j].tries /\ q.told = job[j].told + sent
      /\ q.gaveUp = job[j].gaveUp /\ q.stalls = job[j].stalls
  <2>1. s \in {"thrown", "failing"} /\ job[j].told + sent \in Nat
    BY <1>3
  <2> HIDE DEF s
  <2> QED
    BY <1>2, <1>3, <2>1 DEF JobState
<1> HIDE DEF q
<1>8. AttemptsStand(q, mishap')
  <2>1. job[j].step \notin {"failing", "started"} \/ mishap'
    BY <1>2
  <2>2. s = "thrown" <=> job[j].step \in {"started", "failing", "apologizing"}
    OBVIOUS
  <2> HIDE DEF s
  <2> QED
    BY <1>2, <1>5, <1>7, <2>1, <2>2 DEF AttemptsStand
<1>9. ToldInTime(q, deaths')
  <2>1. job[j].told <= deaths
    BY <1>2, <1>3, <1>5 DEF ToldInTime
  <2> QED
    BY <1>2, <1>3, <1>7, <2>1 DEF ToldInTime
<1>10. ~mishap' /\ Busy(j, job[j]) => Busy(j, q)
  BY <1>2, <1>7 DEF Busy
<1>11. q.step # "saved"
  BY <1>7
<1> QED
  BY <1>2, <1>4, <1>6, <1>7, <1>8, <1>9, <1>10, <1>11, JobSteps

LEMMA WorkerDiesKeeps ==
    ASSUME PipelineInv, NEW j \in Jobs, WorkerDies(j)
    PROVE  PipelineInv'
<1>1. /\ job[j].state = "active" /\ mishap' = TRUE
      /\ UNCHANGED <<profileVars, request>> /\ deaths' = deaths + 1 /\ deaths < MaxDeaths
  BY DEF WorkerDies, MayFail, Mishap
<1>2. /\ job[j] \in JobState /\ job \in [Jobs -> JobState]
      /\ job[j].told \in Nat /\ deaths \in Nat /\ MaxDeaths \in Nat
  BY JobsTyped, AvatarConstants DEF PipelineInv
<1>3. /\ deaths' \in 0..MaxDeaths /\ deaths' >= deaths
      /\ mishap' \in BOOLEAN /\ (mishap => mishap')
  BY <1>1, <1>2
<1>4. job[j].told <= deaths + 1
  BY <1>2 DEF PipelineInv, JobsStand, ToldInTime
<1>5. CASE job[j].stalls = 0
  <2> DEFINE q == [Again(job[j]) EXCEPT !.stalls = 1]
  <2>1. job' = [job EXCEPT ![j] = q]
    BY <1>5 DEF WorkerDies
  <2>2. /\ q \in JobState /\ q.state = "waiting" /\ q.step = "none"
        /\ q.stalls = 1 /\ q.told = job[j].told
    BY <1>2, AgainTyped DEF JobState
  <2> HIDE DEF q
  <2>3. AttemptsStand(q, mishap')
    BY <2>2 DEF AttemptsStand
  <2>4. ToldInTime(q, deaths')
    BY <1>1, <1>2, <1>4, <2>2 DEF ToldInTime
  <2> QED
    BY <1>1, <1>3, <2>1, <2>2, <2>3, <2>4, JobSteps
<1>6. CASE job[j].stalls # 0
  <2> DEFINE q == Failed(job[j])
  <2>1. job' = [job EXCEPT ![j] = q]
    BY <1>6 DEF WorkerDies
  <2>2. q \in JobState /\ q.state = "failed" /\ q.told = 0
    BY <1>2, FailedTyped
  <2> HIDE DEF q
  <2>3. AttemptsStand(q, mishap')
    BY <1>1, <2>2 DEF AttemptsStand
  <2>4. ToldInTime(q, deaths')
    BY <1>1, <1>2, <2>2 DEF ToldInTime
  <2> QED
    BY <1>1, <1>3, <2>1, <2>2, <2>3, <2>4, JobSteps
<1> QED
  BY <1>5, <1>6
-----------------------------------------------------------------------------
(* The steps of a job that write the profile.                              *)

LEMMA MarkProcessingKeeps ==
    ASSUME PipelineInv, NEW j \in Jobs, MarkProcessing(j)
    PROVE  PipelineInv'
<1> DEFINE q == [job[j] EXCEPT !.step = "marked"]
           s == IF job[j].tries > 0 THEN "retrying" ELSE "processing"
<1>1. /\ job[j].state = "active" /\ job[j].step = "started"
      /\ progress' = [progress EXCEPT ![Kind(j)] = s]
      /\ job' = [job EXCEPT ![j].step = "marked"]
      /\ UNCHANGED <<avatar, embedding, verified, validated, request, deaths>>
      /\ mishap' = IF j \in Keys /\ avatar # j THEN TRUE ELSE mishap
  BY DEF MarkProcessing, At, SetProgress, GotoStep, MishapIfSuperseded, Mishap
<1>2. /\ job[j] \in JobState /\ job \in [Jobs -> JobState]
      /\ job[j].told \in Nat /\ deaths \in Nat /\ deaths \in 0..MaxDeaths
      /\ mishap \in BOOLEAN
      /\ embedding \in Images \cup {None} /\ verified \in BOOLEAN /\ validated \in BOOLEAN
      /\ progress \in [{"vector", "validation"} -> Progress]
  BY JobsTyped DEF PipelineInv, AvatarTypeOK
<1>3. s \in Progress /\ s \in Unfinished
  BY DEF Progress, Unfinished
<1> HIDE DEF s
<1>4. /\ q \in JobState /\ q.state = "active" /\ q.step = "marked"
      /\ q.tries = job[j].tries /\ q.told = job[j].told
      /\ q.gaveUp = job[j].gaveUp /\ q.stalls = job[j].stalls
      /\ job' = [job EXCEPT ![j] = q]
  BY <1>1, <1>2 DEF JobState
<1> HIDE DEF q
<1>5. AttemptsStand(job[j], mishap) /\ ToldInTime(job[j], deaths)
  BY DEF PipelineInv, JobsStand
<1>6. AttemptsStand(q, mishap') /\ ToldInTime(q, deaths')
  BY <1>1, <1>2, <1>4, <1>5 DEF AttemptsStand, ToldInTime
<1>7. mishap' = TRUE \/ mishap' = mishap
  BY <1>1, Zenon
<1>8. ~mishap' => (j \in Keys => avatar = j)
  BY <1>1
<1>9. ~mishap' => Busy(j, q)
  BY <1>4, <1>8 DEF Busy
<1>10. progress' \in [{"vector", "validation"} -> Progress]
  BY <1>1, <1>2, <1>3
<1>11. StatusesAreDue'
  BY <1>1, <1>3, <1>4, <1>7, <1>9, StatusWrites DEF Unfinished
<1>12. deaths' \in 0..MaxDeaths /\ deaths' >= deaths
  BY <1>1, <1>2
<1> QED
  BY <1>1, <1>2, <1>4, <1>6, <1>7, <1>10, <1>11, <1>12, JobWrites

LEMMA HandleFailureKeeps ==
    ASSUME PipelineInv, NEW j \in Jobs, HandleFailure(j)
    PROVE  PipelineInv'
<1> DEFINE willRetry == job[j].tries + 1 < MaxAttempts
           s == IF willRetry THEN "retrying" ELSE "failed"
           step == IF willRetry THEN "thrown" ELSE "apologizing"
           q == [job[j] EXCEPT !.step = step, !.gaveUp = ~willRetry]
<1>1. /\ job[j].state = "active" /\ job[j].step = "failing"
      /\ progress' = [progress EXCEPT ![Kind(j)] = s]
      /\ job' = [job EXCEPT ![j].step = step, ![j].gaveUp = ~willRetry]
      /\ UNCHANGED <<avatar, embedding, verified, validated, request, deaths>>
      /\ mishap' = IF j \in Keys /\ avatar # j THEN TRUE ELSE mishap
  BY DEF HandleFailure, At, SetProgress, MishapIfSuperseded, Mishap
<1>2. /\ job[j] \in JobState /\ job \in [Jobs -> JobState]
      /\ job[j].told \in Nat /\ deaths \in Nat /\ deaths \in 0..MaxDeaths
      /\ job[j].tries \in Nat /\ MaxAttempts \in Nat
      /\ mishap \in BOOLEAN
      /\ embedding \in Images \cup {None} /\ verified \in BOOLEAN /\ validated \in BOOLEAN
      /\ progress \in [{"vector", "validation"} -> Progress]
  BY JobsTyped DEF PipelineInv, AvatarTypeOK
<1>3. /\ s \in Progress /\ s # "completed" /\ step \in {"thrown", "apologizing"}
      /\ (s \in Unfinished => willRetry) /\ (willRetry <=> step = "thrown")
  BY DEF Progress, Unfinished
<1>4. q \in JobState /\ job' = [job EXCEPT ![j] = q]
  <2> HIDE DEF step, willRetry
  <2> QED
    BY <1>1, <1>2, <1>3 DEF JobState
<1>5. /\ q.state = "active" /\ q.step = step /\ q.gaveUp = ~willRetry
      /\ q.tries = job[j].tries /\ q.told = job[j].told
  <2> HIDE DEF step, willRetry
  <2> QED
    BY <1>1, <1>2 DEF JobState
<1> HIDE DEF q, s, step
<1>6. AttemptsStand(q, mishap')
  <2>1. CASE willRetry
    <3>1. q.gaveUp = FALSE /\ q.step = "thrown" /\ q.tries + 1 < MaxAttempts
      BY <1>3, <1>5, <2>1, Zenon
    <3> QED
      BY <1>5, <3>1 DEF AttemptsStand
  <2>2. CASE ~willRetry
    <3>1. q.gaveUp = TRUE
      BY <1>5, <2>2, Zenon
    <3>2. q.step = "apologizing" /\ q.tries + 1 >= MaxAttempts
      <4>1. job[j].tries + 1 >= MaxAttempts
        BY <1>2, <2>2
      <4> QED
        BY <1>3, <1>5, <2>2, <4>1, Zenon
    <3> HIDE DEF willRetry
    <3> QED
      BY <1>5, <3>1, <3>2 DEF AttemptsStand
  <2> QED
    BY <2>1, <2>2
<1>7. ToldInTime(job[j], deaths)
  BY DEF PipelineInv, JobsStand
<1>8. ToldInTime(q, deaths')
  BY <1>1, <1>2, <1>5, <1>7 DEF ToldInTime
<1>9. mishap' = TRUE \/ mishap' = mishap
  BY <1>1, Zenon
<1>10. willRetry => Busy(j, q)
  BY <1>3, <1>5 DEF Busy
<1>11. progress' \in [{"vector", "validation"} -> Progress]
  BY <1>1, <1>2, <1>3
<1>12. StatusesAreDue'
  <2>1. q.step # "saved"
    BY <1>3, <1>5
  <2> HIDE DEF willRetry
  <2> QED
    BY <1>1, <1>3, <1>4, <1>9, <1>10, <2>1, StatusWrites
<1>13. deaths' \in 0..MaxDeaths /\ deaths' >= deaths
  BY <1>1, <1>2
<1> QED
  BY <1>1, <1>2, <1>4, <1>6, <1>8, <1>9, <1>11, <1>12, <1>13, JobWrites
LEMMA SaveVectorKeeps ==
    ASSUME PipelineInv, NEW k \in Keys, SaveVector(k)
    PROVE  PipelineInv'
<1> DEFINE q == [job[k] EXCEPT !.step = "saved"]
<1>1. /\ job[k].state = "active" /\ job[k].step = "matched"
      /\ embedding' = k /\ progress' = [progress EXCEPT !["vector"] = "completed"]
      /\ job' = [job EXCEPT ![k].step = "saved"]
      /\ UNCHANGED <<avatar, verified, validated, request, deaths>>
      /\ mishap' = IF avatar # k THEN TRUE ELSE mishap
  BY DEF SaveVector, WriteVector, At, SetProgress, GotoStep, MishapIfSuperseded, Mishap
<1>2. /\ job[k] \in JobState /\ job \in [Jobs -> JobState] /\ k \in Jobs
      /\ job[k].told \in Nat /\ deaths \in Nat /\ deaths \in 0..MaxDeaths
      /\ mishap \in BOOLEAN /\ verified \in BOOLEAN /\ validated \in BOOLEAN
      /\ progress \in [{"vector", "validation"} -> Progress]
  BY JobsTyped DEF PipelineInv, AvatarTypeOK, Jobs
<1>3. "completed" \in Progress /\ "completed" \notin Unfinished
  BY DEF Progress, Unfinished
<1>4. k # None /\ Kind(k) = "vector" /\ embedding' \in Images \cup {None}
  BY <1>1, AvatarConstants DEF Kind, Images
<1>5. /\ q \in JobState /\ q.state = "active" /\ q.step = "saved"
      /\ q.tries = job[k].tries /\ q.told = job[k].told
      /\ q.gaveUp = job[k].gaveUp /\ q.stalls = job[k].stalls
      /\ job' = [job EXCEPT ![k] = q]
  BY <1>1, <1>2 DEF JobState
<1> HIDE DEF q
<1>6. AttemptsStand(job[k], mishap) /\ ToldInTime(job[k], deaths)
  BY <1>2 DEF PipelineInv, JobsStand
<1>7. AttemptsStand(q, mishap') /\ ToldInTime(q, deaths')
  BY <1>1, <1>2, <1>5, <1>6 DEF AttemptsStand, ToldInTime
<1>8. mishap' = TRUE \/ mishap' = mishap
  BY <1>1, Zenon
<1>9. progress' \in [{"vector", "validation"} -> Progress]
  BY <1>1, <1>2, <1>3
<1>10. StatusesAreDue'
  BY <1>1, <1>2, <1>3, <1>4, <1>5, <1>8, StatusWrites
<1>11. deaths' \in 0..MaxDeaths /\ deaths' >= deaths
  BY <1>1, <1>2
<1> QED
  BY <1>1, <1>2, <1>4, <1>5, <1>7, <1>8, <1>9, <1>10, <1>11, JobWrites

LEMMA SaveResultKeeps ==
    ASSUME PipelineInv, NEW v \in Validations, SaveResult(v)
    PROVE  PipelineInv'
<1> DEFINE q == [job[v] EXCEPT !.step = "saved"]
<1>1. /\ job[v].state = "active" /\ job[v].step = "answered"
      /\ verified' = job[v].result /\ validated' = TRUE
      /\ progress' = [progress EXCEPT !["validation"] = "completed"]
      /\ job' = [job EXCEPT ![v].step = "saved"]
      /\ UNCHANGED <<avatar, embedding, request, deaths, mishap>>
  BY DEF SaveResult, WriteResult, At, SetProgress, GotoStep
<1>2. /\ job[v] \in JobState /\ job \in [Jobs -> JobState] /\ v \in Jobs
      /\ job[v].told \in Nat /\ deaths \in Nat /\ deaths \in 0..MaxDeaths
      /\ mishap \in BOOLEAN /\ job[v].result \in BOOLEAN
      /\ embedding \in Images \cup {None}
      /\ progress \in [{"vector", "validation"} -> Progress]
  BY JobsTyped DEF PipelineInv, AvatarTypeOK, Jobs
<1>3. "completed" \in Progress /\ "completed" \notin Unfinished
  BY DEF Progress, Unfinished
<1>4. v \notin Keys /\ Kind(v) = "validation"
  BY AvatarConstants DEF Kind
<1>5. /\ q \in JobState /\ q.state = "active" /\ q.step = "saved"
      /\ q.tries = job[v].tries /\ q.told = job[v].told
      /\ q.gaveUp = job[v].gaveUp /\ q.stalls = job[v].stalls
      /\ job' = [job EXCEPT ![v] = q]
  BY <1>1, <1>2 DEF JobState
<1> HIDE DEF q
<1>6. AttemptsStand(job[v], mishap) /\ ToldInTime(job[v], deaths)
  BY <1>2 DEF PipelineInv, JobsStand
<1>7. AttemptsStand(q, mishap') /\ ToldInTime(q, deaths')
  BY <1>1, <1>2, <1>5, <1>6 DEF AttemptsStand, ToldInTime
<1>8. progress' \in [{"vector", "validation"} -> Progress]
  BY <1>1, <1>2, <1>3
<1>9. StatusesAreDue'
  BY <1>1, <1>2, <1>3, <1>4, <1>5, StatusWrites
<1>10. deaths' \in 0..MaxDeaths /\ deaths' >= deaths
  BY <1>1, <1>2
<1>11. verified' \in BOOLEAN /\ validated' \in BOOLEAN
  BY <1>1, <1>2, Zenon
<1> QED
  BY <1>1, <1>2, <1>5, <1>7, <1>8, <1>9, <1>10, <1>11, JobWrites

\* A job that completes the status without a vector: the avatar was uploaded
\* anew meanwhile, and that request has yet to queue it.
LEMMA WriteCompletedKeeps ==
    ASSUME PipelineInv, NEW j \in Jobs, WriteCompleted(j)
    PROVE  PipelineInv'
<1> DEFINE step == IF j \in Keys THEN "done" ELSE "reporting"
           q == [job[j] EXCEPT !.step = step]
<1>1. /\ job[j].state = "active" /\ job[j].step = "saved"
      /\ progress' = [progress EXCEPT ![Kind(j)] = "completed"]
      /\ job' = [job EXCEPT ![j].step = step]
      /\ UNCHANGED <<avatar, embedding, verified, validated, request, deaths>>
      /\ mishap' = IF j \in Keys /\ avatar # j THEN TRUE ELSE mishap
  BY DEF WriteCompleted, At, SetProgress, GotoStep, MishapIfSuperseded, Mishap
<1>2. /\ job[j] \in JobState /\ job \in [Jobs -> JobState]
      /\ job[j].told \in Nat /\ deaths \in Nat /\ deaths \in 0..MaxDeaths
      /\ mishap \in BOOLEAN
      /\ embedding \in Images \cup {None} /\ verified \in BOOLEAN /\ validated \in BOOLEAN
      /\ progress \in [{"vector", "validation"} -> Progress]
  BY JobsTyped DEF PipelineInv, AvatarTypeOK
<1>3. "completed" \in Progress /\ "completed" \notin Unfinished
  BY DEF Progress, Unfinished
<1>4. step \in {"done", "reporting"}
  OBVIOUS
<1> HIDE DEF step
<1>5. /\ q \in JobState /\ q.state = "active" /\ q.step = step
      /\ q.tries = job[j].tries /\ q.told = job[j].told
      /\ q.gaveUp = job[j].gaveUp /\ q.stalls = job[j].stalls
      /\ job' = [job EXCEPT ![j] = q]
  BY <1>1, <1>2, <1>4 DEF JobState
<1> HIDE DEF q
<1>6. AttemptsStand(job[j], mishap) /\ ToldInTime(job[j], deaths)
  BY DEF PipelineInv, JobsStand
<1>7. AttemptsStand(q, mishap')
  BY <1>1, <1>4, <1>5, <1>6 DEF AttemptsStand
<1>8. ToldInTime(q, deaths')
  BY <1>1, <1>2, <1>5, <1>6 DEF ToldInTime
<1>9. mishap' = TRUE \/ mishap' = mishap
  BY <1>1, Zenon
<1>10. ~mishap' /\ j \in Keys => embedding' # None \/ InStage({"reset", "queuing"})
  <2> SUFFICES ASSUME ~mishap', j \in Keys, embedding = None
               PROVE  InStage({"reset", "queuing"})
    BY <1>1
  <2>1. ~mishap /\ avatar = j
    BY <1>1, <1>9
  <2>2. \E r \in Requests : request[r].stage \in {"reset", "queuing"} /\ request[r].key = j
    BY <1>1, <2>1 DEF PipelineInv, StatusesAreDue, At
  <2> QED
    BY <2>2 DEF InStage
<1>11. progress' \in [{"vector", "validation"} -> Progress]
  BY <1>1, <1>2, <1>3
<1>12. StatusesAreDue'
  BY <1>1, <1>3, <1>4, <1>5, <1>9, <1>10, StatusWrites
<1>13. deaths' \in 0..MaxDeaths /\ deaths' >= deaths
  BY <1>1, <1>2
<1> QED
  BY <1>1, <1>2, <1>5, <1>7, <1>8, <1>9, <1>11, <1>12, <1>13, JobWrites
-----------------------------------------------------------------------------
(* The steps of requests and endpoints.                                    *)

\* A step of a request that changes its slot and a status at most.
LEMMA SlotSteps ==
    ASSUME PipelineInv, NEW r \in Requests, NEW q \in RequestState,
           UNCHANGED <<avatar, embedding, verified, validated, job, deaths, mishap>>,
           request' = [request EXCEPT ![r] = q],
           progress' \in [{"vector", "validation"} -> Progress],
           q.stage # "idle" => avatar # None,
           q.stage \in {"reset", "queuing"} => q.key \in Keys,
           StatusesAreDue'
    PROVE  PipelineInv'
<1>1. AvatarTypeOK'
  BY DEF PipelineInv, AvatarTypeOK
<1>2. RequestsHaveAvatar'
  BY DEF PipelineInv, AvatarTypeOK, RequestsHaveAvatar
<1>3. JobsStand'
  BY DEF PipelineInv, JobsStand, AttemptsStand, ToldInTime
<1> QED
  BY <1>1, <1>2, <1>3 DEF PipelineInv

\* What is due does not change with a slot that was not one of those waited for.
LEMMA StagesKept ==
    ASSUME PipelineInv, NEW r \in Requests, NEW q \in RequestState,
           request' = [request EXCEPT ![r] = q], NEW stages
    PROVE  /\ request'[r] = q
           /\ \A o \in Requests : o # r => request'[o] = request[o]
           /\ q.stage \in stages => InStage(stages)'
           /\ InStage(stages) /\ request[r].stage \notin stages => InStage(stages)'
<1>1. request'[r] = q /\ \A o \in Requests : o # r => request'[o] = request[o]
  BY DEF PipelineInv, AvatarTypeOK
<1> QED
  BY <1>1 DEF InStage

LEMMA ConfirmUploadKeeps ==
    ASSUME PipelineInv, NEW r \in Requests, NEW k \in Keys, ConfirmUpload(r, k)
    PROVE  PipelineInv'
<1> DEFINE q == [stage |-> "reset", key |-> k]
<1>1. /\ request' = [request EXCEPT ![r] = q]
      /\ avatar' = k /\ embedding' = None /\ verified' = FALSE /\ validated' = FALSE
      /\ progress' = [kind \in {"vector", "validation"} |-> "idle"]
      /\ UNCHANGED <<job, deaths, mishap>>
  BY DEF ConfirmUpload, NothingBegun
<1>2. q \in RequestState /\ q.stage = "reset" /\ q.key = k
  BY DEF RequestState
<1> HIDE DEF q
<1>3. /\ request' \in [Requests -> RequestState] /\ request'[r] = q
      /\ \A o \in Requests : o # r => request'[o] = request[o]
  BY <1>1, <1>2 DEF PipelineInv, AvatarTypeOK
<1>4. k \in Images /\ k # None /\ "idle" \in Progress /\ "idle" \notin Unfinished
  BY AvatarConstants DEF Images, Progress, Unfinished
<1>5. AvatarTypeOK'
  BY <1>1, <1>3, <1>4 DEF PipelineInv, AvatarTypeOK
<1>6. RequestsHaveAvatar'
  BY <1>1, <1>2, <1>3, <1>4 DEF PipelineInv, RequestsHaveAvatar
<1>7. JobsStand'
  BY <1>1 DEF PipelineInv, JobsStand, AttemptsStand, ToldInTime
<1>8. progress'["vector"] = "idle" /\ progress'["validation"] = "idle"
  BY <1>1
<1>9. \A i \in Keys : avatar' = i =>
        \E o \in Requests : request'[o].stage \in {"reset", "queuing"} /\ request'[o].key = i
  BY <1>1, <1>2, <1>3
<1>10. StatusesAreDue'
  BY <1>4, <1>8, <1>9 DEF StatusesAreDue
<1> QED
  BY <1>5, <1>6, <1>7, <1>10 DEF PipelineInv

LEMMA MarkVectorQueuedKeeps ==
    ASSUME PipelineInv, NEW r \in Requests, MarkVectorQueued(r)
    PROVE  PipelineInv'
<1> DEFINE q == [request[r] EXCEPT !.stage = "queuing"]
<1>1. /\ request[r].stage = "reset" /\ progress' = [progress EXCEPT !["vector"] = "queued"]
      /\ request' = [request EXCEPT ![r].stage = "queuing"]
      /\ UNCHANGED <<avatar, embedding, verified, validated, job, deaths, mishap>>
  BY DEF MarkVectorQueued, SetProgress, GotoStage
<1>2. /\ request \in [Requests -> RequestState] /\ request[r] \in RequestState
      /\ progress \in [{"vector", "validation"} -> Progress]
      /\ avatar # None /\ request[r].key \in Keys
  BY <1>1 DEF PipelineInv, AvatarTypeOK, RequestsHaveAvatar
<1>3. /\ q \in RequestState /\ q.stage = "queuing" /\ q.key = request[r].key
      /\ request' = [request EXCEPT ![r] = q]
  BY <1>1, <1>2 DEF RequestState
<1> HIDE DEF q
<1>4. "queued" \in Progress
  BY DEF Progress, Unfinished
<1>5. /\ progress' \in [{"vector", "validation"} -> Progress]
      /\ progress'["vector"] = "queued" /\ progress'["validation"] = progress["validation"]
  BY <1>1, <1>2, <1>4
<1>6. InStage({"queuing"})'
  BY <1>3, StagesKept
<1>7. InStage({"requested"}) => InStage({"requested"})'
  BY <1>1, <1>3, StagesKept
<1>8. (VectorDue' <=> VectorDue) /\ (ValidationDue' <=> ValidationDue)
  BY <1>1 DEF VectorDue, ValidationDue, Busy
<1>9. \A k \in Keys, o \in Requests :
        request[o].stage \in {"reset", "queuing"} /\ request[o].key = k =>
        request'[o].stage \in {"reset", "queuing"} /\ request'[o].key = k
  BY <1>3, StagesKept
<1>10. \A k \in Keys : At(k, "saved")' => At(k, "saved")
  BY <1>1 DEF At
<1>11. StatusesAreDue'
  BY <1>1, <1>5, <1>6, <1>7, <1>8, <1>9, <1>10 DEF PipelineInv, StatusesAreDue
<1> QED
  BY <1>1, <1>2, <1>3, <1>5, <1>11, SlotSteps

LEMMA AcceptValidationKeeps ==
    ASSUME PipelineInv, NEW r \in Requests, AcceptValidation(r)
    PROVE  PipelineInv'
<1> DEFINE q == [request[r] EXCEPT !.stage = "accepted"]
<1>1. /\ request[r].stage = "idle" /\ avatar # None
      /\ request' = [request EXCEPT ![r].stage = "accepted"]
      /\ UNCHANGED <<profileVars, job, deaths, mishap>>
  BY DEF AcceptValidation, GotoStage
<1>2. /\ request \in [Requests -> RequestState] /\ request[r] \in RequestState
      /\ progress \in [{"vector", "validation"} -> Progress]
  BY DEF PipelineInv, AvatarTypeOK
<1>3. /\ q \in RequestState /\ q.stage = "accepted"
      /\ request' = [request EXCEPT ![r] = q]
  BY <1>1, <1>2 DEF RequestState
<1> HIDE DEF q
<1>4. /\ InStage({"queuing"}) => InStage({"queuing"})'
      /\ InStage({"requested"}) => InStage({"requested"})'
      /\ InStage({"reset", "queuing"}) => InStage({"reset", "queuing"})'
  BY <1>1, <1>3, StagesKept
<1>5. (VectorDue' <=> VectorDue) /\ (ValidationDue' <=> ValidationDue)
  BY <1>1 DEF VectorDue, ValidationDue, Busy, profileVars
<1>6. \A k \in Keys, o \in Requests :
        request[o].stage \in {"reset", "queuing"} /\ request[o].key = k =>
        request'[o].stage \in {"reset", "queuing"} /\ request'[o].key = k
  BY <1>1, <1>3, StagesKept
<1>7. \A k \in Keys : At(k, "saved")' => At(k, "saved")
  BY <1>1 DEF At
<1>8. StatusesAreDue'
  BY <1>1, <1>4, <1>5, <1>6, <1>7 DEF PipelineInv, StatusesAreDue, profileVars
<1> QED
  BY <1>1, <1>2, <1>3, <1>8, SlotSteps DEF profileVars

LEMMA MarkValidationQueuedKeeps ==
    ASSUME PipelineInv, NEW r \in Requests, MarkValidationQueued(r)
    PROVE  PipelineInv'
<1> DEFINE q == [request[r] EXCEPT !.stage = "requested"]
<1>1. /\ request[r].stage = "accepted"
      /\ progress' = [progress EXCEPT !["validation"] = "queued"]
      /\ request' = [request EXCEPT ![r].stage = "requested"]
      /\ UNCHANGED <<avatar, embedding, verified, validated, job, deaths, mishap>>
  BY DEF MarkValidationQueued, SetProgress, GotoStage
<1>2. /\ request \in [Requests -> RequestState] /\ request[r] \in RequestState
      /\ progress \in [{"vector", "validation"} -> Progress] /\ avatar # None
  BY <1>1 DEF PipelineInv, AvatarTypeOK, RequestsHaveAvatar
<1>3. /\ q \in RequestState /\ q.stage = "requested"
      /\ request' = [request EXCEPT ![r] = q]
  BY <1>1, <1>2 DEF RequestState
<1> HIDE DEF q
<1>4. "queued" \in Progress
  BY DEF Progress, Unfinished
<1>5. /\ progress' \in [{"vector", "validation"} -> Progress]
      /\ progress'["vector"] = progress["vector"]
  BY <1>1, <1>2, <1>4
<1>6. /\ InStage({"requested"})'
      /\ InStage({"queuing"}) => InStage({"queuing"})'
      /\ InStage({"reset", "queuing"}) => InStage({"reset", "queuing"})'
  BY <1>1, <1>3, StagesKept
<1>7. VectorDue' <=> VectorDue
  BY <1>1 DEF VectorDue, Busy
<1>8. \A k \in Keys, o \in Requests :
        request[o].stage \in {"reset", "queuing"} /\ request[o].key = k =>
        request'[o].stage \in {"reset", "queuing"} /\ request'[o].key = k
  BY <1>1, <1>3, StagesKept
<1>9. \A k \in Keys : At(k, "saved")' => At(k, "saved")
  BY <1>1 DEF At
<1>10. StatusesAreDue'
  BY <1>1, <1>5, <1>6, <1>7, <1>8, <1>9 DEF PipelineInv, StatusesAreDue
<1> QED
  BY <1>1, <1>2, <1>3, <1>5, <1>10, SlotSteps

LEMMA RequestDiesKeeps ==
    ASSUME PipelineInv, NEW r \in Requests, RequestDies(r)
    PROVE  PipelineInv'
<1>1. /\ request' = [request EXCEPT ![r] = IdleRequest] /\ mishap' = TRUE
      /\ UNCHANGED <<profileVars, job>> /\ deaths' = deaths + 1 /\ deaths < MaxDeaths
  BY DEF RequestDies, MayFail, Mishap
<1>2. IdleRequest \in RequestState /\ IdleRequest.stage = "idle"
  BY DEF IdleRequest, RequestState
<1>3. deaths \in 0..MaxDeaths /\ MaxDeaths \in Nat
  BY AvatarConstants DEF PipelineInv, AvatarTypeOK
<1>4. deaths' \in 0..MaxDeaths
  BY <1>1, <1>3
<1>5. AvatarTypeOK'
  BY <1>1, <1>2, <1>4 DEF PipelineInv, AvatarTypeOK, profileVars
<1>6. RequestsHaveAvatar'
  BY <1>1, <1>2 DEF PipelineInv, AvatarTypeOK, RequestsHaveAvatar, profileVars
<1>7. JobsStand'
  <2> SUFFICES ASSUME NEW j \in Jobs
               PROVE  AttemptsStand(job[j], TRUE) /\ ToldInTime(job[j], deaths + 1)
    BY <1>1 DEF JobsStand, AttemptsStand, ToldInTime
  <2>1. AttemptsStand(job[j], mishap) /\ ToldInTime(job[j], deaths)
    BY DEF PipelineInv, JobsStand
  <2>2. job[j].told \in Nat /\ deaths \in Nat
    BY JobsTyped DEF PipelineInv
  <2> QED
    BY <2>1, <2>2 DEF AttemptsStand, ToldInTime
<1> QED
  BY <1>1, <1>5, <1>6, <1>7 DEF PipelineInv, StatusesAreDue
\* The queue gets one job more, from the request in slot r.
LEMMA AddsKeep ==
    ASSUME PipelineInv, NEW r \in Requests, NEW j \in Jobs, job[j].state = "absent",
           job' = [job EXCEPT ![j] = Added],
           request' = [request EXCEPT ![r] = IdleRequest],
           UNCHANGED <<profileVars, deaths, mishap>>,
           \/ j \in Keys /\ request[r].stage = "queuing" /\ request[r].key = j
           \/ j \in Validations /\ request[r].stage = "requested"
    PROVE  PipelineInv'
<1>1. IdleRequest \in RequestState /\ IdleRequest.stage = "idle"
  BY DEF IdleRequest, RequestState
<1>2. Added \in JobState /\ job \in [Jobs -> JobState] /\ deaths \in Nat
  BY JobsTyped DEF PipelineInv
<1>3. /\ Added.state = "waiting" /\ Added.gaveUp = FALSE /\ Added.told = 0
  BY DEF Added, NoJob
<1>4. /\ job' \in [Jobs -> JobState] /\ job'[j] = Added
      /\ \A i \in Jobs : i # j => job'[i] = job[i]
  BY <1>2
<1>5. AvatarTypeOK'
  BY <1>1, <1>4 DEF PipelineInv, AvatarTypeOK, profileVars
<1>6. RequestsHaveAvatar'
  BY <1>1 DEF PipelineInv, AvatarTypeOK, RequestsHaveAvatar, profileVars
<1>7. JobsStand'
  <2> SUFFICES ASSUME NEW i \in Jobs
               PROVE  AttemptsStand(job'[i], mishap) /\ ToldInTime(job'[i], deaths)
    BY DEF JobsStand, AttemptsStand, ToldInTime
  <2>1. CASE i = j
    <3>1. AttemptsStand(Added, mishap) /\ ToldInTime(Added, deaths)
      BY <1>2, <1>3 DEF AttemptsStand, ToldInTime
    <3> QED
      BY <1>4, <2>1, <3>1
  <2>2. CASE i # j
    BY <1>4, <2>2 DEF PipelineInv, JobsStand
  <2> QED
    BY <2>1, <2>2
<1>8. \A i \in Jobs : Busy(i, job[i]) => Busy(i, job[i])'
  BY <1>3, <1>4 DEF Busy, profileVars
<1>9. Busy(j, job[j])'
  BY <1>3, <1>4 DEF Busy
<1>10. /\ VectorDue => VectorDue' 
       /\ ValidationDue => ValidationDue'
       /\ j \in Keys => VectorDue'
       /\ j \in Validations => ValidationDue'
  BY <1>8, <1>9 DEF VectorDue, ValidationDue, Jobs
<1>11. /\ request[r].stage # "requested" => (InStage({"requested"}) => InStage({"requested"})')
       /\ request[r].stage # "queuing" =>
             /\ InStage({"queuing"}) => InStage({"queuing"})'
             /\ request[r].stage # "reset" =>
                   (InStage({"reset", "queuing"}) => InStage({"reset", "queuing"})')
  BY <1>1, StagesKept
<1>12. ~mishap' => \A k \in Keys : At(k, "saved")' /\ avatar' = k /\ embedding' = None =>
          \E o \in Requests : request'[o].stage \in {"reset", "queuing"} /\ request'[o].key = k
  <2> SUFFICES ASSUME ~mishap', NEW k \in Keys, At(k, "saved")', avatar' = k, embedding' = None
               PROVE  \E o \in Requests :
                         request'[o].stage \in {"reset", "queuing"} /\ request'[o].key = k
    OBVIOUS
  <2>1. k # j /\ k \in Jobs
    BY <1>3, <1>4 DEF At, Jobs
  <2>2. At(k, "saved")
    BY <1>4, <2>1 DEF At
  <2>3. PICK o \in Requests : request[o].stage \in {"reset", "queuing"} /\ request[o].key = k
    BY <2>2 DEF PipelineInv, StatusesAreDue, profileVars
  <2>4. o # r
    BY <2>1, <2>3
  <2> QED
    BY <1>1, <2>3, <2>4, StagesKept
<1>13. StatusesAreDue'
  <2> SUFFICES ASSUME ~mishap'
               PROVE  StatusesAreDue'
    BY DEF StatusesAreDue
  <2>1. CASE j \in Keys /\ request[r].stage = "queuing" /\ request[r].key = j
    BY <1>10, <1>11, <1>12, <2>1 DEF PipelineInv, StatusesAreDue, profileVars
  <2>2. CASE j \in Validations /\ request[r].stage = "requested"
    BY <1>10, <1>11, <1>12, <2>2 DEF PipelineInv, StatusesAreDue, profileVars
  <2> QED
    BY <2>1, <2>2
<1> QED
  BY <1>5, <1>6, <1>7, <1>13 DEF PipelineInv

LEMMA AddVectorJobKeeps ==
    ASSUME PipelineInv, NEW r \in Requests, AddVectorJob(r)
    PROVE  PipelineInv'
<1> DEFINE k == request[r].key
<1>1. k \in Keys /\ k \in Jobs /\ request[r].stage = "queuing"
  BY DEF AddVectorJob, PipelineInv, RequestsHaveAvatar, Jobs
<1>2. CASE job[k].state = "absent"
  BY <1>1, <1>2, AddsKeep DEF AddVectorJob
<1>3. CASE job[k].state # "absent"
  <2>1. /\ mishap' = TRUE /\ request' = [request EXCEPT ![r] = IdleRequest]
        /\ UNCHANGED <<profileVars, job, deaths>>
    BY <1>3 DEF AddVectorJob, Mishap
  <2>2. IdleRequest \in RequestState /\ IdleRequest.stage = "idle"
    BY DEF IdleRequest, RequestState
  <2>3. AvatarTypeOK'
    BY <2>1, <2>2 DEF PipelineInv, AvatarTypeOK, profileVars
  <2>4. RequestsHaveAvatar'
    BY <2>1, <2>2 DEF PipelineInv, AvatarTypeOK, RequestsHaveAvatar, profileVars
  <2>5. JobsStand'
    BY <2>1 DEF PipelineInv, JobsStand, AttemptsStand, ToldInTime
  <2> QED
    BY <2>1, <2>3, <2>4, <2>5 DEF PipelineInv, StatusesAreDue
<1> QED
  BY <1>2, <1>3

LEMMA AddValidationJobKeeps ==
    ASSUME PipelineInv, NEW r \in Requests, NEW v \in Validations, AddValidationJob(r, v)
    PROVE  PipelineInv'
<1>1. v \in Jobs
  BY DEF Jobs
<1> QED
  BY <1>1, AddsKeep DEF AddValidationJob

LEMMA SaveVectorEndpointKeeps ==
    ASSUME PipelineInv, NEW image \in Images, SaveVectorEndpoint(image)
    PROVE  PipelineInv'
<1>1. /\ embedding' = image /\ progress' = [progress EXCEPT !["vector"] = "completed"]
      /\ UNCHANGED <<avatar, verified, validated, request, job, deaths, mishap>>
  BY DEF SaveVectorEndpoint, WriteVector, SetProgress
<1>2. "completed" \in Progress /\ "completed" \notin Unfinished
  BY DEF Progress, Unfinished
<1>3. image # None
  BY AvatarConstants DEF Images
<1>4. /\ progress' \in [{"vector", "validation"} -> Progress]
      /\ progress'["vector"] = "completed" /\ progress'["validation"] = progress["validation"]
  BY <1>1, <1>2 DEF PipelineInv, AvatarTypeOK
<1>5. AvatarTypeOK'
  BY <1>1, <1>4 DEF PipelineInv, AvatarTypeOK
<1>6. RequestsHaveAvatar' /\ JobsStand'
  BY <1>1 DEF PipelineInv, RequestsHaveAvatar, JobsStand, AttemptsStand, ToldInTime
<1>7. (InStage({"requested"})' <=> InStage({"requested"})) /\ (ValidationDue' <=> ValidationDue)
  BY <1>1 DEF InStage, ValidationDue, Busy
<1>8. StatusesAreDue'
  BY <1>1, <1>2, <1>3, <1>4, <1>7 DEF PipelineInv, StatusesAreDue
<1> QED
  BY <1>5, <1>6, <1>8 DEF PipelineInv

LEMMA SaveResultEndpointKeeps ==
    ASSUME PipelineInv, NEW match \in BOOLEAN, SaveResultEndpoint(match)
    PROVE  PipelineInv'
<1>1. /\ verified' = match /\ validated' = TRUE
      /\ progress' = [progress EXCEPT !["validation"] = "completed"]
      /\ UNCHANGED <<avatar, embedding, request, job, deaths, mishap>>
  BY DEF SaveResultEndpoint, WriteResult, SetProgress
<1>2. "completed" \in Progress /\ "completed" \notin Unfinished
  BY DEF Progress, Unfinished
<1>3. /\ progress' \in [{"vector", "validation"} -> Progress]
      /\ progress'["validation"] = "completed" /\ progress'["vector"] = progress["vector"]
  BY <1>1, <1>2 DEF PipelineInv, AvatarTypeOK
<1>4. AvatarTypeOK'
  <2>1. verified' \in BOOLEAN /\ validated' \in BOOLEAN
    BY <1>1, Zenon
  <2> QED
    BY <1>1, <1>3, <2>1 DEF PipelineInv, AvatarTypeOK
<1>5. RequestsHaveAvatar' /\ JobsStand'
  BY <1>1 DEF PipelineInv, RequestsHaveAvatar, JobsStand, AttemptsStand, ToldInTime
<1>6. /\ VectorDue' <=> VectorDue
      /\ InStage({"queuing"})' <=> InStage({"queuing"})
      /\ InStage({"reset", "queuing"})' <=> InStage({"reset", "queuing"})
      /\ \A k \in Keys : At(k, "saved")' <=> At(k, "saved")
  BY <1>1 DEF InStage, VectorDue, Busy, At
<1>7. StatusesAreDue'
  BY <1>1, <1>2, <1>3, <1>6 DEF PipelineInv, StatusesAreDue
<1> QED
  BY <1>4, <1>5, <1>7 DEF PipelineInv

-----------------------------------------------------------------------------
(* The invariant, and what follows from it.                                *)

LEMMA InitInv == AvatarInit => PipelineInv
<1> SUFFICES ASSUME AvatarInit
             PROVE  PipelineInv
  OBVIOUS
<1>1. MaxAttempts \in Nat \ {0} /\ MaxDeaths \in Nat
  BY AvatarConstants
<1>2. 0 \in 0..(MaxAttempts - 1) /\ 0 \in 0..MaxDeaths
  BY <1>1
<1>3. /\ NoJob \in JobState /\ NoJob.state = "absent" /\ NoJob.step = "none"
      /\ NoJob.told = 0
  BY <1>2 DEF JobState, NoJob, Over
<1>4. IdleRequest \in RequestState /\ IdleRequest.stage = "idle"
  BY DEF IdleRequest, RequestState
<1>5. "idle" \in Progress /\ "idle" \notin Unfinished
  BY DEF Progress, Unfinished
<1>6. AvatarTypeOK
  BY <1>2, <1>3, <1>4, <1>5 DEF AvatarInit, AvatarTypeOK, Images, NothingBegun
<1>7. RequestsHaveAvatar
  BY <1>4 DEF AvatarInit, RequestsHaveAvatar
<1>8. JobsStand
  BY <1>3 DEF AvatarInit, JobsStand, AttemptsStand, ToldInTime
<1>9. StatusesAreDue
  BY <1>3, <1>5 DEF AvatarInit, NothingBegun, StatusesAreDue, At, Jobs
<1> QED
  BY <1>6, <1>7, <1>8, <1>9 DEF PipelineInv

LEMMA RunJobKeeps ==
    ASSUME PipelineInv, NEW j \in Jobs, RunJob(j)
    PROVE  PipelineInv'
<1>1. CASE StartJob(j) \/ MarkProcessing(j) \/ RequestFails(j)
  BY <1>1, StartKeeps, MarkProcessingKeeps, RequestFailsKeeps
<1>2. CASE HandleFailure(j) \/ NotifyFailed(j)
  BY <1>2, HandleFailureKeeps, NotifyFailedKeeps
<1>3. CASE j \in Keys /\ (ExtractVector(j) \/ SaveVector(j))
  BY <1>3, ExtractVectorKeeps, SaveVectorKeeps
<1>4. CASE j \in Validations /\ (EnsureReady(j) \/ SaveResult(j) \/ NotifyCompleted(j))
  BY <1>4, EnsureReadyKeeps, SaveResultKeeps, NotifyCompletedKeeps
<1>5. CASE j \in Validations /\ \E match \in BOOLEAN : Compare(j, match)
  BY <1>5, CompareKeeps
<1>6. CASE WriteCompleted(j) \/ CompleteJob(j) \/ RetryOrFailJob(j)
  BY <1>6, WriteCompletedKeeps, CompleteKeeps, RetryKeeps
<1> QED
  BY <1>1, <1>2, <1>3, <1>4, <1>5, <1>6 DEF RunJob

LEMMA StutterKeeps ==
    ASSUME PipelineInv, UNCHANGED avatarVars
    PROVE  PipelineInv'
<1>1. UNCHANGED <<avatar, embedding, verified, validated, progress, request, job, deaths, mishap>>
  BY DEF avatarVars, profileVars
<1> QED
  BY <1>1 DEF PipelineInv, AvatarTypeOK, RequestsHaveAvatar, JobsStand, AttemptsStand,
              ToldInTime, StatusesAreDue, InStage, VectorDue, ValidationDue, Busy, At

LEMMA NextKeeps == PipelineInv /\ [AvatarNext]_avatarVars => PipelineInv'
<1> SUFFICES ASSUME PipelineInv, [AvatarNext]_avatarVars
             PROVE  PipelineInv'
  OBVIOUS
<1>1. ASSUME NEW r \in Requests, Api(r)
      PROVE  PipelineInv'
  BY <1>1, ConfirmUploadKeeps, AcceptValidationKeeps, MarkVectorQueuedKeeps, AddVectorJobKeeps,
     MarkValidationQueuedKeeps, AddValidationJobKeeps DEF Api
<1>2. ASSUME NEW r \in Requests, RequestDies(r)
      PROVE  PipelineInv'
  BY <1>2, RequestDiesKeeps
<1>3. ASSUME NEW j \in Jobs, RunJob(j) \/ ForgetJob(j) \/ JobStepFails(j) \/ WorkerDies(j)
      PROVE  PipelineInv'
  BY <1>3, RunJobKeeps, ForgetKeeps, StepFailsKeeps, WorkerDiesKeeps
<1>4. ASSUME NEW image \in Images, SaveVectorEndpoint(image)
      PROVE  PipelineInv'
  BY <1>4, SaveVectorEndpointKeeps
<1>5. ASSUME NEW match \in BOOLEAN, SaveResultEndpoint(match)
      PROVE  PipelineInv'
  BY <1>5, SaveResultEndpointKeeps
<1>6. CASE UNCHANGED avatarVars
  BY <1>6, StutterKeeps
<1> QED
  BY <1>1, <1>2, <1>3, <1>4, <1>5, <1>6 DEF AvatarNext

LEMMA AlwaysInv == AvatarSpec => []PipelineInv
BY InitInv, NextKeeps, PTL DEF AvatarSpec
\* The pipeline keeps its types: no job is run oftener than its attempts, and
\* no status, step or count is out of range.
THEOREM PipelineTyped == AvatarSpec => []AvatarTypeOK
<1>1. PipelineInv => AvatarTypeOK
  BY DEF PipelineInv
<1> QED
  BY <1>1, AlwaysInv, PTL

\* Handlers and queue count attempts alike, for every number of attempts.
THEOREM AttemptsAlwaysAgree == AvatarSpec => []AttemptsAgree
<1>1. PipelineInv => AttemptsAgree
  BY DEF PipelineInv, JobsStand, AttemptsStand, AttemptsAgree
<1> QED
  BY <1>1, AlwaysInv, PTL

\* A result is mailed once, but for what deaths and failed emails add.
THEOREM ResultsMailedOnce == AvatarSpec => []ResultMailedOnce
<1>1. PipelineInv => ResultMailedOnce
  <2> SUFFICES ASSUME PipelineInv, NEW v \in Validations
               PROVE  job[v].told <= 1 + deaths
    BY DEF ResultMailedOnce
  <2>1. v \in Jobs
    BY DEF Jobs
  <2>2. ToldInTime(job[v], deaths)
    BY <2>1 DEF PipelineInv, JobsStand
  <2>3. job[v].told \in Nat /\ deaths \in Nat
    BY <2>1, JobsTyped DEF PipelineInv
  <2> QED
    BY <2>2, <2>3 DEF ToldInTime
<1> QED
  BY <1>1, AlwaysInv, PTL

\* When nothing runs, no status waits for anything: whoever left it unfinished
\* was due to finish it, and there is nobody.
THEOREM QuietStatusesAreFinal == AvatarSpec => []QuietStatusIsFinal
<1>1. PipelineInv => QuietStatusIsFinal
  <2> SUFFICES ASSUME PipelineInv, Quiet, ~mishap
               PROVE  /\ \A kind \in DOMAIN progress : progress[kind] \notin Unfinished
                      /\ progress["vector"] = "completed" => embedding # None
    BY DEF QuietStatusIsFinal
  <2>1. \A j \in Jobs : ~Busy(j, job[j])
    BY DEF Quiet, Over, Busy
  <2>2. ~VectorDue /\ ~ValidationDue
    BY <2>1 DEF VectorDue, ValidationDue, Jobs
  <2>3. \A stages : "idle" \notin stages => ~InStage(stages)
    BY DEF Quiet, InStage
  <2>4. ~InStage({"queuing"}) /\ ~InStage({"requested"}) /\ ~InStage({"reset", "queuing"})
    BY <2>3
  <2>5. DOMAIN progress = {"vector", "validation"}
    BY DEF PipelineInv, AvatarTypeOK
  <2> QED
    BY <2>2, <2>4, <2>5 DEF PipelineInv, StatusesAreDue
<1> QED
  BY <1>1, AlwaysInv, PTL

-----------------------------------------------------------------------------
(* The refinement.                                                         *)

UnderWay == {j \in Jobs : job[j].state \in {"waiting", "active"}}

LEMMA InitRefines == AvatarInit => Lifecycle!LifecycleInit
BY DEF AvatarInit, Lifecycle!LifecycleInit, Verdict, NoJob

\* A job that stays under way, or stays ended.
LEMMA WorkKept ==
    ASSUME PipelineInv, NEW j \in Jobs, NEW q, job' = [job EXCEPT ![j] = q],
           q.state \in {"waiting", "active"} <=> job[j].state \in {"waiting", "active"}
    PROVE  UnderWay' = UnderWay
<1>1. \A i \in Jobs : job'[i] = IF i = j THEN q ELSE job[i]
  BY DEF PipelineInv, AvatarTypeOK
<1> QED
  BY <1>1 DEF UnderWay

LEMMA Unseen ==
    ASSUME UNCHANGED <<avatar, embedding, verified, validated>>, UnderWay' = UnderWay
    PROVE  UNCHANGED Lifecycle!lifecycleVars
BY DEF Lifecycle!lifecycleVars, Verdict, UnderWay

\* A job that moves on inside its run.
LEMMA MovesUnseen ==
    ASSUME PipelineInv, NEW j \in Jobs, NEW s, job[j].state = "active",
           job' = [job EXCEPT ![j].step = s]
    PROVE  UnderWay' = UnderWay
<1> DEFINE q == [job[j] EXCEPT !.step = s]
<1>1. job \in [Jobs -> JobState] /\ job[j] \in JobState
  BY JobsTyped DEF PipelineInv
<1>2. job' = [job EXCEPT ![j] = q] /\ q.state = "active"
  BY <1>1 DEF JobState
<1> HIDE DEF q
<1> QED
  BY <1>2, WorkKept

\* A job that ends is finished.
LEMMA EndIsFinish ==
    ASSUME PipelineInv, NEW j \in Jobs, NEW q, job' = [job EXCEPT ![j] = q],
           job[j].state = "active", q.state \in {"completed", "failed"},
           UNCHANGED <<avatar, embedding, verified, validated>>
    PROVE  Lifecycle!LifecycleNext
<1>1. \A i \in Jobs : job'[i] = IF i = j THEN q ELSE job[i]
  BY DEF PipelineInv, AvatarTypeOK
<1>2. UnderWay' = UnderWay \ {j} /\ j \in UnderWay
  BY <1>1 DEF UnderWay
<1>3. Lifecycle!Finish(j)
  BY <1>2 DEF Lifecycle!Finish, UnderWay, Verdict
<1> QED
  BY <1>3 DEF Lifecycle!LifecycleNext, Jobs

\* A job that is added is submitted.
LEMMA AddIsSubmit ==
    ASSUME PipelineInv, NEW j \in Jobs, job' = [job EXCEPT ![j] = Added],
           job[j].state = "absent", avatar # None, UNCHANGED profileVars
    PROVE  Lifecycle!LifecycleNext
<1>1. \A i \in Jobs : job'[i] = IF i = j THEN Added ELSE job[i]
  BY DEF PipelineInv, AvatarTypeOK
<1>2. Added.state = "waiting"
  BY DEF Added, NoJob
<1>3. UnderWay' = UnderWay \cup {j} /\ j \notin UnderWay
  BY <1>1, <1>2 DEF UnderWay
<1>4. Lifecycle!Submit(j)
  BY <1>3 DEF Lifecycle!Submit, UnderWay, Verdict, profileVars
<1> QED
  BY <1>4 DEF Lifecycle!LifecycleNext, Jobs

LEMMA ApiRefines ==
    ASSUME PipelineInv, NEW r \in Requests, Api(r)
    PROVE  Lifecycle!LifecycleNext \/ UNCHANGED Lifecycle!lifecycleVars
<1>1. ASSUME NEW k \in Keys, ConfirmUpload(r, k)
      PROVE  Lifecycle!LifecycleNext
  <2>1. UnderWay' = UnderWay
    BY <1>1 DEF ConfirmUpload, UnderWay
  <2>2. Lifecycle!Upload(k)
    BY <1>1, <2>1 DEF ConfirmUpload, Lifecycle!Upload, UnderWay, Verdict
  <2> QED
    BY <2>2 DEF Lifecycle!LifecycleNext
<1>2. CASE AcceptValidation(r) \/ MarkVectorQueued(r) \/ MarkValidationQueued(r)
  <2>1. UNCHANGED <<avatar, embedding, verified, validated>> /\ UnderWay' = UnderWay
    BY <1>2 DEF AcceptValidation, MarkVectorQueued, MarkValidationQueued, profileVars, UnderWay
  <2> QED
    BY <2>1, Unseen
<1>3. CASE AddVectorJob(r)
  <2> DEFINE k == request[r].key
  <2>1. k \in Jobs /\ avatar # None /\ UNCHANGED profileVars
    BY <1>3 DEF AddVectorJob, PipelineInv, RequestsHaveAvatar, Jobs
  <2>2. CASE job[k].state = "absent"
    BY <1>3, <2>1, <2>2, AddIsSubmit DEF AddVectorJob
  <2>3. CASE job[k].state # "absent"
    <3>1. UnderWay' = UnderWay
      BY <1>3, <2>3 DEF AddVectorJob, UnderWay
    <3> QED
      BY <2>1, <3>1, Unseen DEF profileVars
  <2> QED
    BY <2>2, <2>3
<1>4. ASSUME NEW v \in Validations, AddValidationJob(r, v)
      PROVE  Lifecycle!LifecycleNext
  <2>1. v \in Jobs /\ avatar # None
    BY <1>4 DEF AddValidationJob, PipelineInv, RequestsHaveAvatar, Jobs
  <2> QED
    BY <1>4, <2>1, AddIsSubmit DEF AddValidationJob
<1> QED
  BY <1>1, <1>2, <1>3, <1>4 DEF Api

LEMMA RunJobRefines ==
    ASSUME PipelineInv, NEW j \in Jobs, RunJob(j)
    PROVE  Lifecycle!LifecycleNext \/ UNCHANGED Lifecycle!lifecycleVars
<1>0. job \in [Jobs -> JobState] /\ job[j] \in JobState
  BY JobsTyped DEF PipelineInv
<1>1. CASE StartJob(j)
  <2> DEFINE q == [job[j] EXCEPT !.state = "active", !.step = "started"]
  <2>1. job' = [job EXCEPT ![j] = q] /\ q.state = "active" /\ job[j].state = "waiting"
    BY <1>0, <1>1 DEF StartJob, JobState
  <2> HIDE DEF q
  <2>2. UnderWay' = UnderWay
    BY <2>1, WorkKept
  <2> QED
    BY <1>1, <2>2, Unseen DEF StartJob, profileVars
<1>2. CASE MarkProcessing(j)
  BY <1>2, MovesUnseen, Unseen DEF MarkProcessing, At, GotoStep
<1>3. CASE RequestFails(j) \/ NotifyFailed(j)
  BY <1>3, MovesUnseen, Unseen DEF RequestFails, NotifyFailed, At, GotoStep, profileVars
<1>4. CASE HandleFailure(j)
  <2> DEFINE willRetry == job[j].tries + 1 < MaxAttempts
             q == [job[j] EXCEPT !.step = IF willRetry THEN "thrown" ELSE "apologizing",
                                 !.gaveUp = ~willRetry]
  <2>1. job' = [job EXCEPT ![j] = q] /\ q.state = "active" /\ job[j].state = "active"
    <3>1. job' = [job EXCEPT ![j].step = IF willRetry THEN "thrown" ELSE "apologizing",
                             ![j].gaveUp = ~willRetry]
      BY <1>4 DEF HandleFailure
    <3> HIDE DEF willRetry
    <3> QED
      BY <1>0, <1>4, <3>1 DEF HandleFailure, At, JobState
  <2> HIDE DEF q
  <2>2. UnderWay' = UnderWay
    BY <2>1, WorkKept
  <2> QED
    BY <1>4, <2>2, Unseen DEF HandleFailure
<1>5. CASE j \in Keys /\ ExtractVector(j)
  BY <1>5, MovesUnseen, Unseen DEF ExtractVector, At, GotoStep, profileVars
<1>6. CASE j \in Keys /\ SaveVector(j)
  <2>1. UnderWay' = UnderWay /\ j \in UnderWay
    BY <1>6, MovesUnseen DEF SaveVector, At, GotoStep, UnderWay
  <2>2. Lifecycle!Learn(j)
    BY <1>6, <2>1 DEF SaveVector, WriteVector, Lifecycle!Learn, UnderWay, Verdict
  <2> QED
    BY <1>6, <2>2 DEF Lifecycle!LifecycleNext, Lifecycle!Images
<1>7. CASE j \in Validations /\ EnsureReady(j)
  BY <1>7, MovesUnseen, Unseen DEF EnsureReady, At, GotoStep, profileVars
<1>8. CASE j \in Validations /\ SaveResult(j)
  <2>1. UnderWay' = UnderWay /\ j \in UnderWay
    BY <1>8, MovesUnseen DEF SaveResult, At, GotoStep, UnderWay
  <2>2. job[j].result \in BOOLEAN
    BY <1>0 DEF JobState
  <2>3. Lifecycle!Judge(job[j].result)
    BY <1>8, <2>1 DEF SaveResult, WriteResult, Lifecycle!Judge, UnderWay, Verdict
  <2> QED
    BY <2>2, <2>3 DEF Lifecycle!LifecycleNext
<1>9. CASE j \in Validations /\ NotifyCompleted(j)
  <2> DEFINE q == [job[j] EXCEPT !.step = "done", !.told = job[j].told + 1]
  <2>1. job' = [job EXCEPT ![j] = q] /\ q.state = "active" /\ job[j].state = "active"
    BY <1>0, <1>9 DEF NotifyCompleted, At, JobState
  <2> HIDE DEF q
  <2>2. UnderWay' = UnderWay
    BY <2>1, WorkKept
  <2> QED
    BY <1>9, <2>2, Unseen DEF NotifyCompleted, profileVars
<1>10. ASSUME NEW match \in BOOLEAN, Compare(j, match)
       PROVE  UNCHANGED Lifecycle!lifecycleVars
  <2> DEFINE q == [job[j] EXCEPT !.step = "answered", !.result = match]
  <2>1. job' = [job EXCEPT ![j] = q] /\ q.state = "active" /\ job[j].state = "active"
    BY <1>0, <1>10 DEF Compare, At, JobState
  <2> HIDE DEF q
  <2>2. UnderWay' = UnderWay
    BY <2>1, WorkKept
  <2> QED
    BY <1>10, <2>2, Unseen DEF Compare, profileVars
<1>11. CASE WriteCompleted(j)
  BY <1>11, MovesUnseen, Unseen DEF WriteCompleted, At, GotoStep
<1>12. CASE CompleteJob(j)
  <2>1. Completed.state = "completed"
    BY DEF Completed, NoJob
  <2> QED
    BY <1>12, <2>1, EndIsFinish DEF CompleteJob, At, profileVars
<1>13. CASE RetryOrFailJob(j)
  <2>1. CASE job[j].tries + 1 < MaxAttempts
    <3> DEFINE q == [Again(job[j]) EXCEPT !.tries = job[j].tries + 1]
    <3>1. job' = [job EXCEPT ![j] = q] /\ job[j].state = "active"
      BY <1>13, <2>1 DEF RetryOrFailJob, At
    <3>2. q.state = "waiting"
      BY <1>0, AgainTyped DEF JobState
    <3> HIDE DEF q
    <3>3. UnderWay' = UnderWay
      BY <3>1, <3>2, WorkKept
    <3> QED
      BY <1>13, <3>3, Unseen DEF RetryOrFailJob, profileVars
  <2>2. CASE ~(job[j].tries + 1 < MaxAttempts)
    <3>1. job' = [job EXCEPT ![j] = Failed(job[j])] /\ job[j].state = "active"
      BY <1>13, <2>2 DEF RetryOrFailJob, At
    <3> QED
      BY <1>0, <1>13, <3>1, FailedTyped, EndIsFinish DEF RetryOrFailJob, profileVars
  <2> QED
    BY <2>1, <2>2
<1> QED
  BY <1>1, <1>2, <1>3, <1>4, <1>5, <1>6, <1>7, <1>8, <1>9, <1>10, <1>11, <1>12, <1>13 DEF RunJob

LEMMA FailuresRefine ==
    ASSUME PipelineInv, NEW j \in Jobs, ForgetJob(j) \/ JobStepFails(j) \/ WorkerDies(j)
    PROVE  Lifecycle!LifecycleNext \/ UNCHANGED Lifecycle!lifecycleVars
<1>0. job \in [Jobs -> JobState] /\ job[j] \in JobState
  BY JobsTyped DEF PipelineInv
<1>1. CASE ForgetJob(j)
  <2>1. NoJob.state = "absent"
    BY DEF NoJob
  <2>2. UnderWay' = UnderWay
    BY <1>1, <2>1, WorkKept DEF ForgetJob
  <2> QED
    BY <1>1, <2>2, Unseen DEF ForgetJob, profileVars
<1>2. CASE JobStepFails(j)
  <2> DEFINE s == IF job[j].step \in {"started", "failing", "apologizing"}
                  THEN "thrown" ELSE "failing"
  <2>1. PICK sent \in {0, 1} :
          job' = [job EXCEPT ![j].told = job[j].told + sent, ![j].step = s]
    BY <1>0, <1>2 DEF JobStepFails
  <2> DEFINE q == [job[j] EXCEPT !.told = job[j].told + sent, !.step = s]
  <2> HIDE DEF s
  <2>2. job' = [job EXCEPT ![j] = q] /\ q.state = "active" /\ job[j].state = "active"
    BY <1>0, <1>2, <2>1 DEF JobStepFails, JobState
  <2> HIDE DEF q
  <2>3. UnderWay' = UnderWay
    BY <2>2, WorkKept
  <2> QED
    BY <1>2, <2>3, Unseen DEF JobStepFails, profileVars
<1>3. CASE WorkerDies(j)
  <2>1. CASE job[j].stalls = 0
    <3> DEFINE q == [Again(job[j]) EXCEPT !.stalls = 1]
    <3>1. job' = [job EXCEPT ![j] = q] /\ job[j].state = "active"
      BY <1>3, <2>1 DEF WorkerDies
    <3>2. q.state = "waiting"
      BY <1>0, AgainTyped DEF JobState
    <3> HIDE DEF q
    <3>3. UnderWay' = UnderWay
      BY <3>1, <3>2, WorkKept
    <3> QED
      BY <1>3, <3>3, Unseen DEF WorkerDies, profileVars
  <2>2. CASE job[j].stalls # 0
    <3>1. job' = [job EXCEPT ![j] = Failed(job[j])] /\ job[j].state = "active"
      BY <1>3, <2>2 DEF WorkerDies
    <3> QED
      BY <1>0, <1>3, <3>1, FailedTyped, EndIsFinish DEF WorkerDies, profileVars
  <2> QED
    BY <2>1, <2>2
<1> QED
  BY <1>1, <1>2, <1>3

LEMMA NextRefines ==
    PipelineInv /\ [AvatarNext]_avatarVars => [Lifecycle!LifecycleNext]_(Lifecycle!lifecycleVars)
<1> SUFFICES ASSUME PipelineInv, [AvatarNext]_avatarVars
             PROVE  Lifecycle!LifecycleNext \/ UNCHANGED Lifecycle!lifecycleVars
  OBVIOUS
<1>1. ASSUME NEW r \in Requests, RequestDies(r)
      PROVE  UNCHANGED Lifecycle!lifecycleVars
  <2>1. UNCHANGED <<avatar, embedding, verified, validated>> /\ UnderWay' = UnderWay
    BY <1>1 DEF RequestDies, profileVars, UnderWay
  <2> QED
    BY <2>1, Unseen
<1>2. ASSUME NEW image \in Images, SaveVectorEndpoint(image)
      PROVE  Lifecycle!LifecycleNext
  <2>1. UnderWay' = UnderWay
    BY <1>2 DEF SaveVectorEndpoint, UnderWay
  <2>2. Lifecycle!Learn(image)
    BY <1>2, <2>1 DEF SaveVectorEndpoint, WriteVector, Lifecycle!Learn, UnderWay, Verdict
  <2> QED
    BY <2>2 DEF Lifecycle!LifecycleNext, Lifecycle!Images, Images
<1>3. ASSUME NEW match \in BOOLEAN, SaveResultEndpoint(match)
      PROVE  Lifecycle!LifecycleNext
  <2>1. UnderWay' = UnderWay
    BY <1>3 DEF SaveResultEndpoint, UnderWay
  <2>2. Lifecycle!Judge(match)
    BY <1>3, <2>1 DEF SaveResultEndpoint, WriteResult, Lifecycle!Judge, UnderWay, Verdict
  <2> QED
    BY <2>2 DEF Lifecycle!LifecycleNext
<1>4. CASE UNCHANGED avatarVars
  BY <1>4, Unseen DEF avatarVars, profileVars, UnderWay
<1> QED
  BY <1>1, <1>2, <1>3, <1>4, ApiRefines, RunJobRefines, FailuresRefine DEF AvatarNext

\* The pipeline implements the lifecycle of an avatar, for every number of
\* uploads, validations, requests and workers.
THEOREM PipelineImplementsLifecycle == AvatarSpec => ImplementsLifecycle
BY InitRefines, NextRefines, AlwaysInv, PTL
   DEF AvatarSpec, ImplementsLifecycle, Lifecycle!LifecycleSpec
=============================================================================
