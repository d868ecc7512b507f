-------------------------- MODULE MCAvatarPipeline --------------------------
EXTENDS AvatarPipeline, TLC

\* Storage keys, validation ids and request slots are interchangeable.
Symmetry == Permutations(Keys) \cup Permutations(Validations)
            \cup Permutations(Requests)

\* Bound: the face service calls an endpoint only while it works on a job, a
\* vector job with the vector of its image.  No other step leaves the requests
\* and the jobs as they are, and the fairness asks for no call, so that what is
\* cut off takes no step from a behaviour that the liveness property is about.
CallsWhileAsked ==
    UNCHANGED <<request, job>> =>
        \E j \in Jobs :
            \/ j \in Keys /\ At(j, "marked") /\ embedding' = j
            \/ j \in Validations /\ At(j, "ready") /\ embedding' = embedding
=============================================================================
