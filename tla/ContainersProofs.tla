-------------------------- MODULE ContainersProofs --------------------------
(***************************************************************************)
(* The safety of Containers for any numbers of ids, tasks, items and       *)
(* requests, any features in use together and any limits.  The inductive   *)
(* invariant has a part for the restarts, one for the health checks and    *)
(* one for the batch job, each about state of its own.  The part about the *)
(* restarts is what the code relies on without saying it: that the flag    *)
(* stands for the only task and its attempts are the ones this task has    *)
(* counted, that whatever was listed has been discovered, and that no id   *)
(* is known before it is used.                                             *)
(***************************************************************************)
EXTENDS Containers, FiniteSetTheorems, TLAPS

\* The most restarts that may be counted: one below the limit, and every
\* task that has been created and has not begun yet.
MostAttempts == MaxRetries + Cardinality(Tasks) - 1

\* The parts of the type invariant, by the state they are about.
WorldTypes ==
    /\ uses \in Scenarios
    /\ live \in Ids \cup {Nil} /\ up \in BOOLEAN /\ reach \in BOOLEAN
    /\ born \subseteq Ids /\ dies \subseteq Ids /\ seen \subseteq Ids
    /\ listed \in [id : Ids \cup {Nil}, up : BOOLEAN] /\ sweep \in {"idle", "acting"}
    /\ maint \in [at : {"idle", "memory", "records"}, id : Ids \cup {Nil}]
    /\ requests \in 0..MaxRequests[uses]

RestartTypes ==
    /\ flag \subseteq Ids /\ early \subseteq Ids /\ cleared \subseteq Ids
    /\ cfg \in [Ids -> AutoRestartConfig] /\ memo \in [Ids -> AutoRestartConfig]
    /\ attempts \in [Ids -> 0..MostAttempts]
    /\ task \in [Tasks -> [id : Ids \cup {Nil}, n : 0..MostAttempts,
                           at : {"free", "new", "delay", "starting", "ending"}]]

\* The checks, and what bounds the restarts they ask for: none is asked for
\* that is not counted in the episode.
HealthInv ==
    /\ waited \subseteq Ids
    /\ check \in [Ids -> ContainerHttpHealthCheck]
    /\ loop \in [Ids -> [at : {"off", "idle", "asking", "retrying"}, was : Statuses]]
    /\ episode \in [Ids -> 0..MaxRestarts]
    /\ spent \in [Ids -> 0..MaxRestarts]
    /\ \A c \in Ids : spent[c] <= episode[c]

\* An id is known to the backend only once it was used.
OnlyBornIsKnown ==
    /\ dies \subseteq born
    /\ {live, listed.id, maint.id} \subseteq born \cup {Nil}
    /\ \A t \in Tasks : task[t].id \in born \cup {Nil}
    /\ \A c \in Ids : memo[c] # "none" => c \in born

\* Whatever was listed has been discovered, and a status that was cached
\* before the discovery is the user's or one of the exceptions.
ListedIsSeen ==
    live # Nil =>
      /\ listed.id = live => live \in seen
      /\ maint.at = "records" /\ maint.id = live => live \in seen
      /\ live \notin seen /\ memo[live] # "none" => cfg[live] # "none" \/ live \in early \cup cleared

\* Tasks that are still to begin have their places below the limit.
NewTasks(c) == {t \in Tasks : task[t].id = c /\ task[t].at = "new"}
AttemptsFit == \A c \in Ids : attempts[c] + Cardinality(NewTasks(c)) <= MostAttempts

\* Without a reset from outside the flag stands for the only task, and the
\* attempts are the ones this task has counted.
TasksAreFlagged ==
    /\ \A t \in Tasks : task[t].id = Nil <=> task[t].at = "free"
    /\ \A c \in Ids \ cleared : \A t \in Tasks : task[t].id = c =>
         /\ c \in flag
         /\ \A u \in Tasks : task[u].id = c => u = t
         /\ task[t].at \in {"delay", "starting"} => attempts[c] = task[t].n

\* A task was created on a cached status, which goes only with the flag.
TasksHaveStatus ==
    \A c \in Ids \ cleared : \A t \in Tasks : task[t].id = c => memo[c] # "none"

\* A cached status that differs from the setting was given up: the retries
\* are used up, and the task that has used them has nothing left to start.
GivenUp ==
    \A c \in Ids \ (early \cup cleared) :
      memo[c] # "none" /\ cfg[c] # "none" /\ memo[c] # cfg[c] =>
        /\ memo[c] = "off" /\ attempts[c] >= MaxRetries
        /\ \A t \in Tasks : task[t].id = c => task[t].at = "ending"

JobTypes ==
    job \in [status : {Nil, "queued", "running"} \cup Settled, orphan : BOOLEAN, act : Acts,
             item : [Items -> {Nil, "queued", "running"} \cup Finals],
             done : 0..Cardinality(Items), ok : 0..Cardinality(Items), bad : 0..Cardinality(Items)]

\* The job's record has its type, and its verdict is computed from counters
\* that match the items.
JobInv == JobTypes /\ CountersMatchItems /\ VerdictIsTrue

RestartsInv ==
    /\ WorldTypes /\ RestartTypes
    /\ OnlyBornIsKnown /\ ListedIsSeen
    /\ AttemptsFit /\ TasksAreFlagged /\ TasksHaveStatus /\ GivenUp

ContainersInv == RestartsInv /\ HealthInv /\ JobInv

\* The constants of the module, in the form the provers use.
LEMMA ContainersConstants ==
  /\ IsFiniteSet(Ids) /\ Ids # {} /\ "none" \notin Ids
  /\ IsFiniteSet(Tasks) /\ Tasks # {} /\ IsFiniteSet(Items) /\ Target \in Items
  /\ MaxRetries \in Nat /\ FailureThreshold \in Nat \ {0} /\ SuccessThreshold \in Nat \ {0}
  /\ MaxRestarts \in Nat \ {0} /\ MaxPerHost \in Nat \ {0}
  /\ MaxRequests \in [Scenarios -> Nat]
BY ContainersAssumption

(***************************************************************************)
(* Batch jobs.                                                             *)
(***************************************************************************)
\* The number of items in a set of results is a natural number that is at
\* most the number of items, and is zero only if there is no such item.
LEMMA ItemsCount ==
  ASSUME NEW f \in [Items -> {Nil, "queued", "running"} \cup Finals], NEW R
  PROVE  LET n == Cardinality({i \in Items : f[i] \in R})
         IN  n \in 0..Cardinality(Items) /\ (n = 0 <=> \A i \in Items : f[i] \notin R)
<1> DEFINE S == {i \in Items : f[i] \in R}
<1>1. S \subseteq Items
  OBVIOUS
<1>2. IsFiniteSet(Items) /\ IsFiniteSet(S) /\ Cardinality(S) <= Cardinality(Items)
  BY <1>1, ContainersConstants, FS_Subset
<1>3. Cardinality(S) \in Nat /\ Cardinality(Items) \in Nat
  BY <1>2, FS_CardinalityType
<1>4. Cardinality(S) = 0 <=> S = {}
  BY <1>2, FS_EmptySet
<1> QED
  BY <1>2, <1>3, <1>4

\* An item that gets a result of the set counts one more, any other item
\* leaves the count as it is.
LEMMA ItemCounts ==
  ASSUME NEW f \in [Items -> {Nil, "queued", "running"} \cup Finals], NEW R,
         NEW i \in Items, f[i] \notin R, NEW r
  PROVE  Cardinality({k \in Items : [f EXCEPT ![i] = r][k] \in R})
           = IF r \in R THEN Cardinality({k \in Items : f[k] \in R}) + 1
                        ELSE Cardinality({k \in Items : f[k] \in R})
<1> DEFINE S == {k \in Items : f[k] \in R}
           T == {k \in Items : [f EXCEPT ![i] = r][k] \in R}
<1>1. i \notin S /\ S \subseteq Items
  OBVIOUS
<1>2. IsFiniteSet(S)
  BY <1>1, ContainersConstants, FS_Subset
<1>3. CASE r \in R
  <2>1. T = S \cup {i}
    BY <1>3
  <2>2. Cardinality(S \cup {i}) = Cardinality(S) + 1
    BY <1>1, <1>2, FS_AddElement
  <2> QED
    BY <1>3, <2>1, <2>2
<1>4. CASE r \notin R
  <2>1. T = S
    BY <1>4
  <2> QED
    BY <1>4, <2>1
<1> QED
  BY <1>3, <1>4

\* The counters of a job of the right type are in their range.
LEMMA CountersAreInRange ==
  ASSUME job.item \in [Items -> {Nil, "queued", "running"} \cup Finals], CountersMatchItems
  PROVE  /\ {job.done, job.ok, job.bad} \subseteq 0..Cardinality(Items)
         /\ job.ok = 0 <=> \A i \in Items : job.item[i] # "success"
         /\ job.bad = 0 <=> \A i \in Items : job.item[i] # "error"
<1>1. /\ job.done = Cardinality({i \in Items : job.item[i] \in Finals})
      /\ job.ok = Cardinality({i \in Items : job.item[i] \in {"success"}})
      /\ job.bad = Cardinality({i \in Items : job.item[i] \in {"error"}})
  <2>1. {i \in Items : job.item[i] \in {"success"}} = {i \in Items : job.item[i] = "success"}
    OBVIOUS
  <2>2. {i \in Items : job.item[i] \in {"error"}} = {i \in Items : job.item[i] = "error"}
    OBVIOUS
  <2> QED
    BY <2>1, <2>2 DEF CountersMatchItems
<1>2. job.done \in 0..Cardinality(Items)
  BY <1>1, ItemsCount
<1>3. job.ok \in 0..Cardinality(Items) /\ (job.ok = 0 <=> \A i \in Items : job.item[i] # "success")
  <2>1. LET n == Cardinality({i \in Items : job.item[i] \in {"success"}})
        IN  n \in 0..Cardinality(Items) /\ (n = 0 <=> \A i \in Items : job.item[i] \notin {"success"})
    BY ItemsCount
  <2> QED
    BY <1>1, <2>1
<1>4. job.bad \in 0..Cardinality(Items) /\ (job.bad = 0 <=> \A i \in Items : job.item[i] # "error")
  <2>1. LET n == Cardinality({i \in Items : job.item[i] \in {"error"}})
        IN  n \in 0..Cardinality(Items) /\ (n = 0 <=> \A i \in Items : job.item[i] \notin {"error"})
    BY ItemsCount
  <2> QED
    BY <1>1, <2>1
<1> QED
  BY <1>2, <1>3, <1>4

\* A job that was just created has no result and no verdict.
LEMMA CreateJobStep ==
  ASSUME JobInv, NEW found \in SUBSET Items, NEW act \in Acts, CreateJob(found, act)
  PROVE  JobInv'
<1>1. /\ job'.status = "queued" /\ job'.orphan = FALSE /\ job'.act = act
      /\ job'.done = 0 /\ job'.ok = 0 /\ job'.bad = 0
      /\ job'.item = [i \in Items |-> IF i \in found THEN "queued" ELSE Nil]
  BY DEF CreateJob, NoJob
<1>2. job' = [status |-> "queued", orphan |-> FALSE, act |-> act, done |-> 0, ok |-> 0, bad |-> 0,
              item |-> [i \in Items |-> IF i \in found THEN "queued" ELSE Nil]]
  BY DEF CreateJob, NoJob
<1>3. {i \in Items : job'.item[i] \in Finals} = {} /\ {i \in Items : job'.item[i] = "success"} = {}
        /\ {i \in Items : job'.item[i] = "error"} = {}
  BY <1>1 DEF Finals, Nil
<1>4. CountersMatchItems'
  BY <1>1, <1>3, FS_EmptySet DEF CountersMatchItems
<1>5. JobTypes'
  <2>1. Cardinality(Items) \in Nat
    BY ContainersConstants, FS_CardinalityType
  <2> QED
    BY <1>2, <2>1 DEF JobTypes, Finals
<1>6. VerdictIsTrue'
  BY <1>1 DEF VerdictIsTrue, Settled
<1> QED
  BY <1>4, <1>5, <1>6 DEF JobInv

\* What a step does that changes the status of the job, or whether it was
\* orphaned, and no more.
LEMMA JobStatusStep ==
  ASSUME JobInv, NEW s \in {Nil, "queued", "running"} \cup Settled, NEW o \in BOOLEAN,
         job' = [job EXCEPT !.status = s, !.orphan = o],
         s \in Settled => VerdictIsTrue'
  PROVE  JobInv'
<1>1. JobTypes'
  BY DEF JobInv, JobTypes
<1>2. /\ job'.item = job.item /\ job'.done = job.done /\ job'.ok = job.ok /\ job'.bad = job.bad
      /\ job'.status = s
  BY DEF JobInv, JobTypes
<1>3. CountersMatchItems'
  BY <1>2 DEF JobInv, CountersMatchItems
<1>4. VerdictIsTrue'
  BY <1>2 DEF VerdictIsTrue
<1> QED
  BY <1>1, <1>3, <1>4 DEF JobInv

\* The job begins.
LEMMA JobStartsStep ==
  ASSUME JobInv, JobStarts
  PROVE  JobInv'
<1>1. job' = [job EXCEPT !.status = "running", !.orphan = job.orphan]
  BY DEF JobStarts, JobInv, JobTypes
<1>2. job.orphan \in BOOLEAN
  BY DEF JobInv, JobTypes
<1>3. "running" \in {Nil, "queued", "running"} \cup Settled /\ "running" \notin Settled
  BY DEF Settled
<1> QED
  BY <1>1, <1>2, <1>3, JobStatusStep

\* The verdict is that of the items, because the counters match them.
LEMMA JobEndsStep ==
  ASSUME JobInv, JobEnds
  PROVE  JobInv'
<1>1. job' = [job EXCEPT !.status = Verdict, !.orphan = job.orphan]
  BY DEF JobEnds, JobInv, JobTypes
<1>2. job.orphan \in BOOLEAN
  BY DEF JobInv, JobTypes
<1>3. Verdict \in Settled
  BY DEF Verdict, Settled
<1>4. job'.item = job.item /\ job'.status = Verdict
  BY <1>1 DEF JobInv, JobTypes
<1>5. /\ job.ok \in Nat /\ job.bad \in Nat
      /\ job.ok = 0 <=> \A i \in Items : job.item[i] # "success"
      /\ job.bad = 0 <=> \A i \in Items : job.item[i] # "error"
  BY CountersAreInRange DEF JobInv, JobTypes
<1>6. \A i \in Items : job.item[i] # "queued" /\ job.item[i] # "running"
  BY DEF JobEnds, AllItemsEnded, Finals, Nil
<1>7. /\ Verdict = "completed" <=> job.bad = 0
      /\ Verdict = "failed" => job.ok = 0
  BY <1>5 DEF Verdict
<1>8. VerdictIsTrue'
  BY <1>4, <1>5, <1>6, <1>7 DEF VerdictIsTrue, Running
<1> QED
  BY <1>1, <1>2, <1>3, <1>8, JobStatusStep

\* A backend that restarts leaves the job where it is.
LEMMA JobOrphanedStep ==
  ASSUME JobInv, Restart
  PROVE  JobInv'
<1> DEFINE o == job.status \in {"queued", "running"}
<1>1. job' = [job EXCEPT !.status = job.status, !.orphan = o]
  BY DEF Restart, JobInv, JobTypes
<1>2. job.status \in {Nil, "queued", "running"} \cup Settled /\ o \in BOOLEAN
  BY DEF JobInv, JobTypes
<1>3. job'.item = job.item /\ job'.status = job.status
  BY <1>1 DEF JobInv, JobTypes
<1>4. VerdictIsTrue'
  BY <1>3 DEF JobInv, VerdictIsTrue, Running
<1> QED
  BY <1>1, <1>2, <1>4, JobStatusStep

\* An item that starts has no result yet.
LEMMA ItemStartsStep ==
  ASSUME JobInv, NEW i \in Items, ItemStarts(i)
  PROVE  JobInv'
<1> DEFINE f == job.item
<1>1. f \in [Items -> {Nil, "queued", "running"} \cup Finals] /\ f[i] = "queued"
  BY DEF JobInv, JobTypes, ItemStarts
<1>2. JobTypes'
  BY DEF JobInv, JobTypes, ItemStarts
<1>3. /\ job'.item = [f EXCEPT ![i] = "running"]
      /\ job'.done = job.done /\ job'.ok = job.ok /\ job'.bad = job.bad
      /\ job'.status = "running"
  BY DEF JobInv, JobTypes, ItemStarts
<1>4. /\ {k \in Items : job'.item[k] \in Finals} = {k \in Items : f[k] \in Finals}
      /\ {k \in Items : job'.item[k] = "success"} = {k \in Items : f[k] = "success"}
      /\ {k \in Items : job'.item[k] = "error"} = {k \in Items : f[k] = "error"}
  BY <1>1, <1>3 DEF Finals
<1>5. CountersMatchItems'
  BY <1>3, <1>4 DEF JobInv, CountersMatchItems
<1>6. VerdictIsTrue'
  BY <1>3 DEF VerdictIsTrue, Settled
<1> QED
  BY <1>2, <1>5, <1>6 DEF JobInv

\* The result of an item and the counters are written in one transaction.
LEMMA ItemEndsStep ==
  ASSUME JobInv, NEW i \in Items, NEW r \in Finals, ItemEnds(i, r)
  PROVE  JobInv'
<1>0. PICK f \in [Items -> {Nil, "queued", "running"} \cup Finals] : f = job.item
  BY DEF JobInv, JobTypes
<1>1. f[i] = "running" /\ f[i] \notin Finals /\ f[i] \notin {"success"} /\ f[i] \notin {"error"}
  BY <1>0 DEF ItemEnds, Finals
<1>2. /\ job'.item = [f EXCEPT ![i] = r]
      /\ job'.done = job.done + 1
      /\ job'.ok = IF r \in {"success"} THEN job.ok + 1 ELSE job.ok
      /\ job'.bad = IF r \in {"error"} THEN job.bad + 1 ELSE job.bad
      /\ job'.status = job.status
      /\ job'.act = job.act /\ job'.orphan = job.orphan
  BY <1>0 DEF JobInv, JobTypes, ItemEnds, ItemCounted
<1>3. /\ job.done = Cardinality({k \in Items : f[k] \in Finals})
      /\ job.ok = Cardinality({k \in Items : f[k] \in {"success"}})
      /\ job.bad = Cardinality({k \in Items : f[k] \in {"error"}})
  <2>1. {k \in Items : f[k] \in {"success"}} = {k \in Items : f[k] = "success"}
    OBVIOUS
  <2>2. {k \in Items : f[k] \in {"error"}} = {k \in Items : f[k] = "error"}
    OBVIOUS
  <2> QED
    BY <1>0, <2>1, <2>2 DEF JobInv, CountersMatchItems
<1>4. /\ job'.done = Cardinality({k \in Items : [f EXCEPT ![i] = r][k] \in Finals})
      /\ job'.ok = Cardinality({k \in Items : [f EXCEPT ![i] = r][k] \in {"success"}})
      /\ job'.bad = Cardinality({k \in Items : [f EXCEPT ![i] = r][k] \in {"error"}})
  <2>1. \A R : f[i] \notin R =>
          Cardinality({k \in Items : [f EXCEPT ![i] = r][k] \in R})
            = IF r \in R THEN Cardinality({k \in Items : f[k] \in R}) + 1
                         ELSE Cardinality({k \in Items : f[k] \in R})
    BY ItemCounts
  <2>2. PICK R : R = {"success"}
    OBVIOUS
  <2>3. PICK E : E = {"error"}
    OBVIOUS
  <2>4. /\ f[i] \notin Finals /\ f[i] \notin R /\ f[i] \notin E
        /\ job'.done = job.done + 1
        /\ job'.ok = IF r \in R THEN job.ok + 1 ELSE job.ok
        /\ job'.bad = IF r \in E THEN job.bad + 1 ELSE job.bad
        /\ job.done = Cardinality({k \in Items : f[k] \in Finals})
        /\ job.ok = Cardinality({k \in Items : f[k] \in R})
        /\ job.bad = Cardinality({k \in Items : f[k] \in E})
    BY <1>1, <1>2, <1>3, <2>2, <2>3
  <2>5. /\ job'.done = Cardinality({k \in Items : [f EXCEPT ![i] = r][k] \in Finals})
        /\ job'.ok = Cardinality({k \in Items : [f EXCEPT ![i] = r][k] \in R})
        /\ job'.bad = Cardinality({k \in Items : [f EXCEPT ![i] = r][k] \in E})
    BY <2>1, <2>4
  <2> QED
    BY <2>2, <2>3, <2>5
<1>5. CountersMatchItems'
  <2>1. {k \in Items : [f EXCEPT ![i] = r][k] \in {"success"}} = {k \in Items : [f EXCEPT ![i] = r][k] = "success"}
    OBVIOUS
  <2>2. {k \in Items : [f EXCEPT ![i] = r][k] \in {"error"}} = {k \in Items : [f EXCEPT ![i] = r][k] = "error"}
    OBVIOUS
  <2> QED
    BY <1>2, <1>4, <2>1, <2>2 DEF CountersMatchItems
<1>6. job'.item \in [Items -> {Nil, "queued", "running"} \cup Finals]
  BY <1>2
<1>7. {job'.done, job'.ok, job'.bad} \subseteq 0..Cardinality(Items)
  <2>1. PICK g \in [Items -> {Nil, "queued", "running"} \cup Finals] : g = [f EXCEPT ![i] = r]
    BY <1>2, <1>6
  <2>2. \A R : Cardinality({k \in Items : g[k] \in R}) \in 0..Cardinality(Items)
    BY ItemsCount
  <2>3. \A R : Cardinality({k \in Items : [f EXCEPT ![i] = r][k] \in R}) \in 0..Cardinality(Items)
    BY <2>1, <2>2
  <2> QED
    BY <1>4, <2>3
<1>8. JobTypes'
  <2>1. job' = [job EXCEPT !.item = job'.item, !.done = job'.done, !.ok = job'.ok, !.bad = job'.bad]
    BY DEF JobInv, JobTypes, ItemEnds, ItemCounted
  <2> QED
    BY <1>6, <1>7, <2>1 DEF JobInv, JobTypes
<1>9. VerdictIsTrue'
  BY <1>0, <1>1, <1>2 DEF JobInv, VerdictIsTrue, Running
<1> QED
  BY <1>5, <1>8, <1>9 DEF JobInv

(***************************************************************************)
(* HTTP health checks.                                                     *)
(***************************************************************************)
\* A row without settings is a row, a loop that is off is a loop.
LEMMA NoCheckIsRow ==
  /\ NoCheck \in ContainerHttpHealthCheck
  /\ NoLoop \in [at : {"off", "idle", "asking", "retrying"}, was : Statuses]
BY ContainersConstants DEF NoCheck, NoLoop, ContainerHttpHealthCheck, Statuses, Nil

\* A result leaves a row, and keeps its counters at or below the thresholds.
LEMMA CountedIsRow ==
  ASSUME NEW k \in ContainerHttpHealthCheck, NEW good \in BOOLEAN, NEW kept \in Statuses
  PROVE  Counted(k, good, kept) \in ContainerHttpHealthCheck
<1>1. k.oks \in 0..SuccessThreshold /\ k.fails \in 0..FailureThreshold
  BY DEF ContainerHttpHealthCheck
<1>2. Fewer(k.oks + 1, SuccessThreshold) \in 0..SuccessThreshold
  BY <1>1, ContainersConstants DEF Fewer
<1>3. Fewer(k.fails + 1, FailureThreshold) \in 0..FailureThreshold
  BY <1>1, ContainersConstants DEF Fewer
<1>4. PICK oks \in 0..SuccessThreshold : oks = IF good THEN Fewer(k.oks + 1, SuccessThreshold) ELSE 0
  BY <1>2, ContainersConstants
<1>5. PICK fails \in 0..FailureThreshold : fails = IF good THEN 0 ELSE Fewer(k.fails + 1, FailureThreshold)
  BY <1>3, ContainersConstants
<1>6. PICK s \in Statuses : s = IF oks >= SuccessThreshold THEN "healthy"
                                ELSE IF fails >= FailureThreshold THEN "unhealthy" ELSE kept
  BY DEF Statuses
<1>7. Counted(k, good, kept) = [k EXCEPT !.oks = oks, !.fails = fails, !.status = s]
  BY <1>4, <1>5, <1>6 DEF Counted
<1> QED
  BY <1>7 DEF ContainerHttpHealthCheck

\* A container that is discovered has a row afterwards, or the empty one.
LEMMA ReattachedCheckIsRow ==
  ASSUME HealthInv, NEW c \in Ids
  PROVE  ReattachedCheck(c) \in ContainerHttpHealthCheck
<1>1. CASE check[c] = NoCheck /\ OtherChecks(c) # {}
  <2>1. PICK o \in Ids : o = CHOOSE k \in OtherChecks(c) : TRUE
    BY <1>1 DEF OtherChecks
  <2>2. PICK p \in ContainerHttpHealthCheck : p = check[o]
    BY DEF HealthInv
  <2>3. ReattachedCheck(c) = [NoCheck EXCEPT !.from = p.from, !.on = p.on]
    BY <1>1, <2>1, <2>2 DEF ReattachedCheck
  <2> QED
    BY <2>3, NoCheckIsRow DEF ContainerHttpHealthCheck
<1>2. CASE ~(check[c] = NoCheck /\ OtherChecks(c) # {})
  BY <1>2 DEF ReattachedCheck, HealthInv
<1> QED
  BY <1>1, <1>2

\* A step that writes rows, and neither runs a loop nor restarts.
LEMMA ChecksStep ==
  ASSUME HealthInv, check' \in [Ids -> ContainerHttpHealthCheck], UNCHANGED <<loop, episode, waited>>,
         \/ spent' = spent
         \/ \E c \in Ids : spent' = [spent EXCEPT ![c] = 0]
  PROVE  HealthInv'
<1>1. 0 \in 0..MaxRestarts /\ \A n \in 0..MaxRestarts : 0 <= n
  BY ContainersConstants
<1>2. spent' \in [Ids -> 0..MaxRestarts]
  BY <1>1 DEF HealthInv
<1>3. ASSUME NEW c \in Ids PROVE spent'[c] <= episode'[c]
  <2>1. spent'[c] = spent[c] \/ spent'[c] = 0
    BY DEF HealthInv
  <2>2. episode[c] \in 0..MaxRestarts /\ spent[c] <= episode[c]
    BY DEF HealthInv
  <2> QED
    BY <1>1, <2>1, <2>2
<1> QED
  BY <1>2, <1>3 DEF HealthInv

\* The listing of a host re-attaches settings.
LEMMA DiscoverKeepsHealth ==
  ASSUME HealthInv, Discover, live \in Ids \cup {Nil}, UNCHANGED <<loop, episode, waited, spent>>
  PROVE  HealthInv'
<1>1. check' \in [Ids -> ContainerHttpHealthCheck]
  BY ReattachedCheckIsRow DEF Discover, HealthInv
<1> QED
  BY <1>1, ChecksStep

\* A user creates or changes the check of a container.
LEMMA SaveCheckStep ==
  ASSUME HealthInv, NEW c \in Ids, NEW from \in {"backend", "agent"}, NEW on \in BOOLEAN,
         SaveCheck(c, from, on)
  PROVE  HealthInv'
<1>1. check' \in [Ids -> ContainerHttpHealthCheck]
  <2>1. PICK k \in ContainerHttpHealthCheck : k = check[c]
    BY DEF HealthInv
  <2>2. [[k EXCEPT !.from = from] EXCEPT !.on = on] \in ContainerHttpHealthCheck
    BY DEF ContainerHttpHealthCheck
  <2> QED
    BY <2>1, <2>2 DEF SaveCheck, HealthInv
<1>2. spent' = spent \/ spent' = [spent EXCEPT ![c] = 0]
  BY DEF SaveCheck
<1> QED
  BY <1>1, <1>2, ChecksStep DEF SaveCheck

\* A user deletes the check.
LEMMA DeleteCheckStep ==
  ASSUME HealthInv, NEW c \in Ids, DeleteCheck(c)
  PROVE  HealthInv'
<1>1. check' \in [Ids -> ContainerHttpHealthCheck]
  BY NoCheckIsRow DEF DeleteCheck, HealthInv
<1> QED
  BY <1>1, ChecksStep DEF DeleteCheck

\* The rows go with the container, or with the clean-up.
LEMMA RowsGoStep ==
  ASSUME HealthInv, UserDeletes \/ (\E a \in BOOLEAN : DeleteByAgent(a)) \/ MaintRecords
  PROVE  HealthInv'
<1>1. check' \in [Ids -> ContainerHttpHealthCheck]
  BY NoCheckIsRow DEF UserDeletes, DeleteByAgent, MaintRecords, HealthInv
<1>2. UNCHANGED <<loop, episode, waited, spent>>
  BY DEF UserDeletes, DeleteByAgent, MaintRecords
<1> QED
  BY <1>1, <1>2, ChecksStep

\* The loops are started and cancelled; they load their row and pause.
LEMMA LoopsAreKept ==
  ASSUME HealthInv, NEW c \in Ids, Reload(c) \/ LoopLoads(c) \/ RetryDelayPasses(c)
  PROVE  HealthInv'
<1>1. [NoLoop EXCEPT !.at = "idle"] \in [at : {"off", "idle", "asking", "retrying"}, was : Statuses]
  BY NoCheckIsRow
<1>2. check[c].status \in Statuses
  BY DEF HealthInv, ContainerHttpHealthCheck
<1>3. CASE Reload(c)
  <2>1. CASE UNCHANGED <<check, episode, waited, spent>>
    <3>1. loop' \in [Ids -> [at : {"off", "idle", "asking", "retrying"}, was : Statuses]]
      <4>1. \/ loop' = [loop EXCEPT ![c] = [NoLoop EXCEPT !.at = "idle"]]
            \/ loop' = [loop EXCEPT ![c] = NoLoop]
        BY <1>3 DEF Reload
      <4> QED
        BY <1>1, <4>1, NoCheckIsRow DEF HealthInv
    <3> QED
      BY <2>1, <3>1 DEF HealthInv
  <2>2. CASE /\ loop' = [loop EXCEPT ![c] = NoLoop] /\ check' = check /\ waited' = waited \cup {c}
             /\ episode' = [episode EXCEPT ![c] = 0] /\ spent' = [spent EXCEPT ![c] = 0]
    <3>1. 0 \in 0..MaxRestarts
      BY ContainersConstants
    <3>2. episode' \in [Ids -> 0..MaxRestarts] /\ spent' \in [Ids -> 0..MaxRestarts]
      BY <2>2, <3>1 DEF HealthInv
    <3>3. \A d \in Ids : spent'[d] <= episode'[d]
      BY <2>2 DEF HealthInv
    <3> QED
      BY <2>2, <3>2, <3>3, NoCheckIsRow DEF HealthInv
  <2> QED
    BY <1>3, <2>1, <2>2 DEF Reload
<1>4. CASE LoopLoads(c)
  BY <1>2, <1>4, NoCheckIsRow DEF LoopLoads, HealthInv
<1>5. CASE RetryDelayPasses(c)
  BY <1>5 DEF RetryDelayPasses, HealthInv
<1> QED
  BY <1>3, <1>4, <1>5

\* A restart is counted in the episode before it is asked for: whatever is
\* added to the history is in the counter, and the counter stops at its limit.
LEMMA TryRestartStep ==
  ASSUME HealthInv, NEW c \in Ids, NEW n \in 0..MaxRestarts, NEW k \in ContainerHttpHealthCheck,
         k.status = "healthy" \/ spent[c] <= n,
         TryRestart(c, n), spent' = Spent(c, k, MayTry(c, n))
  PROVE  /\ waited' \subseteq Ids
         /\ episode' \in [Ids -> 0..MaxRestarts] /\ spent' \in [Ids -> 0..MaxRestarts]
         /\ \A d \in Ids : spent'[d] <= episode'[d]
<1>1. /\ spent \in [Ids -> 0..MaxRestarts] /\ episode \in [Ids -> 0..MaxRestarts]
      /\ \A d \in Ids : spent[d] <= episode[d]
      /\ waited \subseteq Ids
  BY DEF HealthInv
<1>2. CASE ~MayTry(c, n)
  <2>1. episode' = [episode EXCEPT ![c] = n] /\ waited' = waited
    BY <1>2 DEF TryRestart
  <2>2. spent' = [spent EXCEPT ![c] = IF k.status = "healthy" THEN 0 ELSE spent[c]]
    BY <1>1, <1>2 DEF Spent
  <2> QED
    BY <1>1, <2>1, <2>2, ContainersConstants
<1>3. CASE MayTry(c, n)
  <2>1. n < MaxRestarts
    BY <1>3 DEF MayTry
  <2>2. episode' = [episode EXCEPT ![c] = n + 1] /\ waited' = waited \ {c}
    BY <1>3, <2>1, ContainersConstants DEF TryRestart, Fewer
  <2>3. spent' = [spent EXCEPT ![c] = IF k.status = "healthy" THEN 0 ELSE Fewer(spent[c] + 1, 2 * MaxRestarts)]
    BY <1>1, <1>3 DEF Spent
  <2>4. k.status # "healthy" => Fewer(spent[c] + 1, 2 * MaxRestarts) = spent[c] + 1 /\ spent[c] <= n
    BY <1>1, <2>1, ContainersConstants DEF Fewer
  <2> QED
    BY <1>1, <2>1, <2>2, <2>3, <2>4, ContainersConstants
<1> QED
  BY <1>2, <1>3

\* A round of the loop: the result is counted, a new episode begins when the
\* container recovers, and a restart may be asked for.
LEMMA LoopResultStep ==
  ASSUME HealthInv, NEW c \in Ids, NEW good \in BOOLEAN, LoopResult(c, good)
  PROVE  HealthInv'
<1>1. loop' \in [Ids -> [at : {"off", "idle", "asking", "retrying"}, was : Statuses]]
  BY DEF LoopResult, HealthInv
<1>2. CASE check[c] = NoCheck
  BY <1>1, <1>2 DEF LoopResult, HealthInv
<1>3. CASE check[c] # NoCheck
  <2>1. PICK k \in ContainerHttpHealthCheck : k = Counted(check[c], good, loop[c].was)
    BY CountedIsRow DEF HealthInv
  <2>2. PICK n \in 0..MaxRestarts :
          n = IF k.status = "healthy" /\ loop[c].was # "healthy" THEN 0 ELSE episode[c]
    BY ContainersConstants DEF HealthInv
  <2>3. check' = [check EXCEPT ![c] = k]
    BY <1>3, <2>1 DEF LoopResult
  <2>4. \/ TryRestart(c, n) /\ spent' = Spent(c, k, MayTry(c, n))
        \/ /\ episode' = [episode EXCEPT ![c] = n]
           /\ spent' = Spent(c, k, FALSE)
           /\ waited' = waited
    BY <1>3, <2>1, <2>2 DEF LoopResult
  <2>5. k.status = "healthy" \/ spent[c] <= n
    BY <2>2 DEF HealthInv
  <2>6. /\ waited' \subseteq Ids
        /\ episode' \in [Ids -> 0..MaxRestarts] /\ spent' \in [Ids -> 0..MaxRestarts]
        /\ \A d \in Ids : spent'[d] <= episode'[d]
    <3>1. CASE TryRestart(c, n) /\ spent' = Spent(c, k, MayTry(c, n))
      BY <2>5, <3>1, TryRestartStep
    <3>2. CASE /\ episode' = [episode EXCEPT ![c] = n]
               /\ spent' = Spent(c, k, FALSE)
               /\ waited' = waited
      <4>1. spent' = [spent EXCEPT ![c] = IF k.status = "healthy" THEN 0 ELSE spent[c]]
        BY <3>2 DEF Spent, HealthInv
      <4>2. 0 \in 0..MaxRestarts
        BY ContainersConstants
      <4>3. episode' \in [Ids -> 0..MaxRestarts] /\ spent' \in [Ids -> 0..MaxRestarts]
        BY <3>2, <4>1, <4>2 DEF HealthInv
      <4>4. \A d \in Ids : spent'[d] <= episode'[d]
        <5>1. /\ spent \in [Ids -> 0..MaxRestarts] /\ episode \in [Ids -> 0..MaxRestarts]
              /\ \A d \in Ids : spent[d] <= episode[d]
          BY DEF HealthInv
        <5>2. spent'[c] <= episode'[c]
          <6>1. n >= 0 /\ episode'[c] = n
            BY <2>2, <3>2, <5>1, ContainersConstants
          <6>2. spent'[c] = IF k.status = "healthy" THEN 0 ELSE spent[c]
            BY <4>1, <5>1
          <6> QED
            BY <2>5, <6>1, <6>2
        <5>3. \A d \in Ids \ {c} : spent'[d] <= episode'[d]
          BY <3>2, <4>1, <5>1
        <5> QED
          BY <5>2, <5>3
      <4> QED
        BY <3>2, <4>3, <4>4 DEF HealthInv
    <3> QED
      BY <2>4, <3>1, <3>2
  <2> QED
    BY <1>1, <2>3, <2>6 DEF HealthInv
<1> QED
  BY <1>2, <1>3

\* The second place of the loop that asks for a restart.
LEMMA LoopRetriesStep ==
  ASSUME HealthInv, NEW c \in Ids, LoopRetries(c)
  PROVE  HealthInv'
<1>1. loop' \in [Ids -> [at : {"off", "idle", "asking", "retrying"}, was : Statuses]] /\ check' = check
  BY DEF LoopRetries, HealthInv
<1>2. CASE loop[c].was # "unhealthy"
  BY <1>1, <1>2 DEF LoopRetries, HealthInv
<1>3. CASE loop[c].was = "unhealthy"
  <2>1. PICK k \in ContainerHttpHealthCheck : k = check[c]
    BY DEF HealthInv
  <2>2. PICK n \in 0..MaxRestarts : n = episode[c]
    BY DEF HealthInv
  <2>3. TryRestart(c, n) /\ spent' = Spent(c, k, MayTry(c, n)) /\ spent[c] <= n
    BY <1>3, <2>1, <2>2 DEF LoopRetries, HealthInv
  <2>4. /\ waited' \subseteq Ids
        /\ episode' \in [Ids -> 0..MaxRestarts] /\ spent' \in [Ids -> 0..MaxRestarts]
        /\ \A d \in Ids : spent'[d] <= episode'[d]
    BY <2>3, TryRestartStep
  <2> QED
    BY <1>1, <2>4 DEF HealthInv
<1> QED
  BY <1>2, <1>3

\* A result from a test or from an agent asks for no restart.
LEMMA ResultElsewhereStep ==
  ASSUME HealthInv, NEW c \in Ids, NEW good \in BOOLEAN, ResultElsewhere(c, good)
  PROVE  HealthInv'
<1>1. check[c] \in ContainerHttpHealthCheck /\ check[c].status \in Statuses
  BY DEF HealthInv, ContainerHttpHealthCheck
<1>2. Counted(check[c], good, check[c].status) \in ContainerHttpHealthCheck
  BY <1>1, CountedIsRow
<1>3. check' \in [Ids -> ContainerHttpHealthCheck]
  BY <1>2 DEF ResultElsewhere, HealthInv
<1>4. spent' = [spent EXCEPT ![c] = 0] \/ spent' = spent
  BY DEF ResultElsewhere, Spent, HealthInv
<1> QED
  BY <1>3, <1>4, ChecksStep DEF ResultElsewhere

\* A restart of the backend forgets the loops and the episodes.
LEMMA HealthRestartStep ==
  ASSUME HealthInv, Restart
  PROVE  HealthInv'
BY NoCheckIsRow, ContainersConstants DEF HealthInv, Restart

(***************************************************************************)
(* The container, its settings and the auto-restart tasks.                 *)
(***************************************************************************)
\* The number of tasks that are still to begin is at most that of the tasks.
LEMMA NewTasksCount ==
  ASSUME NEW S \in SUBSET Tasks
  PROVE  /\ IsFiniteSet(S) /\ Cardinality(S) \in Nat /\ Cardinality(S) <= Cardinality(Tasks)
         /\ Cardinality(Tasks) \in Nat /\ MostAttempts \in Nat
         /\ \A R \in SUBSET S : Cardinality(R) \in Nat /\ Cardinality(R) <= Cardinality(S)
         /\ \A t \in Tasks \ S : Cardinality(S \cup {t}) = Cardinality(S) + 1
         /\ \A t \in S : Cardinality(S \ {t}) = Cardinality(S) - 1
<1>1. IsFiniteSet(S) /\ Cardinality(S) <= Cardinality(Tasks)
  BY ContainersConstants, FS_Subset
<1>2. Cardinality(S) \in Nat /\ Cardinality(Tasks) \in Nat
  BY <1>1, ContainersConstants, FS_CardinalityType
<1>3. ASSUME NEW R \in SUBSET S PROVE Cardinality(R) \in Nat /\ Cardinality(R) <= Cardinality(S)
  BY <1>1, FS_Subset, FS_CardinalityType
<1>4. ASSUME NEW t \in Tasks \ S PROVE Cardinality(S \cup {t}) = Cardinality(S) + 1
  BY <1>1, FS_AddElement
<1>5. ASSUME NEW t \in S PROVE Cardinality(S \ {t}) = Cardinality(S) - 1
  BY <1>1, FS_RemoveElement
<1>6. MostAttempts \in Nat
  <2>1. Cardinality(Tasks) # 0
    BY ContainersConstants, FS_EmptySet
  <2> QED
    BY <1>2, <2>1, ContainersConstants DEF MostAttempts
<1> QED
  BY <1>1, <1>2, <1>3, <1>4, <1>5, <1>6

\* The setting a container takes over is a setting.
LEMMA ReattachedCfgIsSetting ==
  ASSUME RestartTypes, NEW c \in Ids
  PROVE  ReattachedCfg(c) \in AutoRestartConfig /\ (cfg[c] # "none" => ReattachedCfg(c) = cfg[c])
<1>1. CASE cfg[c] = "none" /\ Others(c) # {}
  <2>1. PICK o \in Ids : o = CHOOSE k \in Others(c) : TRUE
    BY <1>1 DEF Others
  <2> QED
    BY <1>1, <2>1 DEF ReattachedCfg, RestartTypes
<1>2. CASE ~(cfg[c] = "none" /\ Others(c) # {})
  BY <1>2 DEF ReattachedCfg, RestartTypes
<1> QED
  BY <1>1, <1>2

\* Steps of the container and its host, and of whatever acts on it without
\* touching a setting or a task.
LEMMA ContainerMoves ==
  ASSUME RestartsInv, up' \in BOOLEAN, reach' \in BOOLEAN, dies' \subseteq dies \cup ({live} \ {Nil}),
         \/ requests' = requests
         \/ requests < MaxRequests[uses] /\ requests' = requests + 1,
         UNCHANGED <<uses, live, born, monitoring, restarts, maint>>
  PROVE  RestartsInv'
<1>0. UNCHANGED <<uses, live, born, listed, sweep, seen, cfg, memo, attempts, flag, task, early, cleared, maint>>
  BY DEF monitoring, restarts
<1>1. requests' \in 0..MaxRequests[uses']
  BY <1>0, ContainersConstants DEF RestartsInv, WorldTypes
<1>2. WorldTypes'
  BY <1>0, <1>1 DEF RestartsInv, WorldTypes
<1>3. RestartTypes'
  BY <1>0 DEF RestartsInv, RestartTypes
<1>4. OnlyBornIsKnown'
  BY <1>0 DEF RestartsInv, OnlyBornIsKnown
<1>5. ListedIsSeen'
  BY <1>0 DEF RestartsInv, ListedIsSeen
<1>6. AttemptsFit'
  BY <1>0 DEF RestartsInv, AttemptsFit, NewTasks
<1>7. TasksAreFlagged'
  BY <1>0 DEF RestartsInv, TasksAreFlagged
<1>8. TasksHaveStatus' /\ GivenUp'
  BY <1>0 DEF RestartsInv, TasksHaveStatus, GivenUp
<1> QED
  BY <1>2, <1>3, <1>4, <1>5, <1>6, <1>7, <1>8 DEF RestartsInv

\* Attempts that are kept or reset, with no new task, stay below the limit.
LEMMA AttemptsStep ==
  ASSUME RestartTypes, AttemptsFit,
         \A c \in Ids : attempts'[c] = attempts[c] \/ attempts'[c] = 0,
         \A c \in Ids : NewTasks(c)' \subseteq NewTasks(c)
  PROVE  AttemptsFit'
<1> SUFFICES ASSUME NEW c \in Ids
             PROVE  attempts'[c] + Cardinality(NewTasks(c)') <= MostAttempts
  BY DEF AttemptsFit, MostAttempts
<1>1. NewTasks(c) \in SUBSET Tasks /\ NewTasks(c)' \in SUBSET NewTasks(c) /\ NewTasks(c)' \in SUBSET Tasks
  BY DEF NewTasks
<1>2. /\ Cardinality(NewTasks(c)') \in Nat /\ Cardinality(NewTasks(c)') <= Cardinality(NewTasks(c))
      /\ Cardinality(NewTasks(c)) \in Nat
      /\ Cardinality(NewTasks(c)') <= Cardinality(Tasks) /\ Cardinality(Tasks) \in Nat
  BY <1>1, NewTasksCount
<1>3. attempts[c] \in Nat /\ MostAttempts \in Nat
  <2>1. MostAttempts \in Nat
    BY <1>1, NewTasksCount
  <2> QED
    BY <2>1 DEF RestartTypes
<1>4. attempts[c] + Cardinality(NewTasks(c)) <= MostAttempts
  BY DEF AttemptsFit
<1>5. CASE attempts'[c] = attempts[c]
  BY <1>2, <1>3, <1>4, <1>5
<1>6. CASE attempts'[c] = 0
  BY <1>2, <1>3, <1>4, <1>6
<1> QED
  BY <1>5, <1>6

\* A task is created only below the limit, and only for a container that is
\* not flagged: it is the only task of the container.
LEMMA SpawnStep ==
  ASSUME RestartTypes, AttemptsFit, TasksAreFlagged, NEW c \in Ids, MayRestart(c), Spawn(c),
         UNCHANGED <<attempts, cleared>>
  PROVE  /\ task' \in [Tasks -> [id : Ids \cup {Nil}, n : 0..MostAttempts,
                                 at : {"free", "new", "delay", "starting", "ending"}]]
         /\ flag' = flag \cup {c}
         /\ \E t \in Tasks : /\ task[t].id = Nil
                             /\ task' = [task EXCEPT ![t] = [id |-> c, at |-> "new", n |-> 0]]
         /\ AttemptsFit' /\ TasksAreFlagged'
<1>1. PICK t \in Tasks : /\ task[t] = NoTask
                         /\ task' = [task EXCEPT ![t] = [id |-> c, at |-> "new", n |-> 0]]
                         /\ flag' = flag \cup {c}
  BY DEF Spawn
<1>2. /\ c # Nil /\ task[t].id = Nil /\ task[t].at = "free"
      /\ c \notin flag /\ attempts[c] < MaxRetries
  BY <1>1, ContainersConstants DEF NoTask, Nil, MayRestart
<1>3. /\ task'[t].id = c /\ task'[t].at = "new"
      /\ \A u \in Tasks \ {t} : task'[u] = task[u]
  BY <1>1 DEF RestartTypes
<1>4. AttemptsFit'
  <2> SUFFICES ASSUME NEW d \in Ids
               PROVE  attempts[d] + Cardinality(NewTasks(d)') <= MostAttempts
    BY DEF AttemptsFit, MostAttempts
  <2>1. NewTasks(d) \in SUBSET Tasks /\ NewTasks(d)' \in SUBSET Tasks
    BY DEF NewTasks
  <2>2. MostAttempts \in Nat /\ Cardinality(NewTasks(d)') \in Nat /\ Cardinality(Tasks) \in Nat
          /\ Cardinality(NewTasks(d)') <= Cardinality(Tasks)
    BY <2>1, NewTasksCount
  <2>3. attempts[d] \in Nat
    BY <2>2 DEF RestartTypes
  <2>4. CASE d = c
    BY <1>2, <2>2, <2>3, <2>4, ContainersConstants DEF MostAttempts
  <2>5. CASE d # c
    <3>1. NewTasks(d)' = NewTasks(d)
      BY <1>2, <1>3, <2>5 DEF NewTasks
    <3> QED
      BY <3>1 DEF AttemptsFit
  <2> QED
    BY <2>4, <2>5
<1>5. task' \in [Tasks -> [id : Ids \cup {Nil}, n : 0..MostAttempts,
                           at : {"free", "new", "delay", "starting", "ending"}]]
  <2>1. MostAttempts \in Nat
    BY NewTasksCount
  <2>2. [id |-> c, at |-> "new", n |-> 0] \in [id : Ids \cup {Nil}, n : 0..MostAttempts,
                           at : {"free", "new", "delay", "starting", "ending"}]
    BY <2>1
  <2> QED
    BY <1>1, <2>2 DEF RestartTypes
<1>6. TasksAreFlagged'
  <2>1. \A u \in Tasks : task'[u].id = Nil <=> task'[u].at = "free"
    BY <1>2, <1>3 DEF TasksAreFlagged
  <2>2. ASSUME NEW d \in Ids \ cleared, NEW u \in Tasks, task'[u].id = d
        PROVE  /\ d \in flag'
               /\ \A v \in Tasks : task'[v].id = d => v = u
               /\ task'[u].at \in {"delay", "starting"} => attempts[d] = task'[u].n
    <3>1. CASE d = c
      <4>1. \A v \in Tasks : task[v].id # c
        BY <1>2, <2>2, <3>1 DEF TasksAreFlagged
      <4> QED
        BY <1>1, <1>3, <2>2, <3>1, <4>1
    <3>2. CASE d # c
      BY <1>1, <1>2, <1>3, <2>2, <3>2 DEF TasksAreFlagged
    <3> QED
      BY <3>1, <3>2
  <2> QED
    BY <2>1, <2>2 DEF TasksAreFlagged
<1> QED
  BY <1>1, <1>2, <1>4, <1>5, <1>6

\* What the event handler and the monitoring loop do with a container that
\* has stopped: the status is read and cached, and a task may be created.
LEMMA ConsiderStep ==
  ASSUME RestartsInv, NEW c \in Ids, c \in born,
         memo' = [memo EXCEPT ![c] = Status(c)],
         \/ Status(c) = "on" /\ MayRestart(c) /\ Spawn(c)
         \/ UNCHANGED <<task, flag>>,
         early \subseteq early', early' \subseteq Ids, dies' \subseteq dies,
         c = live /\ c \notin seen /\ memo[c] = "none" => c \in early',
         sweep' \in {"idle", "acting"},
         UNCHANGED <<uses, live, up, reach, born, listed, seen, cfg, attempts, cleared, maint, requests>>
  PROVE  RestartsInv'
<1>1. WorldTypes /\ RestartTypes /\ OnlyBornIsKnown /\ ListedIsSeen
      /\ AttemptsFit /\ TasksAreFlagged /\ TasksHaveStatus /\ GivenUp
  BY DEF RestartsInv
<1>2. /\ Status(c) \in {"on", "off"}
      /\ memo[c] # "none" => Status(c) = memo[c]
      /\ memo[c] = "none" /\ cfg[c] # "none" => Status(c) = cfg[c]
      /\ memo'[c] = Status(c) /\ \A d \in Ids \ {c} : memo'[d] = memo[d]
      /\ memo' \in [Ids -> AutoRestartConfig]
  BY <1>1 DEF Status, RestartTypes, AutoRestartConfig
<1>3. WorldTypes'
  BY <1>1 DEF WorldTypes
<1>4. ListedIsSeen'
  BY <1>1, <1>2 DEF ListedIsSeen
<1>5. CASE UNCHANGED <<task, flag>>
  <2>1. RestartTypes'
    BY <1>1, <1>2, <1>5 DEF RestartTypes
  <2>2. OnlyBornIsKnown'
    BY <1>1, <1>2, <1>5 DEF OnlyBornIsKnown
  <2>3. AttemptsFit' /\ TasksAreFlagged'
    BY <1>1, <1>5 DEF AttemptsFit, NewTasks, TasksAreFlagged
  <2>4. TasksHaveStatus' /\ GivenUp'
    BY <1>1, <1>2, <1>5 DEF TasksHaveStatus, GivenUp
  <2> QED
    BY <1>3, <1>4, <2>1, <2>2, <2>3, <2>4 DEF RestartsInv
<1>6. CASE Status(c) = "on" /\ MayRestart(c) /\ Spawn(c)
  <2>1. /\ task' \in [Tasks -> [id : Ids \cup {Nil}, n : 0..MostAttempts,
                                 at : {"free", "new", "delay", "starting", "ending"}]]
        /\ flag' = flag \cup {c}
        /\ AttemptsFit' /\ TasksAreFlagged'
    BY <1>1, <1>6, SpawnStep
  <2>2. PICK t \in Tasks : /\ task[t].id = Nil
                           /\ task' = [task EXCEPT ![t] = [id |-> c, at |-> "new", n |-> 0]]
    BY <1>1, <1>6, SpawnStep
  <2>3. task'[t].id = c /\ \A u \in Tasks \ {t} : task'[u] = task[u]
    BY <1>1, <2>2 DEF RestartTypes
  <2>4. RestartTypes'
    BY <1>1, <1>2, <2>1 DEF RestartTypes
  <2>5. OnlyBornIsKnown'
    BY <1>1, <1>2, <2>3 DEF OnlyBornIsKnown
  <2>6. GivenUp'
    <3> SUFFICES ASSUME NEW d \in Ids, d \notin early' \cup cleared,
                        memo'[d] # "none", cfg[d] # "none", memo'[d] # cfg[d]
                 PROVE  /\ memo'[d] = "off" /\ attempts[d] >= MaxRetries
                        /\ \A u \in Tasks : task'[u].id = d => task'[u].at = "ending"
      BY DEF GivenUp
    <3>1. d # c
      BY <1>1, <1>2, <1>6 DEF GivenUp
    <3> QED
      BY <1>1, <1>2, <2>3, <3>1 DEF GivenUp
  <2>7. TasksHaveStatus'
    BY <1>1, <1>2, <2>3 DEF TasksHaveStatus
  <2> QED
    BY <1>3, <1>4, <2>1, <2>4, <2>5, <2>6, <2>7 DEF RestartsInv
<1> QED
  BY <1>5, <1>6

\* The handler of a "die" event.
LEMMA HandleDieStep ==
  ASSUME RestartsInv, NEW c \in Ids, HandleDie(c)
  PROVE  RestartsInv'
<1>1. c \in born /\ early \subseteq Ids /\ sweep \in {"idle", "acting"}
  BY DEF HandleDie, RestartsInv, OnlyBornIsKnown, RestartTypes, WorldTypes
<1>2. /\ memo' = [memo EXCEPT ![c] = Status(c)]
      /\ \/ Status(c) = "on" /\ MayRestart(c) /\ Spawn(c)
         \/ UNCHANGED <<task, flag>>
      /\ dies' \subseteq dies /\ sweep' = sweep
      /\ UNCHANGED <<uses, live, up, reach, born, listed, seen, cfg, attempts, cleared, maint, requests>>
  BY DEF HandleDie, monitoring
<1>3. /\ early \subseteq early' /\ early' \subseteq Ids
      /\ c = live /\ c \notin seen /\ memo[c] = "none" => c \in early'
  BY <1>1 DEF HandleDie
<1> QED
  BY <1>1, <1>2, <1>3, ConsiderStep

\* The monitoring loop acts on its list.
LEMMA SweepActsStep ==
  ASSUME RestartsInv, SweepActs
  PROVE  RestartsInv'
<1>0. /\ sweep' = "idle"
      /\ UNCHANGED <<uses, live, up, reach, born, dies, listed, seen, cfg, attempts, early, cleared, maint, requests>>
  BY DEF SweepActs, world
<1>1. CASE UNCHANGED <<memo, task, flag>>
  BY <1>0, <1>1 DEF RestartsInv, WorldTypes, RestartTypes, OnlyBornIsKnown, ListedIsSeen, AttemptsFit, NewTasks,
                    TasksAreFlagged, TasksHaveStatus, GivenUp
<1>2. CASE ~UNCHANGED <<memo, task, flag>>
  <2>1. PICK c \in Ids : c = listed.id
    BY <1>2 DEF SweepActs, RestartsInv, WorldTypes
  <2>2. /\ memo' = [memo EXCEPT ![c] = Status(c)]
        /\ \/ Status(c) = "on" /\ MayRestart(c) /\ Spawn(c)
           \/ UNCHANGED <<task, flag>>
    BY <1>2, <2>1 DEF SweepActs
  <2>3. c # Nil
    BY ContainersConstants DEF Nil
  <2>4. c \in born /\ early' \subseteq Ids /\ early \subseteq early' /\ (c = live => c \in seen)
    BY <1>0, <2>1, <2>3 DEF RestartsInv, OnlyBornIsKnown, ListedIsSeen, RestartTypes
  <2>5. dies' \subseteq dies /\ sweep' \in {"idle", "acting"}
    BY <1>0
  <2> QED
    BY <1>0, <2>2, <2>4, <2>5, ConsiderStep
<1> QED
  BY <1>1, <1>2

\* A reset from outside: the flags and the attempts of some containers go,
\* and those that had a flag are the exceptions from now on.
LEMMA ResetStep ==
  ASSUME RestartTypes, AttemptsFit, TasksAreFlagged, NEW S \in SUBSET Ids,
         \A c \in Ids : attempts'[c] = IF c \in S THEN 0 ELSE attempts[c],
         flag' = flag \ S, cleared' = cleared \cup (flag \cap S), UNCHANGED task
  PROVE  AttemptsFit' /\ TasksAreFlagged'
<1>1. AttemptsFit'
  <2>1. \A c \in Ids : NewTasks(c)' \subseteq NewTasks(c)
    BY DEF NewTasks
  <2>2. \A c \in Ids : attempts'[c] = attempts[c] \/ attempts'[c] = 0
    OBVIOUS
  <2> QED
    BY <2>1, <2>2, AttemptsStep
<1>2. TasksAreFlagged'
  BY DEF TasksAreFlagged
<1> QED
  BY <1>1, <1>2

\* A user switches auto-restart on or off.
LEMMA ToggleStep ==
  ASSUME RestartsInv, NEW c \in Ids, NEW s \in {"on", "off"}, ToggleAutoRestart(c, s)
  PROVE  RestartsInv'
<1>1. WorldTypes /\ RestartTypes /\ OnlyBornIsKnown /\ ListedIsSeen
      /\ AttemptsFit /\ TasksAreFlagged /\ TasksHaveStatus /\ GivenUp
  BY DEF RestartsInv
<1>2. /\ c = live /\ memo' = [memo EXCEPT ![c] = s] /\ cfg' = [cfg EXCEPT ![c] = s]
      /\ requests < MaxRequests[uses] /\ requests' = requests + 1
      /\ UNCHANGED <<uses, live, up, reach, born, dies, listed, sweep, seen, task, early, maint>>
  BY DEF ToggleAutoRestart, Toggled, Request, world, monitoring
<1>3. PICK S \in SUBSET Ids : S = IF s = "off" THEN {c} ELSE {}
  OBVIOUS
<1>4. /\ \A d \in Ids : attempts'[d] = IF d \in S THEN 0 ELSE attempts[d]
      /\ attempts' \in [Ids -> 0..MostAttempts]
      /\ flag' = flag \ S /\ cleared' = cleared \cup (flag \cap S)
  <2>1. MostAttempts \in Nat
    BY NewTasksCount
  <2> QED
    BY <1>1, <1>3, <2>1 DEF ToggleAutoRestart, RestartTypes
<1>5. AttemptsFit' /\ TasksAreFlagged'
  BY <1>1, <1>2, <1>4, ResetStep
<1>6. WorldTypes'
  BY <1>1, <1>2, ContainersConstants DEF WorldTypes
<1>7. RestartTypes'
  BY <1>1, <1>2, <1>4 DEF RestartTypes, AutoRestartConfig
<1>8. OnlyBornIsKnown' /\ ListedIsSeen'
  <2>1. c # Nil
    BY ContainersConstants DEF Nil
  <2>2. c \in born
    BY <1>1, <1>2, <2>1 DEF OnlyBornIsKnown
  <2>3. OnlyBornIsKnown'
    BY <1>1, <1>2, <2>2 DEF OnlyBornIsKnown, RestartTypes
  <2>4. ListedIsSeen'
    BY <1>1, <1>2 DEF ListedIsSeen, RestartTypes
  <2> QED
    BY <2>3, <2>4
<1>9. GivenUp'
  <2> SUFFICES ASSUME NEW d \in Ids, d \notin early \cup cleared',
                      memo'[d] # "none", cfg'[d] # "none", memo'[d] # cfg'[d]
               PROVE  /\ memo'[d] = "off" /\ attempts'[d] >= MaxRetries
                      /\ \A u \in Tasks : task[u].id = d => task[u].at = "ending"
    BY <1>2 DEF GivenUp
  <2>1. d # c
    BY <1>1, <1>2 DEF RestartTypes
  <2> QED
    BY <1>1, <1>2, <1>3, <1>4, <2>1 DEF GivenUp, RestartTypes
<1>10. TasksHaveStatus'
  BY <1>1, <1>2, <1>4 DEF TasksHaveStatus, RestartTypes
<1> QED
  BY <1>5, <1>6, <1>7, <1>8, <1>9, <1>10 DEF RestartsInv

\* The daily clean-up of what is kept in memory.
LEMMA MaintMemoryStep ==
  ASSUME RestartsInv, MaintMemory
  PROVE  RestartsInv'
<1>1. WorldTypes /\ RestartTypes /\ OnlyBornIsKnown /\ ListedIsSeen
      /\ AttemptsFit /\ TasksAreFlagged /\ TasksHaveStatus /\ GivenUp
  BY DEF RestartsInv
<1>2. PICK S \in SUBSET Ids : S = {c \in Ids : memo[c] # "none" /\ c # maint.id}
  OBVIOUS
<1>3. /\ memo' = [c \in Ids |-> IF c \in S THEN "none" ELSE memo[c]]
      /\ attempts' = [c \in Ids |-> IF c \in S THEN 0 ELSE attempts[c]]
      /\ flag' = flag \ S /\ cleared' = cleared \cup (flag \cap S)
      /\ maint' = [at |-> "idle", id |-> Nil]
      /\ UNCHANGED <<uses, live, up, reach, born, dies, listed, sweep, seen, cfg, task, early, requests>>
  BY <1>2 DEF MaintMemory, world, monitoring
<1>4. AttemptsFit' /\ TasksAreFlagged'
  <2>1. \A c \in Ids : attempts'[c] = IF c \in S THEN 0 ELSE attempts[c]
    BY <1>3
  <2> QED
    BY <1>1, <1>3, <2>1, ResetStep
<1>5. WorldTypes'
  BY <1>1, <1>3 DEF WorldTypes
<1>6. RestartTypes'
  <2>1. MostAttempts \in Nat
    BY NewTasksCount
  <2> QED
    BY <1>1, <1>3, <2>1 DEF RestartTypes, AutoRestartConfig
<1>7. OnlyBornIsKnown' /\ ListedIsSeen'
  BY <1>1, <1>3 DEF OnlyBornIsKnown, ListedIsSeen, WorldTypes
<1>8. GivenUp'
  BY <1>1, <1>3 DEF GivenUp
<1>9. TasksHaveStatus'
  BY <1>1, <1>3 DEF TasksHaveStatus, TasksAreFlagged
<1> QED
  BY <1>4, <1>5, <1>6, <1>7, <1>8, <1>9 DEF RestartsInv

\* A listing of the host: what it lists has been discovered, and a status is
\* cached only after the settings were re-attached.
LEMMA DiscoverStep ==
  ASSUME RestartsInv, Discover,
         UNCHANGED <<uses, live, up, reach, born, dies, attempts, flag, task, early, cleared>>,
         sweep' \in {"idle", "acting"},
         listed' \in {listed, Listing},
         maint' \in {maint} \cup [at : {"memory", "records"}, id : {Listing.id}],
         requests' \in 0..MaxRequests[uses]
  PROVE  RestartsInv'
<1>1. WorldTypes /\ RestartTypes /\ OnlyBornIsKnown /\ ListedIsSeen
      /\ AttemptsFit /\ TasksAreFlagged /\ TasksHaveStatus /\ GivenUp
  BY DEF RestartsInv
<1>2. /\ Listing \in [id : Ids \cup {Nil}, up : BOOLEAN]
      /\ Listing.id = IF reach /\ live # Nil THEN live ELSE Nil
  BY <1>1 DEF Listing, NoList, WorldTypes, Nil
<1>3. AttemptsFit' /\ TasksAreFlagged'
  BY <1>1 DEF AttemptsFit, NewTasks, TasksAreFlagged
<1>4. CASE ~reach \/ live = Nil
  <2>1. UNCHANGED <<seen, cfg, memo>>
    BY <1>4 DEF Discover
  <2>2. Listing.id = Nil
    BY <1>2, <1>4
  <2>3. WorldTypes'
    BY <1>1, <1>2, <2>1 DEF WorldTypes
  <2>4. RestartTypes' /\ TasksHaveStatus' /\ GivenUp'
    BY <1>1, <2>1 DEF RestartTypes, TasksHaveStatus, GivenUp
  <2>5. OnlyBornIsKnown' /\ ListedIsSeen'
    BY <1>1, <1>2, <2>1, <2>2 DEF OnlyBornIsKnown, ListedIsSeen
  <2> QED
    BY <1>3, <2>3, <2>4, <2>5 DEF RestartsInv
<1>5. CASE reach /\ live # Nil
  <2>0. PICK c \in Ids : c = live
    BY <1>1, <1>5 DEF WorldTypes
  <2>1. seen' = {c}
    BY <1>5, <2>0 DEF Discover
  <2>2. /\ cfg' \in [Ids -> AutoRestartConfig] /\ \A d \in Ids \ {c} : cfg'[d] = cfg[d]
        /\ cfg[c] # "none" \/ c \in seen => cfg'[c] = cfg[c]
    BY <1>1, <1>5, <2>0, ReattachedCfgIsSetting DEF Discover, RestartTypes
  <2>3. /\ memo' \in [Ids -> AutoRestartConfig] /\ \A d \in Ids \ {c} : memo'[d] = memo[d]
        /\ memo[c] # "none" => memo'[c] = memo[c]
        /\ memo[c] = "none" /\ cfg'[c] # "none" => memo'[c] \in {"none", cfg'[c]}
    BY <1>1, <1>5, <2>0, <2>2 DEF Discover, RestartTypes, AutoRestartConfig
  <2>4. WorldTypes'
    BY <1>1, <1>2, <2>1 DEF WorldTypes
  <2>5. RestartTypes'
    BY <1>1, <2>2, <2>3 DEF RestartTypes
  <2>6. OnlyBornIsKnown'
    <3>1. c \in born
      BY <1>1, <1>5, <2>0 DEF OnlyBornIsKnown
    <3>2. listed'.id \in born \cup {Nil} /\ maint'.id \in born \cup {Nil}
      BY <1>1, <1>2, <2>0, <3>1 DEF OnlyBornIsKnown
    <3> QED
      BY <1>1, <2>0, <2>3, <3>1, <3>2 DEF OnlyBornIsKnown
  <2>7. ListedIsSeen'
    BY <2>0, <2>1 DEF ListedIsSeen
  <2>8. GivenUp'
    <3> SUFFICES ASSUME NEW d \in Ids, d \notin early \cup cleared,
                        memo'[d] # "none", cfg'[d] # "none", memo'[d] # cfg'[d]
                 PROVE  /\ memo'[d] = "off" /\ attempts[d] >= MaxRetries
                        /\ \A u \in Tasks : task[u].id = d => task[u].at = "ending"
      BY DEF GivenUp
    <3>1. CASE d # c
      BY <1>1, <2>2, <2>3, <3>1 DEF GivenUp
    <3>2. CASE d = c
      <4>1. memo[c] # "none" /\ memo'[c] = memo[c]
        BY <2>3, <3>2
      <4>2. cfg[c] # "none" \/ c \in seen
        BY <1>1, <1>5, <2>0, <3>2, <4>1 DEF ListedIsSeen
      <4>3. cfg'[c] = cfg[c]
        BY <2>2, <4>2
      <4> QED
        BY <1>1, <3>2, <4>1, <4>3 DEF GivenUp
    <3> QED
      BY <3>1, <3>2
  <2>9. TasksHaveStatus'
    BY <1>1, <2>3 DEF TasksHaveStatus
  <2> QED
    BY <1>3, <2>4, <2>5, <2>6, <2>7, <2>8, <2>9 DEF RestartsInv
<1> QED
  BY <1>1, <1>4, <1>5 DEF WorldTypes

\* The monitoring loop lists the host.
LEMMA SweepListsStep ==
  ASSUME RestartsInv, SweepLists
  PROVE  RestartsInv'
<1>1. /\ Discover /\ listed' = Listing /\ sweep' = "acting" /\ maint' = maint /\ requests' = requests
      /\ UNCHANGED <<uses, live, up, reach, born, dies, attempts, flag, task, early, cleared>>
  BY DEF SweepLists, world
<1>2. requests \in 0..MaxRequests[uses]
  BY DEF RestartsInv, WorldTypes
<1> QED
  BY <1>1, <1>2, DiscoverStep

\* The daily maintenance lists the host, before each of its two clean-ups.
LEMMA MaintListsStep ==
  ASSUME RestartsInv, NEW phase \in {"memory", "records"}, MaintLists(phase)
  PROVE  RestartsInv'
<1>1. /\ Discover /\ listed' = listed /\ sweep' = sweep /\ maint' = [at |-> phase, id |-> Listing.id]
      /\ requests < MaxRequests[uses] /\ requests' = requests + 1
      /\ UNCHANGED <<uses, live, up, reach, born, dies, attempts, flag, task, early, cleared>>
  BY DEF MaintLists, Request, world
<1>2. requests' \in 0..MaxRequests[uses] /\ sweep \in {"idle", "acting"}
  BY <1>1, ContainersConstants DEF RestartsInv, WorldTypes
<1>3. maint' \in {maint} \cup [at : {"memory", "records"}, id : {Listing.id}]
  BY <1>1
<1> QED
  BY <1>1, <1>2, <1>3, DiscoverStep

\* A step of one task that neither creates one nor leaves the world of the
\* container otherwise than by starting it.
LEMMA TaskWorld ==
  ASSUME RestartsInv, up' \in BOOLEAN,
         UNCHANGED <<uses, live, reach, born, dies, monitoring, maint, requests>>
  PROVE  WorldTypes'
BY DEF RestartsInv, WorldTypes, monitoring

\* What a task is before a step of it: the task of a container that is
\* known, and the only one unless the flag was reset.
LEMMA TaskOf ==
  ASSUME RestartsInv, NEW t \in Tasks, task[t].at # "free"
  PROVE  /\ task[t].id \in Ids /\ task[t].id \in born
         /\ task[t].n \in 0..MostAttempts
         /\ task[t] = [id |-> task[t].id, at |-> task[t].at, n |-> task[t].n]
<1>1. task[t] \in [id : Ids \cup {Nil}, n : 0..MostAttempts, at : {"free", "new", "delay", "starting", "ending"}]
  BY DEF RestartsInv, RestartTypes
<1>2. task[t].id # Nil
  BY DEF RestartsInv, TasksAreFlagged
<1> QED
  BY <1>1, <1>2 DEF RestartsInv, OnlyBornIsKnown

\* A task that begins counts its attempt.
LEMMA TaskBeginsStep ==
  ASSUME RestartsInv, NEW t \in Tasks, TaskBegins(t)
  PROVE  RestartsInv'
<1>1. WorldTypes /\ RestartTypes /\ OnlyBornIsKnown /\ ListedIsSeen
      /\ AttemptsFit /\ TasksAreFlagged /\ TasksHaveStatus /\ GivenUp
  BY DEF RestartsInv
<1>2. PICK c \in Ids : c = task[t].id
  BY TaskOf DEF TaskBegins, At
<1>3. PICK n : n = attempts[c] + 1
  OBVIOUS
<1>4. PICK p \in {"delay", "starting"} : p = IF n > 1 THEN "delay" ELSE "starting"
  OBVIOUS
<1>5. /\ task[t].at = "new"
      /\ attempts' = [attempts EXCEPT ![c] = n]
      /\ task' = [task EXCEPT ![t].n = n, ![t].at = p]
      /\ UNCHANGED <<uses, live, up, reach, born, dies, listed, sweep, seen, cfg, memo, flag,
                     early, cleared, maint, requests>>
  BY <1>2, <1>3, <1>4 DEF TaskBegins, At, world, monitoring
<1>6. /\ task'[t].id = c /\ task'[t].at = p /\ task'[t].n = n
      /\ \A u \in Tasks \ {t} : task'[u] = task[u]
      /\ attempts'[c] = n /\ \A d \in Ids \ {c} : attempts'[d] = attempts[d]
  BY <1>1, <1>2, <1>5 DEF RestartTypes
<1>7. attempts[c] \in Nat /\ MostAttempts \in Nat /\ n \in Nat
  <2>1. MostAttempts \in Nat
    BY NewTasksCount
  <2> QED
    BY <1>1, <1>3, <2>1 DEF RestartTypes
<1>8. AttemptsFit' /\ n <= MostAttempts
  <2>1. NewTasks(c) \in SUBSET Tasks /\ t \in NewTasks(c) /\ NewTasks(c)' = NewTasks(c) \ {t}
    BY <1>2, <1>5, <1>6 DEF NewTasks
  <2>2. Cardinality(NewTasks(c)') = Cardinality(NewTasks(c)) - 1 /\ Cardinality(NewTasks(c)) \in Nat
          /\ Cardinality(NewTasks(c)') \in Nat
    <3>1. NewTasks(c)' \in SUBSET NewTasks(c)
      BY <2>1
    <3> QED
      BY <2>1, <3>1, NewTasksCount
  <2>3. attempts[c] + Cardinality(NewTasks(c)) <= MostAttempts
    BY <1>1 DEF AttemptsFit
  <2>4. n + Cardinality(NewTasks(c)') <= MostAttempts /\ n <= MostAttempts
    BY <1>3, <1>7, <2>2, <2>3
  <2>5. ASSUME NEW d \in Ids \ {c} PROVE attempts'[d] + Cardinality(NewTasks(d)') <= MostAttempts
    <3>1. NewTasks(d)' = NewTasks(d)
      BY <1>2, <1>6 DEF NewTasks
    <3> QED
      BY <1>1, <1>6, <3>1 DEF AttemptsFit
  <2>6. \A d \in Ids : attempts'[d] + Cardinality(NewTasks(d)') <= MostAttempts
    BY <1>6, <2>4, <2>5
  <2> QED
    BY <2>4, <2>6 DEF AttemptsFit, MostAttempts
<1>9. RestartTypes'
  <2>1. n \in 0..MostAttempts
    BY <1>7, <1>8
  <2>2. attempts' \in [Ids -> 0..MostAttempts]
    BY <1>1, <1>5, <2>1 DEF RestartTypes
  <2>3. task' \in [Tasks -> [id : Ids \cup {Nil}, n : 0..MostAttempts,
                             at : {"free", "new", "delay", "starting", "ending"}]]
    BY <1>1, <1>4, <1>5, <2>1 DEF RestartTypes
  <2> QED
    BY <1>1, <1>5, <2>2, <2>3 DEF RestartTypes, MostAttempts
<1>10. WorldTypes' /\ ListedIsSeen' /\ OnlyBornIsKnown'
  BY <1>1, <1>2, <1>5, <1>6 DEF WorldTypes, ListedIsSeen, OnlyBornIsKnown
<1>11. TasksAreFlagged'
  <2>1. \A u \in Tasks : task'[u].id = Nil <=> task'[u].at = "free"
    <3>1. c # Nil
      BY ContainersConstants DEF Nil
    <3> QED
      BY <1>1, <1>2, <1>4, <1>5, <1>6, <3>1 DEF TasksAreFlagged
  <2>2. ASSUME NEW d \in Ids \ cleared, NEW u \in Tasks, task'[u].id = d
        PROVE  /\ d \in flag
               /\ \A v \in Tasks : task'[v].id = d => v = u
               /\ task'[u].at \in {"delay", "starting"} => attempts'[d] = task'[u].n
    <3>1. \A v \in Tasks : task'[v].id = task[v].id
      BY <1>2, <1>6
    <3>2. d \in flag /\ \A v \in Tasks : task'[v].id = d => v = u
      BY <1>1, <2>2, <3>1 DEF TasksAreFlagged
    <3>3. CASE u = t
      BY <1>6, <2>2, <3>2, <3>3
    <3>4. CASE u # t
      <4>1. d # c
        BY <1>6, <3>2, <3>4
      <4> QED
        BY <1>1, <1>6, <2>2, <3>2, <3>4, <4>1 DEF TasksAreFlagged
    <3> QED
      BY <3>3, <3>4
  <2> QED
    BY <1>5, <2>1, <2>2 DEF TasksAreFlagged
<1>12. GivenUp'
  <2> SUFFICES ASSUME NEW d \in Ids, d \notin early \cup cleared,
                      memo[d] # "none", cfg[d] # "none", memo[d] # cfg[d]
               PROVE  /\ memo[d] = "off" /\ attempts'[d] >= MaxRetries
                      /\ \A u \in Tasks : task'[u].id = d => task'[u].at = "ending"
    BY <1>5 DEF GivenUp
  <2>1. d # c
    BY <1>1, <1>2, <1>5 DEF GivenUp
  <2> QED
    BY <1>1, <1>6, <2>1 DEF GivenUp
<1>13. TasksHaveStatus'
  <2>1. \A v \in Tasks : task'[v].id = task[v].id
    BY <1>2, <1>6
  <2> QED
    BY <1>1, <1>5, <2>1 DEF TasksHaveStatus
<1> QED
  BY <1>8, <1>9, <1>10, <1>11, <1>12, <1>13 DEF RestartsInv

\* A task that goes on or ends, keeps or resets the attempts it has counted,
\* may give up, and gives back its flag when it is over.
LEMMA TaskGoesOn ==
  ASSUME RestartsInv, NEW t \in Tasks, NEW c \in Ids, c = task[t].id,
         task[t].at \in {"delay", "starting", "ending"}, up' \in BOOLEAN,
         NEW p \in {"starting", "ending"},
         \/ /\ task' = [task EXCEPT ![t].at = p] /\ flag' = flag
            /\ p = "starting" => task[t].at = "delay" /\ attempts' = attempts
         \/ /\ task' = [task EXCEPT ![t] = NoTask] /\ flag' = flag \ {c} /\ attempts' = attempts
            /\ task[t].at = "ending",
         \/ attempts' = attempts
         \/ attempts' = [attempts EXCEPT ![c] = 0] /\ task[t].at # "ending",
         \/ memo' = memo
         \/ memo' = [memo EXCEPT ![c] = "off"] /\ task[t].at = "starting" /\ attempts' = attempts
              /\ task[t].n >= MaxRetries /\ p = "ending",
         UNCHANGED <<uses, live, reach, born, dies, monitoring, cfg, early, cleared, maint, requests>>
  PROVE  RestartsInv'
<1>0. UNCHANGED <<uses, live, reach, born, dies, listed, sweep, seen, cfg, early, cleared, maint, requests>>
  BY DEF monitoring
<1>1. WorldTypes /\ RestartTypes /\ OnlyBornIsKnown /\ ListedIsSeen
      /\ AttemptsFit /\ TasksAreFlagged /\ TasksHaveStatus /\ GivenUp
  BY DEF RestartsInv
<1>2. c # Nil /\ c \in born /\ NoTask.id = Nil /\ NoTask.at = "free"
  BY TaskOf, ContainersConstants DEF Nil, NoTask
<1>3. /\ \A u \in Tasks \ {t} : task'[u] = task[u]
      /\ \/ task'[t].id = c /\ task'[t].at = p /\ task'[t].n = task[t].n /\ flag' = flag
            /\ (p = "starting" => task[t].at = "delay" /\ attempts' = attempts)
         \/ task'[t].id = Nil /\ task'[t].at = "free" /\ flag' = flag \ {c} /\ attempts' = attempts
            /\ task[t].at = "ending"
  BY <1>1, <1>2 DEF RestartTypes
<1>4. attempts'[c] \in {attempts[c], 0} /\ \A d \in Ids \ {c} : attempts'[d] = attempts[d] /\ memo'[d] = memo[d]
  BY <1>1 DEF RestartTypes
<1>5. AttemptsFit'
  <2>1. \A d \in Ids : NewTasks(d)' \subseteq NewTasks(d)
    BY <1>3 DEF NewTasks
  <2>2. \A d \in Ids : attempts'[d] = attempts[d] \/ attempts'[d] = 0
    BY <1>4
  <2> QED
    BY <1>1, <2>1, <2>2, AttemptsStep
<1>6. RestartTypes'
  <2>1. MostAttempts \in Nat
    BY NewTasksCount
  <2>2. attempts' \in [Ids -> 0..MostAttempts] /\ memo' \in [Ids -> AutoRestartConfig]
    BY <1>1, <2>1 DEF RestartTypes, AutoRestartConfig
  <2>3. NoTask \in [id : Ids \cup {Nil}, n : 0..MostAttempts, at : {"free", "new", "delay", "starting", "ending"}]
    BY <2>1 DEF NoTask
  <2>4. task' \in [Tasks -> [id : Ids \cup {Nil}, n : 0..MostAttempts,
                             at : {"free", "new", "delay", "starting", "ending"}]]
    BY <1>1, <2>3 DEF RestartTypes
  <2>5. flag' \subseteq Ids
    BY <1>1 DEF RestartTypes
  <2> QED
    BY <1>0, <1>1, <2>2, <2>4, <2>5 DEF RestartTypes, MostAttempts
<1>7. WorldTypes'
  BY TaskWorld
<1>8. OnlyBornIsKnown'
  BY <1>0, <1>1, <1>2, <1>3, <1>4 DEF OnlyBornIsKnown
<1>9. ListedIsSeen'
  <2>1. \A d \in Ids : memo'[d] # "none" => memo[d] # "none" \/ d = c
    BY <1>4
  <2>2. ASSUME live # Nil, live \notin seen, memo'[live] # "none"
        PROVE  cfg[live] # "none" \/ live \in early \cup cleared
    <3>1. live \in Ids
      BY <1>1, <2>2 DEF WorldTypes
    <3>2. live = c => live \in cleared \/ memo[live] # "none"
      BY <1>1 DEF TasksHaveStatus
    <3> QED
      BY <1>1, <2>1, <2>2, <3>1, <3>2 DEF ListedIsSeen
  <2> QED
    BY <1>0, <1>1, <2>2 DEF ListedIsSeen
<1>10. TasksAreFlagged'
  <2>1. \A u \in Tasks : task'[u].id = Nil <=> task'[u].at = "free"
    BY <1>1, <1>2, <1>3 DEF TasksAreFlagged
  <2>2. ASSUME NEW d \in Ids \ cleared, NEW u \in Tasks, task'[u].id = d
        PROVE  /\ d \in flag'
               /\ \A v \in Tasks : task'[v].id = d => v = u
               /\ task'[u].at \in {"delay", "starting"} => attempts'[d] = task'[u].n
    <3>1. d # Nil /\ \A v \in Tasks : task'[v].id = d => task[v].id = d
      BY <1>3, ContainersConstants DEF Nil
    <3>2. d \in flag /\ (\A v \in Tasks : task'[v].id = d => v = u)
            /\ (task[u].at \in {"delay", "starting"} => attempts[d] = task[u].n)
      BY <1>1, <2>2, <3>1 DEF TasksAreFlagged
    <3>3. CASE u = t
      BY <1>3, <2>2, <3>1, <3>2, <3>3
    <3>4. CASE u # t
      <4>1. d # c
        BY <1>1, <2>2, <3>1, <3>4 DEF TasksAreFlagged
      <4> QED
        BY <1>3, <1>4, <3>2, <3>4, <4>1
    <3> QED
      BY <3>3, <3>4
  <2> QED
    BY <1>0, <2>1, <2>2 DEF TasksAreFlagged
<1>11. GivenUp'
  <2> SUFFICES ASSUME NEW d \in Ids, d \notin early \cup cleared,
                      memo'[d] # "none", cfg[d] # "none", memo'[d] # cfg[d]
               PROVE  /\ memo'[d] = "off" /\ attempts'[d] >= MaxRetries
                      /\ \A u \in Tasks : task'[u].id = d => task'[u].at = "ending"
    BY <1>0 DEF GivenUp
  <2>0. \A u \in Tasks : task'[u].id = d => task[u].id = d
    BY <1>2, <1>3, ContainersConstants DEF Nil
  <2>1. CASE d # c
    BY <1>1, <1>3, <1>4, <2>0, <2>1 DEF GivenUp
  <2>2. CASE d = c /\ memo' = memo
    <3>1. memo[c] = "off" /\ attempts[c] >= MaxRetries /\ task[t].at = "ending"
          /\ \A u \in Tasks : task[u].id = c => task[u].at = "ending"
      BY <1>1, <2>2 DEF GivenUp
    <3>2. attempts' = attempts
      BY <3>1
    <3>3. task'[t].id = c => task'[t].at = "ending"
      BY <1>2, <1>3, <3>1
    <3> QED
      BY <1>3, <2>0, <2>2, <3>1, <3>2, <3>3
  <2>3. CASE d = c /\ memo' = [memo EXCEPT ![c] = "off"] /\ task[t].at = "starting" /\ attempts' = attempts
              /\ task[t].n >= MaxRetries /\ p = "ending"
    <3>1. attempts[c] = task[t].n /\ \A u \in Tasks : task[u].id = c => u = t
      BY <1>1, <2>3 DEF TasksAreFlagged
    <3>2. memo'[c] = "off"
      BY <1>1, <2>3 DEF RestartTypes
    <3> QED
      BY <1>3, <2>0, <2>3, <3>1, <3>2
  <2> QED
    BY <2>1, <2>2, <2>3
<1>12. TasksHaveStatus'
  <2> SUFFICES ASSUME NEW d \in Ids \ cleared, NEW u \in Tasks, task'[u].id = d
               PROVE  memo'[d] # "none"
    BY <1>0 DEF TasksHaveStatus
  <2>1. task[u].id = d
    BY <1>2, <1>3, ContainersConstants DEF Nil
  <2>2. memo[d] # "none"
    BY <1>1, <2>1 DEF TasksHaveStatus
  <2>3. memo'[d] = memo[d] \/ memo'[d] = "off"
    BY <1>1 DEF RestartTypes
  <2> QED
    BY <2>2, <2>3
<1> QED
  BY <1>5, <1>6, <1>7, <1>8, <1>9, <1>10, <1>11, <1>12 DEF RestartsInv

\* The steps of an auto-restart task.
LEMMA TaskStepStep ==
  ASSUME RestartsInv, NEW t \in Tasks, TaskStep(t)
  PROVE  RestartsInv'
<1>1. CASE TaskBegins(t)
  BY <1>1, TaskBeginsStep
<1>2. CASE TaskDelayed(t)
  <2>1. PICK c \in Ids : c = task[t].id
    BY <1>2, TaskOf DEF TaskDelayed, At
  <2>2. /\ task[t].at = "delay" /\ task' = [task EXCEPT ![t].at = "starting"]
        /\ UNCHANGED <<uses, live, up, reach, born, dies, monitoring, cfg, memo, attempts, flag,
                       early, cleared, maint, requests>>
    BY <1>2 DEF TaskDelayed, At, Go, world
  <2>3. up' \in BOOLEAN
    BY <2>2 DEF RestartsInv, WorldTypes
  <2> QED
    BY <2>1, <2>2, <2>3, TaskGoesOn
<1>3. CASE StartSucceeds(t)
  <2>1. PICK c \in Ids : c = task[t].id
    BY <1>3, TaskOf DEF StartSucceeds, At
  <2>2. /\ task[t].at = "starting" /\ task' = [task EXCEPT ![t].at = "ending"]
        /\ attempts' = [attempts EXCEPT ![c] = 0] /\ up' = TRUE
        /\ UNCHANGED <<uses, live, reach, born, dies, monitoring, cfg, memo, flag, early, cleared, maint, requests>>
    BY <1>3, <2>1 DEF StartSucceeds, Started, At, Go
  <2> QED
    BY <2>1, <2>2, TaskGoesOn
<1>4. CASE StartFails(t)
  <2>1. PICK c \in Ids : c = task[t].id
    BY <1>4, TaskOf DEF StartFails, At
  <2>2. /\ task[t].at = "starting" /\ task' = [task EXCEPT ![t].at = "ending"]
        /\ \/ memo' = memo
           \/ memo' = [memo EXCEPT ![c] = "off"] /\ task[t].n >= MaxRetries
        /\ UNCHANGED <<uses, live, reach, born, dies, monitoring, cfg, attempts, flag, early, cleared, maint, requests>>
    BY <1>4, <2>1 DEF StartFails, Started, At, Go
  <2>3. up' \in BOOLEAN
    BY <1>4 DEF StartFails, Started, RestartsInv, WorldTypes
  <2> QED
    BY <2>1, <2>2, <2>3, TaskGoesOn
<1>5. CASE TaskEnds(t)
  <2>1. PICK c \in Ids : c = task[t].id
    BY <1>5, TaskOf DEF TaskEnds, At
  <2>2. /\ task[t].at = "ending" /\ task' = [task EXCEPT ![t] = NoTask] /\ flag' = flag \ {c}
        /\ UNCHANGED <<uses, live, up, reach, born, dies, monitoring, cfg, memo, attempts,
                       early, cleared, maint, requests>>
    BY <1>5, <2>1 DEF TaskEnds, At, world
  <2>3. up' \in BOOLEAN
    BY <2>2 DEF RestartsInv, WorldTypes
  <2> QED
    BY <2>1, <2>2, <2>3, TaskGoesOn
<1> QED
  BY <1>1, <1>2, <1>3, <1>4, <1>5 DEF TaskStep

\* The container is recreated under an id that nothing knows yet.
LEMMA RecreateStep ==
  ASSUME RestartsInv, NEW c \in Ids, Recreate(c)
  PROVE  RestartsInv'
<1>1. WorldTypes /\ RestartTypes /\ OnlyBornIsKnown /\ ListedIsSeen
      /\ AttemptsFit /\ TasksAreFlagged /\ TasksHaveStatus /\ GivenUp
  BY DEF RestartsInv
<1>2. /\ c \notin born /\ born' = born \cup {c} /\ live' = c /\ up' = TRUE
      /\ requests < MaxRequests[uses] /\ requests' = requests + 1
      /\ UNCHANGED <<uses, reach, dies, listed, sweep, seen, cfg, memo, attempts, flag, task, early, cleared, maint>>
  BY DEF Recreate, Request, monitoring, restarts
<1>3. c # Nil
  BY ContainersConstants DEF Nil
<1>4. WorldTypes'
  BY <1>1, <1>2, ContainersConstants DEF WorldTypes
<1>5. OnlyBornIsKnown'
  BY <1>1, <1>2 DEF OnlyBornIsKnown
<1>6. ListedIsSeen'
  <2>1. listed.id # c /\ maint.id # c /\ memo[c] = "none"
    BY <1>1, <1>2, <1>3 DEF OnlyBornIsKnown
  <2> QED
    BY <1>2, <2>1 DEF ListedIsSeen
<1>7. RestartTypes' /\ AttemptsFit' /\ TasksAreFlagged' /\ TasksHaveStatus' /\ GivenUp'
  BY <1>1, <1>2 DEF RestartTypes, AttemptsFit, NewTasks, TasksAreFlagged, TasksHaveStatus, GivenUp
<1> QED
  BY <1>4, <1>5, <1>6, <1>7 DEF RestartsInv

\* A setting that goes leaves the tasks, and the cached status, as they are.
LEMMA SettingsGo ==
  ASSUME RestartsInv, cfg' \in [Ids -> AutoRestartConfig],
         \A c \in Ids : cfg'[c] = cfg[c] \/ cfg'[c] = "none",
         cleared \subseteq cleared', cleared' \subseteq Ids,
         UNCHANGED <<memo, attempts, flag, task, early>>
  PROVE  RestartTypes' /\ AttemptsFit' /\ TasksAreFlagged' /\ TasksHaveStatus' /\ GivenUp'
<1>1. RestartTypes /\ AttemptsFit /\ TasksAreFlagged /\ TasksHaveStatus /\ GivenUp
  BY DEF RestartsInv
<1>2. RestartTypes'
  BY <1>1 DEF RestartTypes
<1>3. AttemptsFit'
  BY <1>1 DEF AttemptsFit, NewTasks
<1>4. TasksAreFlagged' /\ TasksHaveStatus'
  BY <1>1 DEF TasksAreFlagged, TasksHaveStatus
<1>5. GivenUp'
  BY <1>1 DEF GivenUp
<1> QED
  BY <1>2, <1>3, <1>4, <1>5

\* A container is deleted, by the backend or by an agent.
LEMMA DeleteStep ==
  ASSUME RestartsInv, UserDeletes \/ \E answered \in BOOLEAN : DeleteByAgent(answered)
  PROVE  RestartsInv'
<1>1. WorldTypes /\ RestartTypes /\ OnlyBornIsKnown /\ ListedIsSeen
  BY DEF RestartsInv
<1>2. /\ live # Nil /\ live' = Nil /\ up' = FALSE
      /\ cfg' = cfg \/ cfg' = [cfg EXCEPT ![live] = "none"]
      /\ requests < MaxRequests[uses] /\ requests' = requests + 1
      /\ UNCHANGED <<uses, reach, born, dies, listed, sweep, seen, memo, attempts, flag, task, early, cleared, maint>>
  BY DEF UserDeletes, DeleteByAgent, RemovedByAgent, Request, monitoring
<1>3. cfg' \in [Ids -> AutoRestartConfig] /\ \A c \in Ids : cfg'[c] = cfg[c] \/ cfg'[c] = "none"
  BY <1>1, <1>2 DEF RestartTypes, AutoRestartConfig
<1>4. cleared \subseteq cleared' /\ cleared' \subseteq Ids
  BY <1>1, <1>2 DEF RestartTypes
<1>5. RestartTypes' /\ AttemptsFit' /\ TasksAreFlagged' /\ TasksHaveStatus' /\ GivenUp'
  BY <1>2, <1>3, <1>4, SettingsGo
<1>6. WorldTypes'
  <2>1. requests' \in 0..MaxRequests[uses']
    BY <1>1, <1>2, ContainersConstants DEF WorldTypes
  <2> QED
    BY <1>1, <1>2, <2>1 DEF WorldTypes
<1>7. OnlyBornIsKnown' /\ ListedIsSeen'
  BY <1>1, <1>2 DEF OnlyBornIsKnown, ListedIsSeen
<1> QED
  BY <1>5, <1>6, <1>7 DEF RestartsInv

\* The daily clean-up of the rows.
LEMMA MaintRecordsStep ==
  ASSUME RestartsInv, MaintRecords
  PROVE  RestartsInv'
<1>1. WorldTypes /\ RestartTypes /\ OnlyBornIsKnown /\ ListedIsSeen
  BY DEF RestartsInv
<1>2. /\ cfg' = [c \in Ids |-> IF c \in StaleRows THEN "none" ELSE cfg[c]]
      /\ cleared' = IF live \in StaleRows THEN cleared \cup {live} ELSE cleared
      /\ maint' = [at |-> "idle", id |-> Nil]
      /\ UNCHANGED <<uses, live, up, reach, born, dies, listed, sweep, seen, memo, attempts, flag, task,
                     early, requests>>
  BY DEF MaintRecords, world, monitoring
<1>3. cfg' \in [Ids -> AutoRestartConfig] /\ \A c \in Ids : cfg'[c] = cfg[c] \/ cfg'[c] = "none"
  BY <1>1, <1>2 DEF RestartTypes, AutoRestartConfig
<1>4. cleared \subseteq cleared' /\ cleared' \subseteq Ids
  BY <1>1, <1>2 DEF RestartTypes, StaleRows
<1>5. RestartTypes' /\ AttemptsFit' /\ TasksAreFlagged' /\ TasksHaveStatus' /\ GivenUp'
  BY <1>2, <1>3, <1>4, SettingsGo
<1>6. WorldTypes'
  BY <1>1, <1>2 DEF WorldTypes
<1>7. OnlyBornIsKnown'
  BY <1>1, <1>2 DEF OnlyBornIsKnown
<1>8. ListedIsSeen'
  BY <1>1, <1>2 DEF ListedIsSeen, WorldTypes
<1> QED
  BY <1>5, <1>6, <1>7, <1>8 DEF RestartsInv

\* A restart of the backend.
LEMMA BackendRestartStep ==
  ASSUME RestartsInv, Restart
  PROVE  RestartsInv'
<1>1. WorldTypes /\ RestartTypes /\ OnlyBornIsKnown
  BY DEF RestartsInv
<1>2. /\ dies' = {} /\ listed' = NoList /\ sweep' = "idle" /\ seen' = {}
      /\ memo' = [c \in Ids |-> "none"] /\ attempts' = [c \in Ids |-> 0] /\ flag' = {}
      /\ task' = [t \in Tasks |-> NoTask] /\ early' = {} /\ cleared' = {}
      /\ maint' = [at |-> "idle", id |-> Nil]
      /\ requests < MaxRequests[uses] /\ requests' = requests + 1
      /\ UNCHANGED <<uses, live, up, reach, born, cfg>>
  BY DEF Restart, Request
<1>3. cfg' \in [Ids -> AutoRestartConfig]
  BY <1>1, <1>2 DEF RestartTypes
<1>4. RestartTypes' /\ AttemptsFit' /\ TasksAreFlagged' /\ TasksHaveStatus' /\ GivenUp'
  <2>1. MostAttempts \in Nat
    BY NewTasksCount
  <2>2. NoTask.id = Nil /\ NoTask.at = "free"
          /\ NoTask \in [id : Ids \cup {Nil}, n : 0..MostAttempts, at : {"free", "new", "delay", "starting", "ending"}]
    BY <2>1 DEF NoTask
  <2>3. RestartTypes'
    BY <1>2, <1>3, <2>1, <2>2 DEF RestartTypes, AutoRestartConfig, MostAttempts
  <2>4. AttemptsFit'
    <3>1. \A c \in Ids : NewTasks(c)' = {}
      BY <1>2, <2>2 DEF NewTasks
    <3>2. Cardinality({}) = 0
      BY FS_EmptySet
    <3>3. \A c \in Ids : attempts'[c] + Cardinality(NewTasks(c)') <= MostAttempts
      BY <1>2, <2>1, <3>1, <3>2
    <3> QED
      BY <3>3 DEF AttemptsFit, MostAttempts
  <2>5. TasksAreFlagged' /\ TasksHaveStatus'
    BY <1>2, <2>2, ContainersConstants DEF TasksAreFlagged, TasksHaveStatus, Nil
  <2>6. GivenUp'
    BY <1>2 DEF GivenUp
  <2> QED
    BY <2>3, <2>4, <2>5, <2>6
<1>5. NoList \in [id : Ids \cup {Nil}, up : BOOLEAN] /\ NoList.id = Nil /\ NoTask.id = Nil
  BY DEF NoList, NoTask
<1>6. WorldTypes'
  BY <1>1, <1>2, <1>5, ContainersConstants DEF WorldTypes
<1>7. OnlyBornIsKnown'
  BY <1>1, <1>2, <1>5 DEF OnlyBornIsKnown
<1>8. ListedIsSeen'
  BY <1>1, <1>2, <1>5 DEF ListedIsSeen, WorldTypes
<1> QED
  BY <1>4, <1>6, <1>7, <1>8 DEF RestartsInv

\* Nothing that is kept in memory.
LEMMA NothingInMemory ==
  ASSUME memo = [c \in Ids |-> "none"], attempts = [c \in Ids |-> 0], flag = {}, early = {}, cleared = {},
         task = [t \in Tasks |-> NoTask], cfg \in [Ids -> AutoRestartConfig]
  PROVE  RestartTypes /\ AttemptsFit /\ TasksAreFlagged /\ TasksHaveStatus /\ GivenUp
<1>1. MostAttempts \in Nat
  BY NewTasksCount
<1>2. NoTask.id = Nil /\ NoTask.at = "free"
        /\ NoTask \in [id : Ids \cup {Nil}, n : 0..MostAttempts, at : {"free", "new", "delay", "starting", "ending"}]
  BY <1>1 DEF NoTask
<1>3. RestartTypes
  BY <1>1, <1>2 DEF RestartTypes, AutoRestartConfig
<1>4. AttemptsFit
  <2>1. \A c \in Ids : NewTasks(c) = {}
    BY <1>2 DEF NewTasks
  <2>2. Cardinality({}) = 0
    BY FS_EmptySet
  <2> QED
    BY <1>1, <2>1, <2>2 DEF AttemptsFit
<1>5. TasksAreFlagged /\ TasksHaveStatus
  BY <1>2, ContainersConstants DEF TasksAreFlagged, TasksHaveStatus, Nil
<1>6. GivenUp
  BY DEF GivenUp
<1> QED
  BY <1>3, <1>4, <1>5, <1>6

\* The first container runs, and nothing is known of it.
LEMMA InitContainersInv == ContainersInit => ContainersInv
<1> SUFFICES ASSUME ContainersInit PROVE ContainersInv
  OBVIOUS
<1>1. First \in Ids /\ First # Nil
  BY ContainersConstants DEF First, Nil
<1>2. RestartsInv
  <2>1. cfg \in [Ids -> AutoRestartConfig]
    BY DEF ContainersInit, AutoRestartConfig
  <2>2. RestartTypes /\ AttemptsFit /\ TasksAreFlagged /\ TasksHaveStatus /\ GivenUp
    BY <2>1, NothingInMemory DEF ContainersInit
  <2>3. NoList \in [id : Ids \cup {Nil}, up : BOOLEAN] /\ NoList.id = Nil /\ NoTask.id = Nil
    BY DEF NoList, NoTask
  <2>4. WorldTypes
    BY <1>1, <2>3, ContainersConstants DEF ContainersInit, WorldTypes
  <2>5. OnlyBornIsKnown /\ ListedIsSeen
    BY <1>1, <2>3 DEF ContainersInit, OnlyBornIsKnown, ListedIsSeen
  <2> QED
    BY <2>2, <2>4, <2>5 DEF RestartsInv
<1>3. HealthInv
  BY NoCheckIsRow, ContainersConstants DEF ContainersInit, HealthInv
<1>4. JobInv
  <2>1. Cardinality(Items) \in Nat /\ Cardinality({}) = 0
    BY ContainersConstants, FS_CardinalityType, FS_EmptySet
  <2>2. job = [status |-> Nil, item |-> [i \in Items |-> Nil], done |-> 0, ok |-> 0, bad |-> 0,
               act |-> "other", orphan |-> FALSE]
    BY DEF ContainersInit, NoJob
  <2>3. JobTypes
    BY <2>1, <2>2 DEF JobTypes, Acts
  <2>4. {i \in Items : job.item[i] \in Finals} = {} /\ {i \in Items : job.item[i] = "success"} = {}
          /\ {i \in Items : job.item[i] = "error"} = {}
    BY <2>2 DEF Finals, Nil
  <2>5. CountersMatchItems
    BY <2>1, <2>2, <2>4 DEF CountersMatchItems
  <2>6. VerdictIsTrue
    BY <2>2 DEF VerdictIsTrue, Settled, Nil
  <2> QED
    BY <2>3, <2>5, <2>6 DEF JobInv
<1> QED
  BY <1>2, <1>3, <1>4 DEF ContainersInv

\* A step that leaves the checks alone keeps what is said of them.
LEMMA HealthKept == ASSUME HealthInv, UNCHANGED health PROVE HealthInv'
BY DEF HealthInv, health

\* A step that leaves the job alone keeps what is said of it.
LEMMA JobKept == ASSUME JobInv, UNCHANGED job PROVE JobInv'
BY DEF JobInv, JobTypes, CountersMatchItems, VerdictIsTrue, Running

\* Whatever operates on the container may stop or start it: a "die" event is
\* its own, and there is none if there is no container.
LEMMA EffectsMove ==
  ASSUME RestartsInv,
         \/ live # Nil /\ Stopped
         \/ live # Nil /\ Restarted
         \/ Started
         \/ UNCHANGED <<up, dies>>
  PROVE  up' \in BOOLEAN /\ dies' \subseteq dies \cup ({live} \ {Nil})
BY DEF Stopped, Started, Restarted, RestartsInv, WorldTypes

\* Everything that leaves settings and tasks alone.
LEMMA OutsideStep ==
  ASSUME RestartsInv,
         \/ ContainerDies \/ HostChanges \/ \E c \in Ids : LoseEvent(c)
         \/ UserStops \/ UserKills \/ UserStarts \/ UserRestarts
         \/ StopByAgent \/ KillByAgent \/ StartByAgent \/ RestartByAgent
  PROVE  RestartsInv'
<1>1. reach \in BOOLEAN /\ up \in BOOLEAN
  BY DEF RestartsInv, WorldTypes
<1>2. CASE ContainerDies
  <2>1. up' \in BOOLEAN /\ dies' \subseteq dies \cup ({live} \ {Nil})
    BY <1>2, EffectsMove DEF ContainerDies
  <2> QED
    BY <1>1, <1>2, <2>1, ContainerMoves DEF ContainerDies
<1>3. CASE HostChanges
  <2>1. reach' \in BOOLEAN
    BY <1>1, <1>3 DEF HostChanges
  <2> QED
    BY <1>1, <1>3, <2>1, ContainerMoves DEF HostChanges, Request
<1>4. CASE \E c \in Ids : LoseEvent(c)
  BY <1>1, <1>4, ContainerMoves DEF LoseEvent
<1>5. CASE \/ UserStops \/ UserKills \/ UserStarts \/ UserRestarts
           \/ StopByAgent \/ KillByAgent \/ StartByAgent \/ RestartByAgent
  <2>1. \/ live # Nil /\ Stopped
        \/ live # Nil /\ Restarted
        \/ Started
        \/ UNCHANGED <<up, dies>>
    BY <1>5 DEF UserStops, UserKills, UserStarts, UserRestarts, StopByAgent, KillByAgent, StartByAgent,
                RestartByAgent, Operates, AnsweredOrNot
  <2>2. /\ requests < MaxRequests[uses] /\ requests' = requests + 1
        /\ UNCHANGED <<uses, live, reach, born, monitoring, restarts, maint>>
    BY <1>5 DEF UserStops, UserKills, UserStarts, UserRestarts, StopByAgent, KillByAgent, StartByAgent,
                RestartByAgent, Operates, Request
  <2>3. up' \in BOOLEAN /\ dies' \subseteq dies \cup ({live} \ {Nil})
    BY <2>1, EffectsMove
  <2> QED
    BY <1>1, <2>2, <2>3, ContainerMoves
<1> QED
  BY <1>2, <1>3, <1>4, <1>5

\* Steps of health checks: the most they do outside their own state is to
\* start the container.
LEMMA ChecksAct ==
  ASSUME NEW c \in Ids,
         \/ \E from \in {"backend", "agent"}, on \in BOOLEAN : SaveCheck(c, from, on)
         \/ DeleteCheck(c) \/ Reload(c) \/ LoopLoads(c) \/ LoopRetries(c) \/ RetryDelayPasses(c)
         \/ \E good \in BOOLEAN : LoopResult(c, good) \/ TestCheck(c, good) \/ AgentResult(c, good)
  PROVE  /\ UNCHANGED <<uses, live, reach, born, monitoring, restarts, job, maint>>
         /\ \/ requests' = requests
            \/ requests < MaxRequests[uses] /\ requests' = requests + 1
         /\ Started \/ UNCHANGED <<up, dies>>
<1>1. CASE \E from \in {"backend", "agent"}, on \in BOOLEAN : SaveCheck(c, from, on)
  BY <1>1 DEF SaveCheck, Request, world
<1>2. CASE DeleteCheck(c)
  BY <1>2 DEF DeleteCheck, Request, world
<1>3. CASE Reload(c)
  BY <1>3 DEF Reload, world
<1>4. CASE LoopLoads(c) \/ RetryDelayPasses(c)
  BY <1>4 DEF LoopLoads, RetryDelayPasses, world
<1>5. CASE LoopRetries(c)
  <2>1. UNCHANGED <<uses, live, reach, born, monitoring, restarts, job, maint, requests>>
    BY <1>5 DEF LoopRetries
  <2>2. TryRestart(c, episode[c]) \/ UNCHANGED <<up, dies>>
    BY <1>5 DEF LoopRetries
  <2>3. Started \/ UNCHANGED <<up, dies>>
    BY <2>2 DEF TryRestart
  <2> QED
    BY <2>1, <2>3
<1>6. CASE \E good \in BOOLEAN : LoopResult(c, good)
  <2>1. UNCHANGED <<uses, live, reach, born, monitoring, restarts, job, maint, requests>>
    BY <1>6 DEF LoopResult
  <2>2. (\E n : TryRestart(c, n)) \/ UNCHANGED <<up, dies>>
    BY <1>6 DEF LoopResult
  <2>3. Started \/ UNCHANGED <<up, dies>>
    BY <2>2 DEF TryRestart
  <2> QED
    BY <2>1, <2>3
<1>7. CASE \E good \in BOOLEAN : TestCheck(c, good) \/ AgentResult(c, good)
  BY <1>7 DEF TestCheck, AgentResult, ResultElsewhere, Request, world
<1> QED
  BY <1>1, <1>2, <1>3, <1>4, <1>5, <1>6, <1>7

\* Steps of batch jobs: outside their own state they start or stop the
\* container.
LEMMA JobActs ==
  ASSUME JobStep \/ \E found \in SUBSET Items, act \in Acts : CreateJob(found, act)
  PROVE  /\ UNCHANGED <<uses, live, reach, born, monitoring, restarts, health, maint>>
         /\ \/ requests' = requests
            \/ requests < MaxRequests[uses] /\ requests' = requests + 1
         /\ \/ live # Nil /\ Stopped
            \/ Started
            \/ UNCHANGED <<up, dies>>
<1>1. CASE \E found \in SUBSET Items, act \in Acts : CreateJob(found, act)
  BY <1>1 DEF CreateJob, Request, world
<1>2. CASE JobStarts \/ JobEnds \/ \E i \in Items : ItemStarts(i)
  BY <1>2 DEF JobStarts, JobEnds, ItemStarts, world
<1>3. CASE \E i \in Items : \E r \in Finals : ItemEnds(i, r)
  BY <1>3 DEF ItemEnds, ExecuteAction, Performed, AnsweredOrNot
<1> QED
  BY <1>1, <1>2, <1>3 DEF JobStep

\* Steps of health checks, of batch jobs, and stuttering, leave settings and
\* tasks alone.
LEMMA ElsewhereStep ==
  ASSUME RestartsInv,
         \/ \E c \in Ids :
              \/ \E from \in {"backend", "agent"}, on \in BOOLEAN : SaveCheck(c, from, on)
              \/ DeleteCheck(c) \/ Reload(c) \/ LoopLoads(c) \/ LoopRetries(c) \/ RetryDelayPasses(c)
              \/ \E good \in BOOLEAN : LoopResult(c, good) \/ TestCheck(c, good) \/ AgentResult(c, good)
         \/ \E found \in SUBSET Items, act \in Acts : CreateJob(found, act)
         \/ JobStep
         \/ UNCHANGED containerVars
  PROVE  RestartsInv'
<1>1. /\ UNCHANGED <<uses, live, reach, born, monitoring, restarts, maint>>
      /\ \/ requests' = requests
         \/ requests < MaxRequests[uses] /\ requests' = requests + 1
      /\ \/ live # Nil /\ Stopped
         \/ Started
         \/ UNCHANGED <<up, dies>>
  <2>1. CASE UNCHANGED containerVars
    BY <2>1 DEF containerVars, world
  <2> QED
    BY <2>1, ChecksAct, JobActs
<1>2. up' \in BOOLEAN /\ dies' \subseteq dies \cup ({live} \ {Nil})
  BY <1>1, EffectsMove
<1>3. reach' \in BOOLEAN
  BY <1>1 DEF RestartsInv, WorldTypes
<1> QED
  BY <1>1, <1>2, <1>3, ContainerMoves

\* Every step keeps what the restarts rely on.
LEMMA NextRestartsInv ==
  ASSUME RestartsInv, [ContainersNext]_containerVars
  PROVE  RestartsInv'
<1>1. CASE \/ ContainerDies \/ HostChanges \/ \E c \in Ids : LoseEvent(c)
           \/ UserStops \/ UserKills \/ UserStarts \/ UserRestarts
           \/ StopByAgent \/ KillByAgent \/ StartByAgent \/ RestartByAgent
  BY <1>1, OutsideStep
<1>2. CASE \/ \E c \in Ids :
                \/ \E from \in {"backend", "agent"}, on \in BOOLEAN : SaveCheck(c, from, on)
                \/ DeleteCheck(c) \/ Reload(c) \/ LoopLoads(c) \/ LoopRetries(c) \/ RetryDelayPasses(c)
                \/ \E good \in BOOLEAN : LoopResult(c, good) \/ TestCheck(c, good) \/ AgentResult(c, good)
           \/ \E found \in SUBSET Items, act \in Acts : CreateJob(found, act)
           \/ JobStep
           \/ UNCHANGED containerVars
  BY <1>2, ElsewhereStep
<1>3. CASE UserDeletes \/ \E answered \in BOOLEAN : DeleteByAgent(answered)
  BY <1>3, DeleteStep
<1>4. CASE SweepLists
  BY <1>4, SweepListsStep
<1>5. CASE SweepActs
  BY <1>5, SweepActsStep
<1>6. CASE \E c \in Ids : Recreate(c)
  BY <1>6, RecreateStep
<1>7. CASE \E c \in Ids : HandleDie(c)
  BY <1>7, HandleDieStep
<1>8. CASE \E c \in Ids : \E s \in {"on", "off"} : ToggleAutoRestart(c, s)
  BY <1>8, ToggleStep
<1>9. CASE \E t \in Tasks : TaskStep(t)
  BY <1>9, TaskStepStep
<1>10. CASE \E phase \in {"memory", "records"} : MaintLists(phase)
  BY <1>10, MaintListsStep
<1>11. CASE MaintMemory
  BY <1>11, MaintMemoryStep
<1>12. CASE MaintRecords
  BY <1>12, MaintRecordsStep
<1>13. CASE Restart
  BY <1>13, BackendRestartStep
<1> QED
  BY <1>1, <1>2, <1>3, <1>4, <1>5, <1>6, <1>7, <1>8, <1>9, <1>10, <1>11, <1>12, <1>13 DEF ContainersNext

\* Every step keeps what bounds the restarts by health checks.
LEMMA NextHealthInv ==
  ASSUME HealthInv, WorldTypes, [ContainersNext]_containerVars
  PROVE  HealthInv'
<1>0. live \in Ids \cup {Nil}
  BY DEF WorldTypes
<1>1. CASE \E c \in Ids : \E from \in {"backend", "agent"}, on \in BOOLEAN : SaveCheck(c, from, on)
  BY <1>1, SaveCheckStep
<1>2. CASE \E c \in Ids : DeleteCheck(c)
  BY <1>2, DeleteCheckStep
<1>3. CASE \E c \in Ids : Reload(c) \/ LoopLoads(c) \/ RetryDelayPasses(c)
  BY <1>3, LoopsAreKept
<1>4. CASE \E c \in Ids : LoopRetries(c)
  BY <1>4, LoopRetriesStep
<1>5. CASE \E c \in Ids : \E good \in BOOLEAN : LoopResult(c, good)
  BY <1>5, LoopResultStep
<1>6. CASE \E c \in Ids : \E good \in BOOLEAN : TestCheck(c, good) \/ AgentResult(c, good)
  BY <1>6, ResultElsewhereStep DEF TestCheck, AgentResult
<1>7. CASE UserDeletes \/ (\E answered \in BOOLEAN : DeleteByAgent(answered)) \/ MaintRecords
  BY <1>7, RowsGoStep
<1>8. CASE SweepLists \/ \E phase \in {"memory", "records"} : MaintLists(phase)
  <2>1. Discover /\ UNCHANGED <<loop, episode, waited, spent>>
    BY <1>8 DEF SweepLists, MaintLists
  <2> QED
    BY <1>0, <2>1, DiscoverKeepsHealth
<1>9. CASE Restart
  BY <1>9, HealthRestartStep
<1>10. CASE JobStep \/ \E found \in SUBSET Items, act \in Acts : CreateJob(found, act)
  BY <1>10, JobActs, HealthKept
<1>11. CASE \/ ContainerDies \/ HostChanges \/ \E c \in Ids : LoseEvent(c) \/ Recreate(c) \/ HandleDie(c)
            \/ \E c \in Ids : \E s \in {"on", "off"} : ToggleAutoRestart(c, s)
            \/ UserStops \/ UserKills \/ UserStarts \/ UserRestarts
            \/ StopByAgent \/ KillByAgent \/ StartByAgent \/ RestartByAgent
            \/ SweepActs \/ MaintMemory \/ \E t \in Tasks : TaskStep(t)
            \/ UNCHANGED containerVars
  <2>1. UNCHANGED health
    BY <1>11 DEF ContainerDies, HostChanges, LoseEvent, Recreate, HandleDie, ToggleAutoRestart, UserStops, UserKills,
         UserStarts, UserRestarts, StopByAgent, KillByAgent, StartByAgent, RestartByAgent, Operates, SweepActs,
         MaintMemory, TaskStep, TaskBegins, TaskDelayed, StartSucceeds, StartFails, TaskEnds, containerVars
  <2> QED
    BY <2>1, HealthKept
<1> QED
  BY <1>1, <1>2, <1>3, <1>4, <1>5, <1>6, <1>7, <1>8, <1>9, <1>10, <1>11 DEF ContainersNext

\* Every step keeps what the verdict on a job relies on.
LEMMA NextJobInv ==
  ASSUME JobInv, [ContainersNext]_containerVars
  PROVE  JobInv'
<1>1. CASE \E found \in SUBSET Items, act \in Acts : CreateJob(found, act)
  BY <1>1, CreateJobStep
<1>2. CASE JobStep
  BY <1>2, JobStartsStep, JobEndsStep, ItemStartsStep, ItemEndsStep DEF JobStep
<1>3. CASE Restart
  BY <1>3, JobOrphanedStep
<1>4. CASE \E c \in Ids :
              \/ \E from \in {"backend", "agent"}, on \in BOOLEAN : SaveCheck(c, from, on)
              \/ DeleteCheck(c) \/ Reload(c) \/ LoopLoads(c) \/ LoopRetries(c) \/ RetryDelayPasses(c)
              \/ \E good \in BOOLEAN : LoopResult(c, good) \/ TestCheck(c, good) \/ AgentResult(c, good)
  BY <1>4, ChecksAct, JobKept
<1>5. CASE \/ ContainerDies \/ HostChanges \/ \E c \in Ids : LoseEvent(c) \/ Recreate(c) \/ HandleDie(c)
           \/ \E c \in Ids : \E s \in {"on", "off"} : ToggleAutoRestart(c, s)
           \/ UserStops \/ UserKills \/ UserStarts \/ UserRestarts \/ UserDeletes
           \/ StopByAgent \/ KillByAgent \/ StartByAgent \/ RestartByAgent
           \/ \E answered \in BOOLEAN : DeleteByAgent(answered)
  <2>1. UNCHANGED job
    BY <1>5 DEF ContainerDies, HostChanges, LoseEvent, Recreate, HandleDie, ToggleAutoRestart, UserStops, UserKills,
         UserStarts, UserRestarts, UserDeletes, StopByAgent, KillByAgent, StartByAgent, RestartByAgent, Operates,
         DeleteByAgent
  <2> QED
    BY <2>1, JobKept
<1>6. CASE \/ SweepLists \/ SweepActs \/ \E t \in Tasks : TaskStep(t)
           \/ \E phase \in {"memory", "records"} : MaintLists(phase)
           \/ MaintMemory \/ MaintRecords \/ UNCHANGED containerVars
  <2>1. UNCHANGED job
    BY <1>6 DEF SweepLists, SweepActs, TaskStep, TaskBegins, TaskDelayed, StartSucceeds, StartFails, TaskEnds,
         MaintLists, MaintMemory, MaintRecords, containerVars
  <2> QED
    BY <2>1, JobKept
<1> QED
  BY <1>1, <1>2, <1>3, <1>4, <1>5, <1>6 DEF ContainersNext

\* The inductive invariant of the container, its settings and its jobs.
THEOREM ContainersInvariant == ContainersSpec => []ContainersInv
<1>1. ContainersInit => ContainersInv
  BY InitContainersInv
<1>2. ContainersInv /\ [ContainersNext]_containerVars => ContainersInv'
  BY NextRestartsInv, NextHealthInv, NextJobInv DEF ContainersInv, RestartsInv
<1> QED
  BY <1>1, <1>2, PTL DEF ContainersSpec

\* Whatever its parts say, the invariant gives the type invariant.
LEMMA ContainersInvTypes == ContainersInv => ContainersTypeOK
<1> SUFFICES ASSUME ContainersInv PROVE ContainersTypeOK
  OBVIOUS
<1>1. WorldTypes /\ RestartTypes /\ HealthInv /\ JobTypes
  BY DEF ContainersInv, RestartsInv, JobInv
<1>2. spent \in [Ids -> 0..(2 * MaxRestarts)]
  BY <1>1, ContainersConstants DEF HealthInv
<1> QED
  BY <1>1, <1>2 DEF ContainersTypeOK, WorldTypes, RestartTypes, HealthInv, JobTypes, MostAttempts

\* One auto-restart task at a time, on the user's setting, and no more
\* restarts than the limits allow: for any number of ids and tasks, whatever
\* the order of events, lists, requests, clean-ups and restarts.
THEOREM RestartsAreBoundedHolds == ContainersSpec => []RestartsAreBounded
<1>1. ContainersInv => RestartsAreBounded
  <2> SUFFICES ASSUME ContainersInv PROVE RestartsAreBounded
    OBVIOUS
  <2>1. OneRestartTask
    <3> SUFFICES ASSUME NEW c \in Ids \ cleared
                 PROVE  Cardinality({t \in Tasks : task[t].id = c}) <= 1
      BY DEF OneRestartTask
    <3> DEFINE S == {t \in Tasks : task[t].id = c}
    <3>1. \A t \in S, u \in S : t = u
      BY DEF ContainersInv, RestartsInv, TasksAreFlagged
    <3>2. CASE S = {}
      <4>1. Cardinality({}) = 0
        BY FS_EmptySet
      <4>2. Cardinality(S) = 0
        BY <3>2, <4>1, Zenon
      <4> QED
        BY <4>2
    <3>3. CASE S # {}
      <4>1. PICK t \in S : TRUE
        BY <3>3
      <4>2. S = {t}
        BY <3>1, <4>1
      <4>3. Cardinality({t}) = 1
        BY FS_Singleton
      <4> QED
        BY <4>2, <4>3
    <3> QED
      BY <3>2, <3>3
  <2>2. StatusFollowsSetting
    BY DEF ContainersInv, RestartsInv, GivenUp, StatusFollowsSetting
  <2>3. EpisodeIsLimited
    BY ContainersConstants DEF ContainersInv, HealthInv, EpisodeIsLimited
  <2> QED
    BY <2>1, <2>2, <2>3, ContainersInvTypes DEF RestartsAreBounded
<1> QED
  BY <1>1, ContainersInvariant, PTL

\* The counters and the verdict of a batch job agree with its items, for any
\* number of items, also when the backend restarts in the middle.
THEOREM JobIsToldTrulyHolds == ContainersSpec => []JobIsToldTruly
<1>1. ContainersInv => JobIsToldTruly
  BY DEF ContainersInv, JobInv, JobIsToldTruly
<1> QED
  BY <1>1, ContainersInvariant, PTL

(***************************************************************************)
(* The settings that apply to the container.                               *)
(***************************************************************************)
\* A step that leaves the rows leaves what applies to the container.
LEMMA SameRows ==
  ASSUME UNCHANGED <<live, seen, cfg, check>>
  PROVE  InForce' = InForce
<1>1. PICK c : c = live
  OBVIOUS
<1>2. Others(c)' = Others(c) /\ OtherChecks(c)' = OtherChecks(c)
  BY DEF Others, OtherChecks
<1>3. ReattachedCfg(c)' = ReattachedCfg(c) /\ ReattachedCheck(c)' = ReattachedCheck(c)
  BY <1>2 DEF ReattachedCfg, ReattachedCheck
<1> QED
  BY <1>1, <1>3 DEF InForce

\* The result of a check leaves where the check runs from and whether it is
\* on, and the row of a check never looks like no row: a counter is positive.
LEMMA CountedKeepsTerms ==
  ASSUME NEW k \in ContainerHttpHealthCheck, NEW good \in BOOLEAN, NEW kept \in Statuses
  PROVE  LET r == Counted(k, good, kept) IN r.from = k.from /\ r.on = k.on /\ r # NoCheck
<1>1. k.oks \in Nat /\ k.fails \in Nat
  BY ContainersConstants DEF ContainerHttpHealthCheck
<1>2. Fewer(k.oks + 1, SuccessThreshold) # 0 /\ Fewer(k.fails + 1, FailureThreshold) # 0
  BY <1>1, ContainersConstants DEF Fewer
<1>3. PICK oks : oks = IF good THEN Fewer(k.oks + 1, SuccessThreshold) ELSE 0
  OBVIOUS
<1>4. PICK fails : fails = IF good THEN 0 ELSE Fewer(k.fails + 1, FailureThreshold)
  OBVIOUS
<1>5. PICK s : s = IF oks >= SuccessThreshold THEN "healthy"
                   ELSE IF fails >= FailureThreshold THEN "unhealthy" ELSE kept
  OBVIOUS
<1>6. Counted(k, good, kept) = [k EXCEPT !.oks = oks, !.fails = fails, !.status = s]
  BY <1>3, <1>4, <1>5 DEF Counted
<1>7. PICK r : r = [k EXCEPT !.oks = oks, !.fails = fails, !.status = s]
  OBVIOUS
<1>8. r.from = k.from /\ r.on = k.on /\ r.oks = oks /\ r.fails = fails
  BY <1>7 DEF ContainerHttpHealthCheck
<1>9. oks # 0 \/ fails # 0
  BY <1>2, <1>3, <1>4
<1>10. NoCheck.oks = 0 /\ NoCheck.fails = 0
  BY DEF NoCheck
<1> QED
  BY <1>6, <1>7, <1>8, <1>9, <1>10

\* A step that writes one row, and leaves its terms, leaves what applies.
LEMMA SameTerms ==
  ASSUME HealthInv, live \in Ids \cup {Nil}, UNCHANGED <<live, seen, cfg>>,
         NEW c \in Ids, NEW k, check' = [check EXCEPT ![c] = k],
         check[c] # NoCheck, k # NoCheck, k.from = check[c].from, k.on = check[c].on
  PROVE  InForce' = InForce
<1>1. PICK l \in Ids \cup {Nil} : l = live
  OBVIOUS
<1>2. \A o \in Ids : /\ check'[o] = NoCheck <=> check[o] = NoCheck
                     /\ check'[o].from = check[o].from /\ check'[o].on = check[o].on
  BY DEF HealthInv
<1>3. Others(l)' = Others(l) /\ ReattachedCfg(l)' = ReattachedCfg(l)
  BY DEF Others, ReattachedCfg
<1>4. OtherChecks(l)' = OtherChecks(l)
  BY <1>2 DEF OtherChecks
<1>5. ASSUME l \in Ids
      PROVE  /\ ReattachedCheck(l)'.from = ReattachedCheck(l).from
             /\ ReattachedCheck(l)'.on = ReattachedCheck(l).on
  <2>1. CASE check[l] = NoCheck /\ OtherChecks(l) # {}
    <3>1. PICK o \in Ids : o = CHOOSE d \in OtherChecks(l) : TRUE
      BY <2>1 DEF OtherChecks
    <3>2. ReattachedCheck(l) = [NoCheck EXCEPT !.from = check[o].from, !.on = check[o].on]
      BY <2>1, <3>1 DEF ReattachedCheck
    <3>3. ReattachedCheck(l)' = [NoCheck EXCEPT !.from = check'[o].from, !.on = check'[o].on]
      BY <1>2, <1>4, <1>5, <2>1, <3>1 DEF ReattachedCheck
    <3> QED
      BY <1>2, <3>2, <3>3
  <2>2. CASE ~(check[l] = NoCheck /\ OtherChecks(l) # {})
    <3>1. ReattachedCheck(l) = check[l]
      BY <2>2 DEF ReattachedCheck
    <3>2. ReattachedCheck(l)' = check'[l]
      BY <1>2, <1>4, <1>5, <2>2 DEF ReattachedCheck
    <3> QED
      BY <1>2, <1>5, <3>1, <3>2
  <2> QED
    BY <2>1, <2>2
<1>6. CASE l = Nil
  BY <1>1, <1>6 DEF InForce
<1>7. CASE l \in Ids
  <2>1. CASE l \in seen
    <3>1. /\ cfg'[l] = cfg[l]
          /\ check'[l].from = check[l].from /\ check'[l].on = check[l].on
      BY <1>2, <1>7
    <3> QED
      BY <1>1, <2>1, <3>1 DEF InForce
  <2>2. CASE l \notin seen
    BY <1>1, <1>3, <1>5, <1>7, <2>2 DEF InForce
  <2> QED
    BY <2>1, <2>2
<1> QED
  BY <1>6, <1>7

\* Discovery gives a container the settings that applied to it before.
LEMMA DiscoverKeepsSettings ==
  ASSUME cfg \in [Ids -> AutoRestartConfig], check \in [Ids -> ContainerHttpHealthCheck],
         live \in Ids \cup {Nil}, Nil \notin Ids, Discover, live' = live
  PROVE  InForce' = InForce
<1>1. CASE ~reach \/ live = Nil
  BY <1>1, SameRows DEF Discover
<1>2. CASE reach /\ live # Nil /\ live \in seen
  <2>1. cfg' = cfg /\ check' = check /\ live \in seen'
    BY <1>2 DEF Discover
  <2> QED
    BY <1>2, <2>1 DEF InForce
<1>3. CASE reach /\ live # Nil /\ live \notin seen
  <2>1. /\ cfg' = [cfg EXCEPT ![live] = ReattachedCfg(live)]
        /\ check' = [check EXCEPT ![live] = ReattachedCheck(live)]
        /\ live \in seen' /\ live \in Ids
    BY <1>3 DEF Discover
  <2>2. cfg'[live] = ReattachedCfg(live) /\ check'[live] = ReattachedCheck(live)
    BY <2>1
  <2> QED
    BY <1>3, <2>1, <2>2 DEF InForce
<1> QED
  BY <1>1, <1>2, <1>3

\* The clean-up by a list that has the container in it, or nothing at all.
LEMMA CleanupKeepsSettings ==
  ASSUME ContainersInv, MaintRecords, maint.id \in {Nil, live}
  PROVE  InForce' = InForce
<1>1. live \in Ids \cup {Nil} /\ cfg \in [Ids -> AutoRestartConfig] /\ check \in [Ids -> ContainerHttpHealthCheck]
  BY DEF ContainersInv, RestartsInv, WorldTypes, RestartTypes, HealthInv
<1>2. /\ live' = live /\ seen' = seen
      /\ cfg' = [c \in Ids |-> IF c \in StaleRows THEN "none" ELSE cfg[c]]
      /\ check' = [c \in Ids |-> IF c \in StaleRows THEN NoCheck ELSE check[c]]
  BY DEF MaintRecords, world, monitoring
<1>3. CASE maint.id = Nil
  <2>1. cfg' = cfg /\ check' = check
    BY <1>1, <1>2, <1>3 DEF StaleRows
  <2> QED
    BY <1>2, <2>1, SameRows
<1>4. CASE maint.id = live /\ live # Nil
  <2>1. live \in seen /\ live \in Ids /\ live \notin StaleRows
    BY <1>1, <1>4 DEF MaintRecords, ContainersInv, RestartsInv, ListedIsSeen, StaleRows
  <2>2. cfg'[live] = cfg[live] /\ check'[live] = check[live]
    BY <1>2, <2>1
  <2> QED
    BY <1>2, <1>4, <2>1, <2>2 DEF InForce
<1> QED
  BY <1>3, <1>4

\* A result, wherever it comes from.
LEMMA ResultKeepsSettings ==
  ASSUME ContainersInv, NEW c \in Ids, NEW good \in BOOLEAN,
         LoopResult(c, good) \/ ResultElsewhere(c, good)
  PROVE  InForce' = InForce
<1>1. HealthInv /\ live \in Ids \cup {Nil}
  BY DEF ContainersInv, RestartsInv, WorldTypes
<1>2. UNCHANGED <<live, seen, cfg>>
  BY DEF LoopResult, ResultElsewhere, world, monitoring, restarts
<1>3. CASE check' = check
  BY <1>2, <1>3, SameRows
<1>4. CASE check' # check
  <2>1. check[c] \in ContainerHttpHealthCheck /\ check[c].status \in Statuses /\ loop[c].was \in Statuses
    BY <1>1 DEF HealthInv, ContainerHttpHealthCheck
  <2>2. PICK kept \in Statuses : /\ check[c] # NoCheck
                                 /\ check' = [check EXCEPT ![c] = Counted(check[c], good, kept)]
    <3>1. CASE LoopResult(c, good)
      BY <1>4, <2>1, <3>1 DEF LoopResult
    <3>2. CASE ResultElsewhere(c, good)
      BY <1>1, <2>1, <3>2 DEF ResultElsewhere, HealthInv
    <3> QED
      BY <3>1, <3>2
  <2>3. PICK k : k = Counted(check[c], good, kept)
    OBVIOUS
  <2>4. k.from = check[c].from /\ k.on = check[c].on /\ k # NoCheck
    BY <2>1, <2>3, CountedKeepsTerms
  <2> QED
    BY <1>1, <1>2, <2>2, <2>3, <2>4, SameTerms
<1> QED
  BY <1>3, <1>4

\* What applies to a container stays as its user wants it, through
\* discovery, results of checks, batch jobs, auto-restart and the clean-up,
\* except by the clean-up with an outdated list and by a restart.
THEOREM SettingsAreKeptHolds == ContainersSpec => SettingsAreKept
<1> DEFINE Excepted == \/ \E c \in Ids : Edits(c)
                       \/ MaintRecords /\ maint.id \notin {Nil, live}
                       \/ Restart
<1>1. ContainersInv /\ [ContainersNext]_containerVars
        => [live' = live /\ InForce' # InForce => Excepted]_containerVars
  <2> SUFFICES ASSUME ContainersInv, ContainersNext, live' = live, ~Excepted
               PROVE  InForce' = InForce
    OBVIOUS
  <2>0. /\ live \in Ids \cup {Nil} /\ Nil \notin Ids
        /\ cfg \in [Ids -> AutoRestartConfig] /\ check \in [Ids -> ContainerHttpHealthCheck]
    BY ContainersConstants DEF ContainersInv, RestartsInv, WorldTypes, RestartTypes, HealthInv, Nil
  <2>1. CASE \/ ContainerDies \/ HostChanges \/ \E c \in Ids : LoseEvent(c) \/ HandleDie(c)
             \/ UserStops \/ UserKills \/ UserStarts \/ UserRestarts
             \/ StopByAgent \/ KillByAgent \/ StartByAgent \/ RestartByAgent
             \/ SweepActs \/ MaintMemory \/ \E t \in Tasks : TaskStep(t)
    <3>1. UNCHANGED <<seen, cfg, check>>
      BY <2>1 DEF ContainerDies, HostChanges, LoseEvent, HandleDie, UserStops, UserKills,
           UserStarts, UserRestarts, StopByAgent, KillByAgent, StartByAgent, RestartByAgent, Operates, SweepActs,
           MaintMemory, TaskStep, TaskBegins, TaskDelayed, StartSucceeds, StartFails, TaskEnds,
           monitoring, restarts, health
    <3> QED
      BY <3>1, SameRows
  <2>2. CASE JobStep \/ \E found \in SUBSET Items, act \in Acts : CreateJob(found, act)
    BY <2>2, JobActs, SameRows DEF monitoring, restarts, health
  <2>3. CASE UserDeletes \/ \E answered \in BOOLEAN : DeleteByAgent(answered)
    BY <2>3 DEF UserDeletes, DeleteByAgent, RemovedByAgent
  <2>4. CASE \E c \in Ids : Recreate(c)
    <3>1. live \in born \cup {Nil}
      BY DEF ContainersInv, RestartsInv, OnlyBornIsKnown
    <3> QED
      BY <2>0, <2>4, <3>1 DEF Recreate
  <2>5. CASE SweepLists
    BY <2>0, <2>5, DiscoverKeepsSettings DEF SweepLists
  <2>6. CASE \E phase \in {"memory", "records"} : MaintLists(phase)
    BY <2>0, <2>6, DiscoverKeepsSettings DEF MaintLists
  <2>7. CASE MaintRecords
    BY <2>7, CleanupKeepsSettings
  <2>8. CASE \E c \in Ids : \/ \E s \in {"on", "off"} : ToggleAutoRestart(c, s)
                            \/ \E from \in {"backend", "agent"}, on \in BOOLEAN : SaveCheck(c, from, on)
                            \/ DeleteCheck(c)
    BY <2>8 DEF Edits
  <2>9. CASE \E c \in Ids : Reload(c) \/ LoopLoads(c) \/ LoopRetries(c) \/ RetryDelayPasses(c)
    <3>1. UNCHANGED <<seen, cfg, check>>
      BY <2>9 DEF Reload, LoopLoads, LoopRetries, RetryDelayPasses, monitoring, restarts
    <3> QED
      BY <3>1, SameRows
  <2>10. CASE \E c \in Ids : \E good \in BOOLEAN :
                LoopResult(c, good) \/ TestCheck(c, good) \/ AgentResult(c, good)
    BY <2>10, ResultKeepsSettings DEF TestCheck, AgentResult
  <2>11. CASE Restart
    BY <2>11
  <2> HIDE DEF Excepted
  <2> QED
    BY <2>1, <2>2, <2>3, <2>4, <2>5, <2>6, <2>7, <2>8, <2>9, <2>10, <2>11 DEF ContainersNext
<1> QED
  BY <1>1, ContainersInvariant, PTL DEF ContainersSpec, SettingsAreKept
=============================================================================
