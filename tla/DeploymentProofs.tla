--------------------------- MODULE DeploymentProofs ---------------------------
(***************************************************************************)
(* The safety of Deployment for any number of executions, and of Stacks    *)
(* for any number of names, requests and faults.                           *)
(*                                                                         *)
(* Deployment: InProgressIsOwned is inductive given the types.             *)
(*                                                                         *)
(* Stacks: that half a compose file comes from a copy says nothing of what *)
(* is on disk while requests are half-way.  The inductive invariant says   *)
(* what a directory may hold (Sound), where the copy stands that has yet   *)
(* to write the rest (TornBy), in which directory a create has its         *)
(* temporary file, and that names on which two requests met are known      *)
(* (mixed).                                                                *)
(***************************************************************************)
EXTENDS Deployment, Stacks, TLAPS

\* The program points of an execution.
ExecPoints == xpc \in [Execs -> {"idle", "queued", "starting", "working", "deploying",
                            "commanding", "refused", "failed", "removing", "done"}]

\* The inductive invariant.
DeploymentInv == TypeOK /\ InProgressIsOwned

USE DeploymentAssumption DEF Statuses, InProgress, Hosts

------------------------------------------------------------------------------
\* A new deployment satisfies the invariant.
LEMMA InitDeploymentInv == Init => DeploymentInv
<1> SUFFICES ASSUME Init PROVE DeploymentInv
  OBVIOUS
<1>1. TypeOK
  BY DEF Init, TypeOK
<1>2. InProgressIsOwned
  BY DEF Init, InProgressIsOwned
<1>. QED  BY <1>1, <1>2 DEF DeploymentInv

\* An execution starts, fails or rolls back.
LEMMA StartStep ==
  ASSUME DeploymentInv, NEW e \in Execs,
         Start(e) \/ Commit(e) \/ FailEarly(e) \/ FailLate(e) \/
         Rollback(e) \/ RollbackEnds(e)
  PROVE  DeploymentInv'
<1> USE DEF DeploymentInv, vars, statusVars, rowVars, execVars, jobVars, Move, Write,
            Fail, Transition, CanTransition, ShouldRollback, RolledBack, Report,
            ReportOnBehalf, Link, FinalStatus
<1>1. CASE Start(e)
  <2>1. TypeOK'
    BY <1>1 DEF Start, TypeOK
  <2>2. InProgressIsOwned'
    BY <1>1 DEF Start, TypeOK, InProgressIsOwned
  <2>. QED  BY <2>1, <2>2
<1>2. CASE Commit(e)
  <2>1. TypeOK'
    <3>1. status' \in Statuses \cup {"gone"}
      BY <1>2 DEF Commit, TypeOK, ExecPoints
    <3>2. delegated' \in BOOLEAN
      BY <1>2 DEF Commit, TypeOK, ExecPoints
    <3>3. committed' \in BOOLEAN
      BY <1>2 DEF Commit, TypeOK, ExecPoints
    <3>4. seen' \in [Execs -> [committed : BOOLEAN, via : Hosts]]
      <4>1. CASE status # "gone"
        <5>1. [committed |-> committed', via |-> via] \in [committed : BOOLEAN, via : Hosts]
          BY <3>3 DEF TypeOK
        <5>2. seen' = [seen EXCEPT ![e] = [committed |-> committed', via |-> via]]
          BY <1>2, <4>1 DEF Commit
        <5>. QED  BY <5>1, <5>2 DEF TypeOK
      <4>2. CASE status = "gone"
        BY <1>2, <4>2 DEF Commit, TypeOK
      <4>. QED  BY <4>1, <4>2
    <3>5. ExecPoints'
      BY <1>2 DEF Commit, TypeOK, ExecPoints
    <3>. QED  BY <1>2, <3>1, <3>2, <3>3, <3>4, <3>5 DEF Commit, TypeOK, ExecPoints
  <2>2. InProgressIsOwned'
    BY <1>2 DEF Commit, TypeOK, InProgressIsOwned
  <2>. QED  BY <2>1, <2>2
<1>3. CASE FailEarly(e)
  <2>1. TypeOK'
    <3>1. status' \in Statuses \cup {"gone"}
      BY <1>3 DEF FailEarly, TypeOK, ExecPoints
    <3>2. delegated' \in BOOLEAN
      BY <1>3 DEF FailEarly, TypeOK, ExecPoints
    <3>3. seen' \in [Execs -> [committed : BOOLEAN, via : Hosts]]
      BY <1>3 DEF FailEarly, TypeOK, ExecPoints
    <3>4. ExecPoints'
      BY <1>3 DEF FailEarly, TypeOK, ExecPoints
    <3>. QED  BY <1>3, <3>1, <3>2, <3>3, <3>4 DEF FailEarly, TypeOK, ExecPoints
  <2>2. InProgressIsOwned'
    BY <1>3 DEF FailEarly, TypeOK, InProgressIsOwned
  <2>. QED  BY <2>1, <2>2
<1>4. CASE FailLate(e)
  <2>1. TypeOK'
    BY <1>4 DEF FailLate, TypeOK
  <2>2. InProgressIsOwned'
    BY <1>4 DEF FailLate, TypeOK, InProgressIsOwned
  <2>. QED  BY <2>1, <2>2
<1>5. CASE Rollback(e)
  <2>1. TypeOK'
    <3>1. status' \in Statuses \cup {"gone"}
      BY <1>5 DEF Rollback, TypeOK, ExecPoints
    <3>2. delegated' \in BOOLEAN
      BY <1>5 DEF Rollback, TypeOK, ExecPoints
    <3>3. doomed' \in [Execs -> SUBSET Execs]
      BY <1>5 DEF Rollback, TypeOK, ExecPoints
    <3>4. ExecPoints'
      BY <1>5 DEF Rollback, TypeOK, ExecPoints
    <3>. QED  BY <1>5, <3>1, <3>2, <3>3, <3>4 DEF Rollback, TypeOK, ExecPoints
  <2>2. InProgressIsOwned'
    BY <1>5 DEF Rollback, TypeOK, InProgressIsOwned
  <2>. QED  BY <2>1, <2>2
<1>6. CASE RollbackEnds(e)
  <2>1. TypeOK'
    <3>1. status' \in Statuses \cup {"gone"}
      BY <1>6 DEF RollbackEnds, TypeOK, ExecPoints
    <3>2. delegated' \in BOOLEAN
      BY <1>6 DEF RollbackEnds, TypeOK, ExecPoints
    <3>3. host' \in [Hosts -> SUBSET Execs]
      BY <1>6 DEF RollbackEnds, TypeOK, ExecPoints
    <3>4. ExecPoints'
      BY <1>6 DEF RollbackEnds, TypeOK, ExecPoints
    <3>. QED  BY <1>6, <3>1, <3>2, <3>3, <3>4 DEF RollbackEnds, TypeOK, ExecPoints
  <2>2. InProgressIsOwned'
    BY <1>6 DEF RollbackEnds, TypeOK, InProgressIsOwned
  <2>. QED  BY <2>1, <2>2
<1>. QED  BY <1>1, <1>2, <1>3, <1>4, <1>5, <1>6

\* An execution hands over to compose-service or to the agent.
LEMMA DispatchStep ==
  ASSUME DeploymentInv, NEW e \in Execs,
         Dispatch(e) \/ Succeed(e) \/ Refuse(e) \/ Command(e) \/
         CommandFails(e) \/ Accepted(e)
  PROVE  DeploymentInv'
<1> USE DEF DeploymentInv, vars, statusVars, rowVars, execVars, jobVars, Move, Write,
            Fail, Transition, CanTransition, ShouldRollback, RolledBack, Report,
            ReportOnBehalf, Link, FinalStatus
<1>1. CASE Dispatch(e)
  <2>1. TypeOK'
    BY <1>1 DEF Dispatch, TypeOK
  <2>2. InProgressIsOwned'
    BY <1>1 DEF Dispatch, TypeOK, InProgressIsOwned
  <2>. QED  BY <2>1, <2>2
<1>2. CASE Succeed(e)
  <2>1. TypeOK'
    BY <1>2 DEF Succeed, TypeOK
  <2>2. InProgressIsOwned'
    BY <1>2 DEF Succeed, TypeOK, InProgressIsOwned
  <2>. QED  BY <2>1, <2>2
<1>3. CASE Refuse(e)
  <2>1. TypeOK'
    BY <1>3 DEF Refuse, TypeOK
  <2>2. InProgressIsOwned'
    BY <1>3 DEF Refuse, TypeOK, InProgressIsOwned
  <2>. QED  BY <2>1, <2>2
<1>4. CASE Command(e)
  <2>1. TypeOK'
    BY <1>4 DEF Command, TypeOK
  <2>2. InProgressIsOwned'
    BY <1>4 DEF Command, TypeOK, InProgressIsOwned
  <2>. QED  BY <2>1, <2>2
<1>5. CASE CommandFails(e)
  <2>1. TypeOK'
    BY <1>5 DEF CommandFails, TypeOK
  <2>2. InProgressIsOwned'
    BY <1>5 DEF CommandFails, TypeOK, InProgressIsOwned
  <2>. QED  BY <2>1, <2>2
<1>6. CASE Accepted(e)
  <2>1. TypeOK'
    BY <1>6 DEF Accepted, TypeOK
  <2>2. InProgressIsOwned'
    BY <1>6 DEF Accepted, TypeOK, InProgressIsOwned
  <2>. QED  BY <2>1, <2>2
<1>. QED  BY <1>1, <1>2, <1>3, <1>4, <1>5, <1>6

\* The host runs compose up, and the agent's events arrive or are lost.
LEMMA HostStep ==
  ASSUME DeploymentInv, NEW e \in Execs, NEW o \in {"success", "partial", "failed"},
         JobStarts(e) \/ JobEnds(e, o) \/ Progress(e) \/ Complete(e) \/
         LoseEvents(e)
  PROVE  DeploymentInv'
<1> USE DEF DeploymentInv, vars, statusVars, rowVars, execVars, jobVars, Move, Write,
            Fail, Transition, CanTransition, ShouldRollback, RolledBack, Report,
            ReportOnBehalf, Link, FinalStatus
<1>1. CASE JobStarts(e)
  <2>1. TypeOK'
    BY <1>1 DEF JobStarts, TypeOK
  <2>2. InProgressIsOwned'
    BY <1>1 DEF JobStarts, TypeOK, InProgressIsOwned
  <2>. QED  BY <2>1, <2>2
<1>2. CASE JobEnds(e, o)
  <2>1. TypeOK'
    <3>1. host' \in [Hosts -> SUBSET Execs]
      BY <1>2 DEF JobEnds, TypeOK
    <3>2. host'[where[e]] \in SUBSET Execs
      BY <3>1 DEF TypeOK
    <3>3. made' \in [Execs -> SUBSET Execs]
      BY <1>2, <3>2 DEF JobEnds, TypeOK
    <3>4. job' \in [Execs -> {"none", "sent", "running", "success", "partial", "failed"}]
      BY <1>2 DEF JobEnds, TypeOK
    <3>. QED  BY <1>2, <3>1, <3>3, <3>4 DEF JobEnds, TypeOK
  <2>2. InProgressIsOwned'
    BY <1>2 DEF JobEnds, TypeOK, InProgressIsOwned
  <2>. QED  BY <2>1, <2>2
<1>3. CASE Progress(e)
  <2>1. TypeOK'
    BY <1>3 DEF Progress, TypeOK
  <2>2. InProgressIsOwned'
    BY <1>3 DEF Progress, TypeOK, InProgressIsOwned
  <2>. QED  BY <2>1, <2>2
<1>4. CASE Complete(e)
  <2>1. TypeOK'
    <3>1. status' \in Statuses \cup {"gone"} /\ delegated' \in BOOLEAN
      BY <1>4 DEF Complete, TypeOK
    <3>2. links' \in SUBSET Execs
      BY <1>4 DEF Complete, TypeOK
    <3>3. committed' \in BOOLEAN
      <4>1. committed' = TRUE \/ UNCHANGED committed
        BY <1>4 DEF Complete
      <4>. QED  BY <4>1 DEF TypeOK
    <3>4. mail' \in [Execs -> {"open", "closed"}] /\ made' \in [Execs -> SUBSET Execs]
      BY <1>4 DEF Complete, TypeOK
    <3>. QED  BY <1>4, <3>1, <3>2, <3>3, <3>4 DEF Complete, TypeOK
  <2>2. InProgressIsOwned'
    BY <1>4 DEF Complete, TypeOK, InProgressIsOwned
  <2>. QED  BY <2>1, <2>2
<1>5. CASE LoseEvents(e)
  <2>1. TypeOK'
    BY <1>5 DEF LoseEvents, TypeOK
  <2>2. InProgressIsOwned'
    BY <1>5 DEF LoseEvents, TypeOK, InProgressIsOwned
  <2>. QED  BY <2>1, <2>2
<1>. QED  BY <1>1, <1>2, <1>3, <1>4, <1>5

\* Requests: the row is executed, edited or deleted.
LEMMA RequestStep ==
  ASSUME DeploymentInv,
         \/ \E e \in Execs, redeploy \in BOOLEAN : Request(e, redeploy)
         \/ EditBegin \/ EditEnd \/ Delete
  PROVE  DeploymentInv'
<1> USE DEF DeploymentInv, statusVars, rowVars, execVars, jobVars, Move, Write, TypeOK,
            InProgressIsOwned
<1>1. CASE \E e \in Execs, redeploy \in BOOLEAN : Request(e, redeploy)
  BY <1>1 DEF Request
<1>2. CASE EditBegin
  BY <1>2 DEF EditBegin
<1>3. CASE EditEnd
  <2>1. status' \in Statuses \cup {"gone"} /\ via' \in Hosts
    BY <1>3 DEF EditEnd
  <2>2. delegated' \in BOOLEAN
    BY <1>3 DEF EditEnd
  <2>3. editing' \in {"no", "retry", "other"}
    BY <1>3 DEF EditEnd
  <2>4. TypeOK'
    BY <1>3, <2>1, <2>2, <2>3 DEF EditEnd
  <2>5. InProgressIsOwned'
    BY <1>3 DEF EditEnd
  <2>. QED  BY <2>4, <2>5
<1>4. CASE Delete
  BY <1>4 DEF Delete
<1>. QED  BY <1>1, <1>2, <1>3, <1>4

\* The invariant is inductive.
LEMMA NextDeploymentInv == DeploymentInv /\ [Next]_vars => DeploymentInv'
<1>1. ASSUME DeploymentInv, NEW e \in Execs, Execution(e)
      PROVE  DeploymentInv'
  BY <1>1, StartStep, DispatchStep DEF Execution
<1>2. ASSUME DeploymentInv, NEW e \in Execs,
             Job(e) \/ Progress(e) \/ Complete(e) \/ LoseEvents(e)
      PROVE  DeploymentInv'
  BY <1>2, HostStep DEF Job
<1>3. CASE DeploymentInv /\ UNCHANGED vars
  BY <1>3 DEF vars, statusVars, rowVars, execVars, jobVars, DeploymentInv, TypeOK,
              InProgressIsOwned
<1>. QED  BY <1>1, <1>2, <1>3, RequestStep DEF Next

LEMMA DeploymentInvariant == Spec => []DeploymentInv
  BY InitDeploymentInv, NextDeploymentInv, PTL DEF Spec

------------------------------------------------------------------------------
\* Type correctness; the status keeps to the constraint of the deployments table.
THEOREM DeploymentTypeCorrect == Spec => []TypeOK
<1>1. DeploymentInv => TypeOK
  BY DEF DeploymentInv
<1>. QED  BY <1>1, DeploymentInvariant, PTL

\* However executions, edits that move the row between hosts, deletions, rollbacks
\* and late reports interleave, the backend leaves no deployment of its own in an
\* in-progress status.
THEOREM InProgressIsOwnedHolds == Spec => []InProgressIsOwned
<1>1. DeploymentInv => InProgressIsOwned
  BY DEF DeploymentInv
<1>. QED  BY <1>1, DeploymentInvariant, PTL

------------------------------------------------------------------------------
(* Stacks.                                                                   *)
HIDE DeploymentAssumption DEF Statuses, InProgress, Hosts

Dir == [is : BOOLEAN, gen : Content, compose : Content, ref : BOOLEAN, env : Content,
        temps : SUBSET Reqs, torn : 0..N]
Points == {"free", "write", "compose", "env", "record", "move", "moving", "remove", "removing", "copy",
           "copying", "filling", "unlink", "read", "readenv", "send", "run", "done", "failed"}
Req == [at : Points, op : Ops, name : Names, dest : Names, ref : BOOLEAN, env : BOOLEAN, user : Users,
        gen : Content, left : SUBSET Entries, final : SUBSET Finals]
Run == [at : {"none", "going"} \cup Finals, compose : Content \cup {Half}, ref : BOOLEAN,
        env : Content, told : BOOLEAN]

\* Where a request may be, by its operation.  A copy that is recorded has copied
\* every file.
PointsInv(r) ==
    LET q == req[r] IN
    /\ q.at = "free" => q = NoReq
    /\ q.at \in {"write", "compose", "env"} => q.op \in {"create", "update"} \cup Imports
    /\ q.at \in {"move", "moving"} => q.op = "rename"
    /\ q.at \in {"remove", "removing"} => q.op = "delete"
    /\ q.at \in {"copy", "copying", "filling"} => q.op = "copy"
    /\ q.at = "unlink" => q.op = "delenv"
    /\ q.at = "record" => q.op \notin {"deploy", "delenv"}
    /\ q.at \in {"read", "readenv", "send", "run"} => q.op = "deploy"
    /\ q.op = "copy" /\ q.at \in {"record", "done"} => q.left = {}

\* A deployment has no result before it was sent.
RunInv(r) ==
    LET q == req[r]
        x == run[r] IN
    /\ q.at \in {"free", "read"} => x = NoRun
    /\ q.at \in {"free", "read", "readenv", "send"} => q.final = {}
    /\ x.at # "none" => q.at \in {"run", "done", "failed"}
    /\ x.env # 0 => x.ref
    /\ q.final \cap {"running", "partial"} \subseteq {x.at}

\* Requests that work on files: the names on which two of them meet are known.
Working(r) == Active(r) /\ req[r].op # "deploy"
MeetInv ==
    \A r, s \in Reqs : Working(r) /\ Working(s) /\ r # s => Touches(req[r]) \cap Touches(req[s]) \subseteq mixed

\* A create that is alone on its directory finds no compose file in it.
CreateInv(r) ==
    LET q == req[r] IN
    q.op = "create" /\ q.at = "compose" /\ q.name \notin mixed /\ dir[q.name].gen = r => dir[q.name].compose = 0

\* A copy that has written half a file, and has not hidden it: it is about to
\* write the rest, has failed, or has met another copy.
OtherCopy(c) == \E s \in Reqs \ {c} : req[s].op = "copy"
TornBy(c) ==
    LET q == req[c] IN
    /\ q.op = "copy" /\ q.at \notin {"free", "copy"} /\ "compose" \notin q.left
    /\ q.at \in {"filling", "failed"} \/ "broken" \in q.left \/ OtherCopy(c)

\* What holds of a directory: one that is not there has nothing in it, a create
\* has its temporary file only in a directory that it has made, and half a file is
\* a copy's.  While request r moves, its own half files are excepted.
SoundFor(r, d) ==
    /\ ~d.is => d = NoDir
    /\ \A s \in d.temps : req[s].at # "free" /\ (req[s].op = "create" => d.gen = s)
    /\ d.torn \in {0, r} \/ TornBy(d.torn)
Sound(d) == SoundFor(0, d)

SomeCopy == \E s \in Reqs : req[s].op = "copy"

\* The inductive invariant of Stacks.
StacksInv ==
    /\ StacksTypeOK /\ MeetInv
    /\ \A n \in Names : Sound(dir[n])
    /\ \A r \in Reqs : PointsInv(r) /\ RunInv(r) /\ CreateInv(r) /\ (run[r].compose = Half => SomeCopy)

(* The types by the names of the records. *)
LEMMA StacksTyped ==
  StacksTypeOK <=>
    /\ uses \in Scenarios /\ agent \in BOOLEAN
    /\ dir \in [Names -> Dir] /\ meta \subseteq Names /\ mixed \subseteq Names
    /\ rows \in [Names -> Users \cup {0}] /\ lost \in 0..MaxFaults
    /\ req \in [Reqs -> Req] /\ run \in [Reqs -> Run]
BY DEF StacksTypeOK, Dir, Req, Run, Points

(* There is a first name, and a request that does nothing is well-formed. *)
LEMMA Constants ==
  First \in Names /\ NoReq \in Req /\ NoRun \in Run /\ NoDir \in Dir /\ Half \notin Content /\ 0 \in Content
<1>1. First \in Names
  BY StacksAssumption DEF First
<1>2. 0 \in Content /\ Half \notin Content /\ 0 \in 0..N
  BY StacksAssumption DEF Content, Old, Half
<1>. QED  BY <1>1, <1>2 DEF NoReq, Req, NoRun, Run, NoDir, Dir, Points, Ops, Users, Entries

(* Requests are numbers, and none is 0. *)
LEMMA Numbers == \A r \in Reqs : r \in 0..N /\ r \in Content /\ r # 0
BY StacksAssumption DEF Reqs, Content, Old

(* What is known of a request before its step. *)
LEMMA RequestFacts ==
  ASSUME StacksInv, NEW r \in Reqs
  PROVE  /\ req \in [Reqs -> Req] /\ req[r] \in Req /\ PointsInv(r) /\ RunInv(r) /\ CreateInv(r)
         /\ dir \in [Names -> Dir] /\ meta \subseteq Names /\ mixed \subseteq Names
         /\ rows \in [Names -> Users \cup {0}] /\ run \in [Reqs -> Run] /\ lost \in 0..MaxFaults
         /\ req[r].name \in Names /\ req[r].dest \in Names
         /\ \A n \in Names : Sound(dir[n]) /\ dir[n] \in Dir
         /\ run[r].compose = Half => SomeCopy
<1>1. /\ req \in [Reqs -> Req] /\ dir \in [Names -> Dir] /\ meta \subseteq Names
      /\ rows \in [Names -> Users \cup {0}] /\ run \in [Reqs -> Run] /\ lost \in 0..MaxFaults /\ mixed \subseteq Names
  BY StacksTyped DEF StacksInv
<1>2. req[r] \in Req /\ req[r].name \in Names /\ req[r].dest \in Names
  BY <1>1 DEF Req
<1>. QED  BY <1>1, <1>2 DEF StacksInv

\* A step of request r leaves the compose file of n as it is, removes it, or is on
\* a name that the request touches.
Calm(r, n) ==
    \/ dir'[n].compose = 0
    \/ dir'[n].compose = dir[n].compose /\ dir'[n].gen = dir[n].gen
    \/ Working(r) /\ n \in Touches(req[r])

(* A step of one request keeps the invariant if its own part of it does,   *)
(* and the directories are sound.                                          *)
LEMMA Moves ==
  ASSUME StacksInv, NEW r \in Reqs, NEW x \in Req, req' = [req EXCEPT ![r] = x],
         x.op = req[r].op, x.name = req[r].name, x.dest = req[r].dest, x.at # "free",
         Working(r) \/ x.op = "deploy" \/ x.at \in {"done", "failed"},
         UNCHANGED <<uses, agent, mixed>>, dir' \in [Names -> Dir], meta' \subseteq Names,
         rows' \in [Names -> Users \cup {0}], lost' \in 0..MaxFaults,
         run' \in [Reqs -> Run], \A s \in Reqs \ {r} : run'[s] = run[s], run'[r].compose = Half => SomeCopy,
         \A n \in Names : SoundFor(r, dir'[n]) /\ Calm(r, n),
         (\E n \in Names : dir'[n].torn = r) => TornBy(r)',
         PointsInv(r)', RunInv(r)', CreateInv(r)'
  PROVE  StacksInv'
<1>1. req \in [Reqs -> Req]
  BY StacksTyped DEF StacksInv
<1>2. req' \in [Reqs -> Req] /\ req'[r] = x /\ \A s \in Reqs \ {r} : req'[s] = req[s]
  BY <1>1
<1>3. \A s \in Reqs : req'[s].op = req[s].op /\ (req[s].at # "free" => req'[s].at # "free")
  BY <1>2
<1>4. \A s \in Reqs : Touches(req'[s]) = Touches(req[s])
  BY <1>2 DEF Touches
<1>5. \A s \in Reqs : Working(s)' => Working(s)
  BY <1>2 DEF Working, Active
<1>6. StacksTypeOK'
  <2>1. uses' \in Scenarios /\ agent' \in BOOLEAN /\ mixed' \subseteq Names
    BY StacksTyped DEF StacksInv
  <2>. QED  BY <1>2, <2>1 DEF StacksTypeOK, Dir, Req, Run, Points
<1>7. MeetInv'
  BY <1>4, <1>5 DEF StacksInv, MeetInv
<1>8. SomeCopy => SomeCopy'
  BY <1>3 DEF SomeCopy
<1>9. \A c \in Reqs \ {r} : TornBy(c) => TornBy(c)'
  <2>1. \A c \in Reqs : OtherCopy(c) => OtherCopy(c)'
    BY <1>3 DEF OtherCopy
  <2>. QED  BY <1>2, <2>1 DEF TornBy
<1>10. ASSUME NEW n \in Names PROVE Sound(dir[n])'
  <2>1. SoundFor(r, dir'[n]) /\ dir'[n] \in Dir
    OBVIOUS
  <2>2. dir'[n].temps \subseteq Reqs /\ (dir'[n].torn = 0 \/ dir'[n].torn \in Reqs)
    BY <2>1, StacksAssumption DEF Dir, Reqs
  <2>3. dir'[n].torn = 0 \/ TornBy(dir[n].torn)'
    BY <1>9, <2>1, <2>2 DEF SoundFor
  <2>4. \A s \in dir'[n].temps : req'[s].at # "free" /\ (req'[s].op = "create" => dir'[n].gen = s)
    BY <1>3, <2>1, <2>2 DEF SoundFor
  <2>. QED  BY <2>1, <2>3, <2>4 DEF Sound, SoundFor
<1>11. ASSUME NEW s \in Reqs \ {r} PROVE CreateInv(s)'
  <2>1. req'[s] = req[s] /\ req[s].name \in Names /\ CreateInv(s)
    BY <1>1, <1>2 DEF Req, StacksInv
  <2>2. SUFFICES ASSUME req[s].op = "create", req[s].at = "compose", req[s].name \notin mixed,
                        dir'[req[s].name].gen = s
                 PROVE  dir'[req[s].name].compose = 0
    BY <2>1 DEF CreateInv
  <2>3. Working(s) /\ req[s].name \in Touches(req[s])
    BY <2>2 DEF Working, Active, Touches
  <2>4. ~(Working(r) /\ req[s].name \in Touches(req[r]))
    BY <2>2, <2>3 DEF StacksInv, MeetInv
  <2>5. Calm(r, req[s].name)
    BY <2>1
  <2>. QED  BY <2>1, <2>2, <2>4, <2>5 DEF Calm, CreateInv
<1>12. \A s \in Reqs \ {r} : PointsInv(s)' /\ RunInv(s)' /\ (run'[s].compose = Half => SomeCopy')
  BY <1>2, <1>8 DEF PointsInv, RunInv, StacksInv
<1>. QED  BY <1>6, <1>7, <1>8, <1>10, <1>11, <1>12 DEF StacksInv

(* The step of a request that is no copy cannot tear a file. *)
LEMMA MovesOther ==
  ASSUME StacksInv, NEW r \in Reqs, req[r].op # "copy", NEW d, Sound(d)
  PROVE  SoundFor(r, d) /\ d.torn # r
<1>1. r # 0
  BY Numbers
<1>. QED  BY <1>1 DEF Sound, SoundFor, TornBy

------------------------------------------------------------------------------
(* At the beginning there is one stack, with its row. *)
LEMMA InitStacksInv == StacksInit => StacksInv
<1> SUFFICES ASSUME StacksInit PROVE StacksInv
  OBVIOUS
<1>1. PICK ref \in BOOLEAN :
        dir = [n \in Names |-> IF n # First THEN NoDir
                               ELSE [NoDir EXCEPT !.is = TRUE, !.gen = Old, !.compose = Old, !.ref = ref, !.env = Old]]
  BY DEF StacksInit
<1>2. Old \in Content
  BY StacksAssumption DEF Old, Content
<1>3. ASSUME NEW n \in Names PROVE dir[n] \in Dir /\ Sound(dir[n])
  <2>1. NoDir \in Dir /\ NoDir.temps = {} /\ NoDir.torn = 0
    BY Constants DEF NoDir
  <2>2. CASE n # First
    BY <1>1, <2>1, <2>2 DEF Sound, SoundFor
  <2>3. CASE n = First
    <3> DEFINE d == [NoDir EXCEPT !.is = TRUE, !.gen = Old, !.compose = Old, !.ref = ref, !.env = Old]
    <3>1. d \in Dir /\ d.is /\ d.temps = {} /\ d.torn = 0
      BY <1>2, <2>1 DEF Dir
    <3>2. dir[n] = d
      BY <1>1, <2>3
    <3> HIDE DEF d
    <3>. QED  BY <3>1, <3>2 DEF Sound, SoundFor
  <2>. QED  BY <2>2, <2>3
<1>4. dir \in [Names -> Dir]
  BY <1>1, <1>3
<1>4a. req \in [Reqs -> Req] /\ run \in [Reqs -> Run]
  BY Constants DEF StacksInit
<1>4b. /\ meta \subseteq Names /\ mixed \subseteq Names
       /\ rows \in [Names -> Users \cup {0}] /\ lost \in 0..MaxFaults
  BY Constants, StacksAssumption DEF StacksInit
<1>5. StacksTypeOK
  BY <1>4, <1>4a, <1>4b, StacksTyped DEF StacksInit
<1>6. \A r \in Reqs : req[r] = NoReq /\ run[r] = NoRun
  BY DEF StacksInit
<1>7. MeetInv
  BY <1>6 DEF MeetInv, Working, Active, NoReq
<1>8. ASSUME NEW r \in Reqs PROVE PointsInv(r) /\ CreateInv(r)
  <2>1. NoReq.at = "free" /\ NoReq.op = "delete"
    BY DEF NoReq
  <2>. QED  BY <1>6, <2>1 DEF PointsInv, CreateInv
<1>9. \A r \in Reqs : RunInv(r) /\ run[r].compose # Half
  <2>1. NoRun.compose # Half
    BY StacksAssumption DEF NoRun, Half
  <2>. QED  BY <1>6, <2>1 DEF RunInv, NoReq, NoRun
<1>. QED  BY <1>3, <1>5, <1>7, <1>8, <1>9 DEF StacksInv

(* Where a request goes after its first checks. *)
Admitted(op, at) ==
    \/ at = "failed"
    \/ at = "write" /\ op \in {"create", "update"} \cup Imports
    \/ at = "record" /\ op \in {"existing", "deployment"}
    \/ <<op, at>> \in {<<"rename", "move">>, <<"copy", "copy">>, <<"delete", "remove">>, <<"delenv", "unlink">>,
                       <<"deploy", "read">>}

(* A request comes in: the names on which it meets another one are noted.  *)
LEMMA BeginStep ==
  ASSUME StacksInv, NEW r \in Reqs, NEW q \in Req, NEW at, Begin(r, q, at), Admitted(q.op, at),
         q.final = {}
  PROVE  StacksInv'
<1>1. /\ req \in [Reqs -> Req] /\ run \in [Reqs -> Run] /\ dir \in [Names -> Dir] /\ mixed \subseteq Names
  BY StacksTyped DEF StacksInv
<1>2. PICK x \in Req : /\ x = [q EXCEPT !.at = at] /\ x.at = at /\ at \in Points \ {"free"} /\ x.op = q.op
                       /\ x.name = q.name /\ x.dest = q.dest /\ x.final = {}
  <2> DEFINE x == [q EXCEPT !.at = at]
  <2>1. at \in Points \ {"free"}
    BY DEF Admitted, Points
  <2>2. x \in Req /\ x.at = at /\ x.op = q.op /\ x.name = q.name /\ x.dest = q.dest /\ x.final = {}
    BY <2>1 DEF Req
  <2>. QED  BY <2>1, <2>2
<1>3. req' = [req EXCEPT ![r] = x] /\ req[r].at = "free" /\ UNCHANGED <<uses, agent, dir, meta, rows, run, lost>>
  BY <1>2 DEF Begin
<1>4. req'[r] = x /\ \A s \in Reqs \ {r} : req'[s] = req[s]
  BY <1>1, <1>3
<1>5. PointsInv(r) /\ RunInv(r) /\ req[r] = NoReq /\ run[r] = NoRun
  BY <1>3 DEF StacksInv, PointsInv, RunInv
<1>6. req[r].op # "copy"
  BY <1>5 DEF NoReq
<1>7. Touches(x) = Touches(q) /\ Touches(q) \subseteq Names
  BY <1>2 DEF Touches, Req
<1>8. mixed \subseteq mixed' /\ mixed' \subseteq Names /\ (q.op # "deploy" => Met(q) \subseteq mixed')
  BY <1>1, <1>7 DEF Begin, Met
<1>9. StacksTypeOK'
  <2>1. req' \in [Reqs -> Req]
    BY <1>1, <1>3
  <2>. QED  BY <1>3, <1>8, <2>1, StacksTyped DEF StacksInv, StacksTypeOK, Dir, Req, Run, Points
<1>10. \A s \in Reqs \ {r} : Working(s)' => Working(s)
  BY <1>4 DEF Working, Active
<1>11. MeetInv'
  <2>1. ASSUME NEW s \in Reqs \ {r}, Working(s)', Working(r)'
        PROVE  Touches(req'[r]) \cap Touches(req'[s]) \subseteq mixed'
    <3>1. Working(s) /\ q.op # "deploy"
      BY <1>2, <1>4, <1>10, <2>1 DEF Working
    <3>2. Touches(q) \cap Touches(req[s]) \subseteq Met(q)
      BY <3>1 DEF Met, Working
    <3>. QED  BY <1>4, <1>7, <1>8, <3>1, <3>2
  <2>2. ASSUME NEW s \in Reqs \ {r}, NEW t \in Reqs \ {r}, Working(s)', Working(t)', s # t
        PROVE  Touches(req'[s]) \cap Touches(req'[t]) \subseteq mixed'
    BY <1>4, <1>8, <1>10, <2>2 DEF StacksInv, MeetInv
  <2>3. \A s, t \in Reqs : s # t /\ Working(s)' /\ Working(t)' =>
         s = r \/ t = r \/ (s \in Reqs \ {r} /\ t \in Reqs \ {r})
    OBVIOUS
  <2>. QED  BY <2>1, <2>2, <2>3 DEF MeetInv
<1>12. SomeCopy => SomeCopy'
  BY <1>4, <1>6 DEF SomeCopy
<1>13. \A c \in Reqs : TornBy(c) => TornBy(c)'
  <2>1. \A c \in Reqs : OtherCopy(c) => OtherCopy(c)'
    BY <1>4, <1>6 DEF OtherCopy
  <2>. QED  BY <1>4, <1>6, <2>1 DEF TornBy
<1>14. ASSUME NEW n \in Names PROVE Sound(dir[n])'
  <2>1. Sound(dir[n]) /\ dir[n] \in Dir /\ dir'[n] = dir[n]
    BY <1>1, <1>3 DEF StacksInv
  <2>2. dir[n].temps \subseteq Reqs /\ (dir[n].torn = 0 \/ dir[n].torn \in Reqs)
    BY <2>1, StacksAssumption DEF Dir, Reqs
  <2>3. \A s \in dir[n].temps : req'[s].at # "free" /\ (req'[s].op = "create" => dir[n].gen = s)
    BY <1>3, <1>4, <2>1, <2>2 DEF Sound, SoundFor
  <2>. QED  BY <1>13, <2>1, <2>2, <2>3 DEF Sound, SoundFor
<1>15. PointsInv(r)' /\ RunInv(r)' /\ CreateInv(r)'
  <2>1. run'[r] = NoRun
    BY <1>3, <1>5
  <2>2. PointsInv(r)' /\ CreateInv(r)'
    BY <1>2, <1>4 DEF PointsInv, CreateInv, Admitted, Imports
  <2>3. RunInv(r)'
    BY <1>2, <1>4, <2>1 DEF RunInv, NoRun
  <2>. QED  BY <2>2, <2>3
<1>16. \A s \in Reqs \ {r} : PointsInv(s)' /\ RunInv(s)' /\ CreateInv(s)'
  <2>1. \A s \in Reqs \ {r} : PointsInv(s)' /\ RunInv(s)'
    BY <1>3, <1>4 DEF StacksInv, PointsInv, RunInv
  <2>2. \A s \in Reqs \ {r} : CreateInv(s)'
    BY <1>3, <1>4, <1>8 DEF StacksInv, CreateInv
  <2>. QED  BY <2>1, <2>2
<1>17. \A s \in Reqs : run'[s].compose = Half => SomeCopy'
  BY <1>3, <1>12 DEF StacksInv
<1>. QED  BY <1>9, <1>11, <1>14, <1>15, <1>16, <1>17 DEF StacksInv

(* The request that an endpoint starts from. *)
LEMMA OnRequest ==
  ASSUME NEW op \in Ops, NEW n \in Names
  PROVE  /\ On(op, n) \in Req /\ On(op, n).op = op /\ On(op, n).final = {}
<1>1. NoReq.final = {} /\ NoReq \in Req
  BY Constants DEF NoReq
<1> HIDE DEF NoReq
<1>. QED  BY <1>1 DEF On, Req

(* The endpoints. *)
LEMMA EndpointSteps ==
  ASSUME StacksInv, NEW r \in Reqs, NEW n \in Names,
         \/ \E ref \in BOOLEAN, env \in BOOLEAN :
              \/ CreateStack(r, n, ref, env) \/ UpdateStack(r, n, ref, env)
              \/ \E op \in Imports, user \in Users : ImportDeployment(r, op, n, ref, env, user)
         \/ \E m \in Names : RenameStack(r, n, m) \/ CopyStack(r, n, m)
         \/ DeleteStack(r, n) \/ DeleteEnvFile(r, n) \/ DeployStack(r, n) \/ CreateDeployment(r, n)
  PROVE  StacksInv'
<1>1. ASSUME NEW ref \in BOOLEAN, NEW env \in BOOLEAN, NEW op \in {"create", "update"}, NEW at,
             Begin(r, [On(op, n) EXCEPT !.ref = ref, !.env = env], at), at \in {"write", "failed"}
      PROVE  StacksInv'
  <2> DEFINE q == [On(op, n) EXCEPT !.ref = ref, !.env = env]
  <2>0. On(op, n) \in Req /\ On(op, n).op = op /\ On(op, n).final = {}
    BY OnRequest DEF Ops
  <2>1. q \in Req /\ q.op = op /\ q.final = {}
    BY <2>0 DEF Req
  <2>2. Admitted(q.op, at)
    BY <1>1, <2>1 DEF Admitted
  <2> HIDE DEF q
  <2>. QED  BY <1>1, <2>1, <2>2, BeginStep DEF q
<1>2. ASSUME NEW ref \in BOOLEAN, NEW env \in BOOLEAN, NEW op \in Imports, NEW user \in Users,
             ImportDeployment(r, op, n, ref, env, user)
      PROVE  StacksInv'
  <2> DEFINE q == [On(op, n) EXCEPT !.ref = ref, !.env = env, !.user = user]
  <2>0. On(op, n) \in Req /\ On(op, n).op = op /\ On(op, n).final = {}
    BY OnRequest DEF Ops
  <2>1. q \in Req /\ q.op = op /\ q.final = {}
    BY <2>0 DEF Req
  <2>2. PICK at : Begin(r, q, at) /\ (at \in {"write", "failed"} \/ (op = "existing" /\ at = "record"))
    BY <1>2 DEF ImportDeployment, Imports
  <2>3. Admitted(q.op, at)
    BY <2>1, <2>2 DEF Admitted
  <2> HIDE DEF q
  <2>. QED  BY <2>1, <2>2, <2>3, BeginStep
<1>3. ASSUME NEW m \in Names, NEW op \in {"rename", "copy"}, NEW at, m # n,
             Begin(r, [On(op, n) EXCEPT !.dest = m], at),
             at = "failed" \/ <<op, at>> \in {<<"rename", "move">>, <<"copy", "copy">>}
      PROVE  StacksInv'
  <2> DEFINE q == [On(op, n) EXCEPT !.dest = m]
  <2>0. On(op, n) \in Req /\ On(op, n).op = op /\ On(op, n).final = {}
    BY OnRequest DEF Ops
  <2>1. q \in Req /\ q.op = op /\ q.final = {}
    BY <2>0 DEF Req
  <2>2. Admitted(q.op, at)
    BY <1>3, <2>1 DEF Admitted
  <2> HIDE DEF q
  <2>. QED  BY <1>3, <2>1, <2>2, BeginStep DEF q
<1>4. ASSUME NEW op \in Ops \ {"rename", "copy"}, NEW at, Begin(r, On(op, n), at), Admitted(op, at)
      PROVE  StacksInv'
  BY <1>4, OnRequest, BeginStep
<1>5. ASSUME NEW ref \in BOOLEAN, NEW env \in BOOLEAN, CreateStack(r, n, ref, env) \/ UpdateStack(r, n, ref, env)
      PROVE  StacksInv'
  BY <1>1, <1>5 DEF CreateStack, UpdateStack, IfExists
<1>6. ASSUME NEW m \in Names, RenameStack(r, n, m) \/ CopyStack(r, n, m)
      PROVE  StacksInv'
  BY <1>3, <1>6 DEF RenameStack, CopyStack, IfExists
<1>7. CASE DeleteStack(r, n) \/ DeleteEnvFile(r, n) \/ DeployStack(r, n) \/ CreateDeployment(r, n)
  BY <1>4, <1>7 DEF DeleteStack, DeleteEnvFile, DeployStack, CreateDeployment, IfExists, Admitted, Ops, Imports
<1>. QED  BY <1>2, <1>5, <1>6, <1>7

------------------------------------------------------------------------------
(* A step of a request that works on files says nothing of a deployment.   *)
LEMMA Works ==
  ASSUME StacksInv, NEW r \in Reqs, Working(r), NEW x \in Req, req' = [req EXCEPT ![r] = x],
         x.op = req[r].op, x.name = req[r].name, x.dest = req[r].dest, x.final = req[r].final, x.at # "free",
         UNCHANGED <<uses, agent, run, mixed>>, dir' \in [Names -> Dir], meta' \subseteq Names,
         rows' \in [Names -> Users \cup {0}], lost' \in 0..MaxFaults,
         \A n \in Names : SoundFor(r, dir'[n]) /\ Calm(r, n),
         (\E n \in Names : dir'[n].torn = r) => TornBy(r)',
         PointsInv(r)', CreateInv(r)'
  PROVE  StacksInv'
<1>1. req[r] \in Req /\ req \in [Reqs -> Req] /\ PointsInv(r) /\ RunInv(r) /\ run \in [Reqs -> Run]
  BY RequestFacts
<1>2. req'[r] = x /\ run' = run
  BY <1>1
<1>3. run[r].at = "none"
  BY <1>1 DEF RunInv, PointsInv, Working, Active
<1>4. x.at \notin {"read", "readenv", "send"}
  BY <1>2 DEF PointsInv, Working
<1>5. RunInv(r)'
  BY <1>1, <1>2, <1>3, <1>4 DEF RunInv
<1>6. run'[r].compose = Half => SomeCopy
  BY <1>2, RequestFacts
<1>. QED  BY <1>1, <1>2, <1>5, <1>6, Moves

(* A step that leaves the directories as they are. *)
LEMMA Goes ==
  ASSUME StacksInv, NEW r \in Reqs, Working(r), NEW x \in Req, req' = [req EXCEPT ![r] = x],
         x.op = req[r].op, x.name = req[r].name, x.dest = req[r].dest, x.final = req[r].final,
         x.at \notin {"free", "compose"},
         UNCHANGED <<uses, agent, dir, run, mixed>>, meta' \subseteq Names,
         rows' \in [Names -> Users \cup {0}], lost' \in 0..MaxFaults,
         PointsInv(r)', TornBy(r) => TornBy(r)'
  PROVE  StacksInv'
<1>1. req \in [Reqs -> Req] /\ dir' \in [Names -> Dir] /\ req'[r] = x
  BY RequestFacts
<1>2. \A n \in Names : Sound(dir'[n]) /\ Calm(r, n)
  BY RequestFacts DEF Calm
<1>3. \A n \in Names : SoundFor(r, dir'[n])
  BY <1>2 DEF Sound, SoundFor
<1>4. (\E n \in Names : dir'[n].torn = r) => TornBy(r)'
  BY <1>2, Numbers DEF Sound, SoundFor
<1>5. CreateInv(r)'
  BY <1>1 DEF CreateInv
<1>. QED  BY <1>1, <1>2, <1>3, <1>4, <1>5, Works

(* A step of a request that is no copy, on the directory of its stack. *)
LEMMA Writes ==
  ASSUME StacksInv, NEW r \in Reqs, Working(r), req[r].op # "copy", NEW x \in Req, req' = [req EXCEPT ![r] = x],
         x.op = req[r].op, x.name = req[r].name, x.dest = req[r].dest, x.final = req[r].final, x.at # "free",
         NEW d \in Dir, dir' = [dir EXCEPT ![req[r].name] = d], Sound(d),
         UNCHANGED <<uses, agent, meta, rows, run, mixed>>, lost' \in 0..MaxFaults,
         PointsInv(r)', CreateInv(r)'
  PROVE  StacksInv'
<1>1. /\ dir \in [Names -> Dir] /\ \A n \in Names : Sound(dir[n])
      /\ meta' \subseteq Names /\ rows' \in [Names -> Users \cup {0}]
  BY RequestFacts
<1>2. PICK n \in Names : n = req[r].name /\ n \in Touches(req[r])
  BY RequestFacts DEF Touches
<1>3. dir' \in [Names -> Dir] /\ dir'[n] = d /\ \A m \in Names \ {n} : dir'[m] = dir[m]
  BY <1>1, <1>2
<1>4. \A m \in Names : Sound(dir'[m]) /\ Calm(r, m)
  BY <1>1, <1>2, <1>3 DEF Calm
<1>5. \A m \in Names : SoundFor(r, dir'[m]) /\ dir'[m].torn # r
  BY <1>4, MovesOther
<1>. QED  BY <1>1, <1>3, <1>4, <1>5, Works

(* A request goes on to another point. *)
LEMMA Onward ==
  ASSUME StacksInv, NEW r \in Reqs, NEW at \in Points, To(r, at)
  PROVE  \E x \in Req : /\ req' = [req EXCEPT ![r] = x] /\ req'[r] = x /\ x.at = at /\ x.op = req[r].op
                        /\ x.name = req[r].name /\ x.dest = req[r].dest /\ x.final = req[r].final
                        /\ x.left = req[r].left /\ x.gen = req[r].gen
<1> DEFINE x == [req[r] EXCEPT !.at = at]
<1>1. req[r] \in Req /\ req \in [Reqs -> Req]
  BY RequestFacts
<1>2. /\ x \in Req /\ x.at = at /\ x.op = req[r].op /\ x.name = req[r].name /\ x.dest = req[r].dest
      /\ x.final = req[r].final /\ x.left = req[r].left /\ x.gen = req[r].gen
  BY <1>1 DEF Req
<1>3. req' = [req EXCEPT ![r] = x]
  BY <1>1 DEF To
<1>. QED  BY <1>1, <1>2, <1>3

(* A step that only takes a request of another kind than a copy elsewhere. *)
LEMMA MerelyGoes ==
  ASSUME StacksInv, NEW r \in Reqs, Working(r), req[r].op # "copy", NEW at \in Points \ {"free", "compose"}, To(r, at),
         UNCHANGED <<uses, agent, dir, meta, rows, run, lost, mixed>>,
         at \in {"failed", "done"} \/ (req[r].at = "move" /\ at = "moving")
  PROVE  StacksInv'
<1>1. PICK x \in Req : /\ req' = [req EXCEPT ![r] = x] /\ req'[r] = x /\ x.at = at /\ x.op = req[r].op
                       /\ x.name = req[r].name /\ x.dest = req[r].dest /\ x.final = req[r].final
  BY Onward
<1>2. PointsInv(r)
  BY RequestFacts
<1>3. PointsInv(r)'
  BY <1>1, <1>2 DEF PointsInv
<1>4. meta' \subseteq Names /\ rows' \in [Names -> Users \cup {0}] /\ lost' \in 0..MaxFaults
  BY RequestFacts
<1>5. ~TornBy(r)
  BY DEF TornBy
<1>. QED  BY <1>1, <1>3, <1>4, <1>5, Goes

(* The directory is there, with a temporary file of the request. *)
LEMMA MakeDirStep ==
  ASSUME StacksInv, NEW r \in Reqs, MakeDir(r)
  PROVE  StacksInv'
<1>1. PICK n \in Names : n = req[r].name
  BY RequestFacts
<1>2. /\ req[r].at = "write" /\ PointsInv(r) /\ Sound(dir[n]) /\ dir[n] \in Dir /\ lost \in 0..MaxFaults
      /\ UNCHANGED <<uses, agent, meta, rows, run, lost, mixed>>
  BY <1>1, RequestFacts DEF MakeDir
<1>3. Working(r) /\ req[r].op # "copy"
  BY <1>2 DEF Working, Active, PointsInv, Imports
<1>4. CASE MayMake(r)
  <2>1. dir' = [dir EXCEPT ![n] = Made(r)] /\ To(r, "compose")
    BY <1>1, <1>4 DEF MakeDir
  <2>2. PICK x \in Req : /\ req' = [req EXCEPT ![r] = x] /\ req'[r] = x /\ x.at = "compose" /\ x.op = req[r].op
                         /\ x.name = req[r].name /\ x.dest = req[r].dest /\ x.final = req[r].final
    BY <2>1, Onward DEF Points
  <2>3. r \in 0..N /\ r \in Content /\ {r} \subseteq Reqs
    BY Numbers
  <2>4. PICK d \in Dir : d = Made(r) /\ Sound(d) /\ (req[r].op = "create" => d.compose = 0)
    <3>1. CASE dir[n].is
      <4> DEFINE d == [dir[n] EXCEPT !.temps = @ \cup {r}]
      <4>1. /\ d = Made(r) /\ d \in Dir /\ d.is /\ d.temps = dir[n].temps \cup {r} /\ d.gen = dir[n].gen
            /\ d.torn = dir[n].torn
        BY <1>1, <1>2, <2>3, <3>1 DEF Made, Dir
      <4>2. req[r].op # "create"
        BY <1>1, <1>4, <3>1 DEF MayMake
      <4> HIDE DEF d
      <4>3. Sound(d)
        BY <1>2, <4>1, <4>2 DEF Sound, SoundFor
      <4>. QED  BY <4>1, <4>2, <4>3
    <3>2. CASE ~dir[n].is
      <4> DEFINE d == [NoDir EXCEPT !.is = TRUE, !.gen = r, !.temps = {r}]
      <4>1. /\ d = Made(r) /\ d \in Dir /\ d.is /\ d.temps = {r} /\ d.gen = r /\ d.torn = 0 /\ d.compose = 0
        <5>1. NoDir \in Dir /\ NoDir.torn = 0 /\ NoDir.compose = 0
          BY Constants DEF NoDir
        <5> HIDE DEF NoDir
        <5>. QED  BY <1>1, <2>3, <3>2, <5>1 DEF Made, Dir
      <4> HIDE DEF d
      <4>2. Sound(d)
        BY <1>2, <4>1 DEF Sound, SoundFor
      <4>. QED  BY <4>1, <4>2
    <3>. QED  BY <3>1, <3>2
  <2>5. PointsInv(r)'
    BY <1>2, <2>2 DEF PointsInv
  <2>6. dir'[n] = d
    BY <2>1, <2>4, RequestFacts
  <2>7. CreateInv(r)'
    BY <1>1, <2>2, <2>4, <2>6 DEF CreateInv
  <2>. QED  BY <1>1, <1>2, <1>3, <2>1, <2>2, <2>4, <2>5, <2>7, Writes
<1>5. CASE ~MayMake(r)
  BY <1>2, <1>3, <1>5, MerelyGoes DEF MakeDir, Points
<1>. QED  BY <1>4, <1>5

(* The files are written, if the temporary file is still there. *)
LEMMA WriteSteps ==
  ASSUME StacksInv, NEW r \in Reqs, WriteCompose(r) \/ WriteEnv(r) \/ WriteFails(r)
  PROVE  StacksInv'
<1>1. PICK n \in Names : n = req[r].name
  BY RequestFacts
<1>2. /\ req[r].at \in {"compose", "env"} /\ PointsInv(r) /\ req[r] \in Req /\ Sound(dir[n]) /\ dir[n] \in Dir
      /\ lost \in 0..MaxFaults /\ UNCHANGED <<uses, agent, meta, rows, run, mixed>>
  BY <1>1, RequestFacts DEF WriteCompose, WriteEnv, WriteFails
<1>3. Working(r) /\ req[r].op # "copy"
  BY <1>2 DEF Working, Active, PointsInv, Imports
<1>4. ASSUME NEW at \in {"env", "record", "failed"}, at = "env" => req[r].at = "compose", To(r, at),
             NEW d \in Dir, dir' = [dir EXCEPT ![n] = d], d.is = dir[n].is, d.gen = dir[n].gen,
             d.temps \subseteq dir[n].temps, d.torn \in {0, dir[n].torn}, dir[n].is \/ d = dir[n],
             lost' \in 0..MaxFaults
      PROVE  StacksInv'
  <2>1. PICK x \in Req : /\ req' = [req EXCEPT ![r] = x] /\ req'[r] = x /\ x.at = at /\ x.op = req[r].op
                         /\ x.name = req[r].name /\ x.dest = req[r].dest /\ x.final = req[r].final
    BY <1>4, Onward DEF Points
  <2>2. PointsInv(r)' /\ CreateInv(r)'
    BY <1>2, <1>3, <1>4, <2>1 DEF PointsInv, CreateInv, Imports
  <2>3. Sound(d)
    BY <1>2, <1>4 DEF Sound, SoundFor
  <2>. QED  BY <1>1, <1>2, <1>3, <1>4, <2>1, <2>2, <2>3, Writes
<1>5. Writable(r) => dir[n].is
  BY <1>1, <1>2 DEF Writable, Sound, SoundFor, NoDir
<1>6. ASSUME (WriteCompose(r) \/ WriteEnv(r)) /\ ~Writable(r) PROVE StacksInv'
  <2>1. To(r, "failed") /\ UNCHANGED <<uses, agent, dir, meta, rows, run, lost, mixed>>
    BY <1>6 DEF WriteCompose, WriteEnv
  <2>. QED  BY <1>3, <2>1, MerelyGoes DEF Points
<1>7. ASSUME WriteCompose(r) /\ Writable(r) PROVE StacksInv'
  <2> DEFINE t == IF req[r].env THEN dir[n].temps ELSE dir[n].temps \ {r}
             d == [dir[n] EXCEPT !.compose = r, !.ref = req[r].ref, !.torn = 0, !.temps = t]
             at == IF req[r].env THEN "env" ELSE "record"
  <2>1. r \in Content /\ req[r].ref \in BOOLEAN /\ 0 \in 0..N
    BY <1>2, Numbers, StacksAssumption DEF Req
  <2>2. d \in Dir /\ d.is = dir[n].is /\ d.gen = dir[n].gen /\ d.temps \subseteq dir[n].temps /\ d.torn = 0
    BY <1>2, <2>1 DEF Dir
  <2>3. dir' = [dir EXCEPT ![n] = d] /\ To(r, at) /\ lost' = lost /\ req[r].at = "compose"
    BY <1>1, <1>7, RequestFacts DEF WriteCompose, Dir
  <2>4. at \in {"env", "record", "failed"}
    OBVIOUS
  <2> HIDE DEF d, at
  <2>. QED  BY <1>2, <1>4, <1>5, <1>7, <2>2, <2>3, <2>4
<1>8. ASSUME WriteEnv(r) /\ Writable(r) PROVE StacksInv'
  <2> DEFINE d == [dir[n] EXCEPT !.env = r, !.temps = @ \ {r}]
  <2>1. d \in Dir /\ d.is = dir[n].is /\ d.gen = dir[n].gen /\ d.temps \subseteq dir[n].temps /\ d.torn = dir[n].torn
    BY <1>2, Numbers DEF Dir
  <2>2. dir' = [dir EXCEPT ![n] = d] /\ To(r, "record") /\ lost' = lost
    BY <1>1, <1>8, RequestFacts DEF WriteEnv, Dir
  <2> HIDE DEF d
  <2>. QED  BY <1>2, <1>4, <1>5, <1>8, <2>1, <2>2
<1>9. ASSUME WriteFails(r) PROVE StacksInv'
  <2> DEFINE d == [dir[n] EXCEPT !.temps = @ \ {r}]
  <2>1. d \in Dir /\ d.is = dir[n].is /\ d.gen = dir[n].gen /\ d.temps \subseteq dir[n].temps /\ d.torn = dir[n].torn
    BY <1>2 DEF Dir
  <2>2. dir' = [dir EXCEPT ![n] = d] /\ To(r, "failed")
    BY <1>1, <1>9, RequestFacts DEF WriteFails, Dir
  <2>3. lost' \in 0..MaxFaults
    BY <1>2, <1>9, StacksAssumption DEF WriteFails, Fault
  <2>4. dir[n].is \/ d = dir[n]
    <3>1. ASSUME ~dir[n].is PROVE d = dir[n]
      BY <1>2, <3>1 DEF Sound, SoundFor, NoDir
    <3>. QED  BY <3>1
  <2> HIDE DEF d
  <2>. QED  BY <1>4, <2>1, <2>2, <2>3, <2>4
<1>. QED  BY <1>6, <1>7, <1>8, <1>9

(* A directory is renamed, with what is in it. *)
LEMMA MoveSteps ==
  ASSUME StacksInv, NEW r \in Reqs, MoveChecks(r) \/ MoveFiles(r)
  PROVE  StacksInv'
<1>1. PICK n \in Names, m \in Names : n = req[r].name /\ m = req[r].dest
  BY RequestFacts
<1>2. /\ req[r].at \in {"move", "moving"} /\ PointsInv(r)
      /\ UNCHANGED <<uses, agent, meta, rows, run, lost, mixed>>
  BY RequestFacts DEF MoveChecks, MoveFiles
<1>3. Working(r) /\ req[r].op = "rename"
  BY <1>2 DEF Working, Active, PointsInv
<1>4. CASE MoveChecks(r)
  <2>1. PICK at \in {"moving", "failed"} : To(r, at) /\ (at = "moving" => req[r].at = "move")
    BY <1>4 DEF MoveChecks
  <2>. QED  BY <1>2, <1>3, <1>4, <2>1, MerelyGoes DEF MoveChecks, Points
<1>5. CASE MoveFiles(r) /\ ~Movable(n, m)
  BY <1>1, <1>2, <1>3, <1>5, MerelyGoes DEF MoveFiles, Points
<1>6. CASE MoveFiles(r) /\ Movable(n, m)
  <2>1. dir' = [dir EXCEPT ![m] = dir[n], ![n] = NoDir] /\ To(r, "record")
    BY <1>1, <1>6 DEF MoveFiles
  <2>2. PICK x \in Req : /\ req' = [req EXCEPT ![r] = x] /\ req'[r] = x /\ x.at = "record" /\ x.op = req[r].op
                         /\ x.name = req[r].name /\ x.dest = req[r].dest /\ x.final = req[r].final
    BY <2>1, Onward DEF Points
  <2>3. PointsInv(r)' /\ CreateInv(r)'
    BY <1>3, <2>2 DEF PointsInv, CreateInv
  <2>4. /\ dir \in [Names -> Dir] /\ NoDir \in Dir /\ \A k \in Names : Sound(dir[k])
        /\ meta' \subseteq Names /\ rows' \in [Names -> Users \cup {0}] /\ lost' \in 0..MaxFaults
    BY <1>2, RequestFacts, Constants
  <2>5. /\ dir' \in [Names -> Dir]
        /\ \A k \in Names : \/ dir'[k] = dir[k]
                            \/ k \in {n, m} /\ dir'[k] \in {dir[n], NoDir}
    BY <2>1, <2>4
  <2>6. NoDir.temps = {} /\ NoDir.torn = 0
    BY DEF NoDir
  <2>7. Sound(NoDir)
    BY <2>6 DEF Sound, SoundFor
  <2>8. \A k \in Names : Sound(dir'[k])
    BY <2>4, <2>5, <2>7
  <2>9. \A k \in Names : Calm(r, k)
    BY <1>1, <1>3, <2>5 DEF Calm, Touches
  <2>10. \A k \in Names : SoundFor(r, dir'[k]) /\ dir'[k].torn # r
    BY <1>3, <2>8, MovesOther
  <2>. QED  BY <1>2, <1>3, <2>2, <2>3, <2>4, <2>5, <2>9, <2>10, Works
<1>. QED  BY <1>4, <1>5, <1>6

(* A directory loses its files one by one, and is removed when it is empty. *)
LEMMA RemoveSteps ==
  ASSUME StacksInv, NEW r \in Reqs,
         RemoveFiles(r) \/ RemoveDir(r) \/ \E f \in {"compose", "env", "temp"} : RemoveFile(r, f)
  PROVE  StacksInv'
<1>1. PICK n \in Names : n = req[r].name
  BY RequestFacts
<1>2. /\ req[r].at \in {"remove", "removing"} /\ PointsInv(r) /\ req[r] \in Req /\ req \in [Reqs -> Req]
      /\ dir \in [Names -> Dir] /\ dir[n] \in Dir /\ (\A k \in Names : Sound(dir[k]))
      /\ meta' \subseteq Names /\ rows' \in [Names -> Users \cup {0}] /\ lost' \in 0..MaxFaults
      /\ UNCHANGED <<uses, agent, meta, rows, run, lost, mixed>>
  BY <1>1, RequestFacts DEF RemoveFiles, RemoveDir, RemoveFile
<1>3. Working(r) /\ req[r].op = "delete" /\ ~TornBy(r)
  BY <1>2 DEF Working, Active, PointsInv, TornBy
<1>4. CASE RemoveFiles(r)
  <2> DEFINE at == IF dir[n].is THEN "removing" ELSE "record"
             left == IF dir[n].is THEN Listed(dir[n]) ELSE {}
             x == [req[r] EXCEPT !.at = at, !.gen = dir[n].gen, !.left = left]
  <2>1. left \in SUBSET Entries /\ dir[n].gen \in Content /\ at \in {"removing", "record"}
    BY <1>2 DEF Listed, Entries, Dir
  <2>2. req' = [req EXCEPT ![r] = x]
    BY <1>1, <1>2, <1>4 DEF RemoveFiles
  <2>3. /\ x \in Req /\ x.at \in {"removing", "record"} /\ x.op = req[r].op /\ x.name = req[r].name
        /\ x.dest = req[r].dest /\ x.final = req[r].final
    <3> HIDE DEF at, left
    <3>. QED  BY <1>2, <2>1 DEF Req, Points
  <2> HIDE DEF x
  <2>4. req'[r] = x
    BY <1>2, <2>2
  <2>5. PointsInv(r)'
    BY <1>3, <2>3, <2>4 DEF PointsInv
  <2>6. UNCHANGED dir
    BY <1>4 DEF RemoveFiles
  <2>. QED  BY <1>2, <1>3, <2>2, <2>3, <2>5, <2>6, Goes
<1>5. ASSUME NEW f \in {"compose", "env", "temp"}, RemoveFile(r, f)
      PROVE  StacksInv'
  <2> DEFINE x == [req[r] EXCEPT !.left = @ \ {f}]
  <2>1. /\ x \in Req /\ x.at = "removing" /\ x.op = req[r].op /\ x.name = req[r].name
        /\ x.dest = req[r].dest /\ x.final = req[r].final
    BY <1>2, <1>5 DEF RemoveFile, Req
  <2>2. req' = [req EXCEPT ![r] = x]
    BY <1>2, <1>5 DEF RemoveFile
  <2> HIDE DEF x
  <2>3. req'[r] = x
    BY <1>2, <2>2
  <2>4. PointsInv(r)' /\ CreateInv(r)'
    BY <1>3, <2>1, <2>3 DEF PointsInv, CreateInv
  <2>5. ASSUME NEW k \in Names PROVE dir'[k] \in Dir /\ Sound(dir'[k]) /\ Calm(r, k)
    <3>1. dir[k] \in Dir /\ Sound(dir[k])
      BY <1>2
    <3>2. dir'[k] = IF dir[k].gen = req[r].gen THEN Without(dir[k], f) ELSE dir[k]
      BY <1>5 DEF RemoveFile
    <3>3. PICK d \in Dir : d = Without(dir[k], f)
      <4>1. 0 \in Content /\ 0 \in 0..N
        BY Constants, StacksAssumption
      <4>. QED  BY <3>1, <4>1 DEF Without, Dir
    <3>4. /\ d.is = dir[k].is /\ d.gen = dir[k].gen /\ d.temps \subseteq dir[k].temps
          /\ d.torn \in {0, dir[k].torn} /\ d.compose \in {0, dir[k].compose}
      BY <3>1, <3>3 DEF Without, Dir
    <3>5. ASSUME ~dir[k].is PROVE d = dir[k]
      <4>1. dir[k] = NoDir
        BY <3>1, <3>5 DEF Sound, SoundFor
      <4>2. /\ Without(NoDir, "compose") = [NoDir EXCEPT !.compose = 0, !.torn = 0]
            /\ Without(NoDir, "env") = [NoDir EXCEPT !.env = 0]
            /\ Without(NoDir, "temp") = [NoDir EXCEPT !.temps = {}]
        BY DEF Without
      <4>3. \A g \in {"compose", "env", "temp"} : Without(NoDir, g) = NoDir
        BY <4>2 DEF NoDir
      <4>. QED  BY <3>3, <4>1, <4>3
    <3>6. Sound(d)
      BY <3>1, <3>4, <3>5 DEF Sound, SoundFor
    <3>. QED  BY <3>1, <3>2, <3>3, <3>4, <3>6 DEF Calm
  <2>6. dir' \in [Names -> Dir]
    BY <1>5, <2>5 DEF RemoveFile
  <2>7. \A k \in Names : SoundFor(r, dir'[k]) /\ dir'[k].torn # r /\ Calm(r, k)
    BY <1>3, <2>5, MovesOther
  <2>. QED  BY <1>2, <1>3, <2>1, <2>2, <2>4, <2>6, <2>7, Works
<1>6. CASE RemoveDir(r) /\ ~(dir[n].is /\ Empty(dir[n]))
  BY <1>1, <1>2, <1>3, <1>6, MerelyGoes DEF RemoveDir, Points
<1>7. CASE RemoveDir(r) /\ dir[n].is /\ Empty(dir[n])
  <2>1. dir' = [dir EXCEPT ![n] = NoDir] /\ To(r, "record")
    BY <1>1, <1>7 DEF RemoveDir
  <2>2. PICK x \in Req : /\ req' = [req EXCEPT ![r] = x] /\ req'[r] = x /\ x.at = "record" /\ x.op = req[r].op
                         /\ x.name = req[r].name /\ x.dest = req[r].dest /\ x.final = req[r].final
    BY <2>1, Onward DEF Points
  <2>3. PointsInv(r)' /\ CreateInv(r)'
    BY <1>3, <2>2 DEF PointsInv, CreateInv
  <2>4. NoDir \in Dir /\ NoDir.temps = {} /\ NoDir.torn = 0
    BY Constants DEF NoDir
  <2>5. Sound(NoDir)
    BY <2>4 DEF Sound, SoundFor
  <2>. QED  BY <1>1, <1>2, <1>3, <2>1, <2>2, <2>3, <2>4, <2>5, Writes
<1>. QED  BY <1>4, <1>5, <1>6, <1>7

(* The env file is unlinked. *)
LEMMA UnlinkEnvStep ==
  ASSUME StacksInv, NEW r \in Reqs, UnlinkEnv(r)
  PROVE  StacksInv'
<1>1. PICK n \in Names : n = req[r].name
  BY RequestFacts
<1>2. /\ req[r].at = "unlink" /\ PointsInv(r) /\ To(r, "done") /\ dir[n] \in Dir /\ dir \in [Names -> Dir]
      /\ Sound(dir[n]) /\ lost' \in 0..MaxFaults /\ UNCHANGED <<uses, agent, meta, rows, run, lost, mixed>>
  BY <1>1, RequestFacts DEF UnlinkEnv
<1>3. Working(r) /\ req[r].op = "delenv"
  BY <1>2 DEF Working, Active, PointsInv
<1>4. PICK x \in Req : /\ req' = [req EXCEPT ![r] = x] /\ req'[r] = x /\ x.at = "done" /\ x.op = req[r].op
                       /\ x.name = req[r].name /\ x.dest = req[r].dest /\ x.final = req[r].final
  BY <1>2, Onward DEF Points
<1>5. PointsInv(r)' /\ CreateInv(r)'
  BY <1>3, <1>4 DEF PointsInv, CreateInv
<1>6. PICK d \in Dir : dir' = [dir EXCEPT ![n] = d] /\ Sound(d)
  <2>1. CASE Exists(n)
    <3> DEFINE d == [dir[n] EXCEPT !.env = 0]
    <3>1. /\ d \in Dir /\ d.is = dir[n].is /\ d.gen = dir[n].gen /\ d.temps = dir[n].temps
          /\ d.torn = dir[n].torn
      BY <1>2, Constants DEF Dir
    <3>2. dir' = [dir EXCEPT ![n] = d] /\ d.is
      BY <1>1, <1>2, <2>1, <3>1 DEF UnlinkEnv, Exists
    <3> HIDE DEF d
    <3>3. Sound(d)
      BY <1>2, <3>1, <3>2 DEF Sound, SoundFor
    <3>. QED  BY <3>1, <3>2, <3>3
  <2>2. CASE ~Exists(n)
    <3>1. dir' = [dir EXCEPT ![n] = dir[n]]
      BY <1>1, <1>2, <2>2 DEF UnlinkEnv
    <3>. QED  BY <1>2, <3>1
  <2>. QED  BY <2>1, <2>2
<1>. QED  BY <1>1, <1>2, <1>3, <1>4, <1>5, <1>6, Writes

(* A copy writes in place; what it tears is noted in its own part. *)
LEMMA CopySteps ==
  ASSUME StacksInv, NEW r \in Reqs,
         \/ CopyBegins(r) \/ FillFile(r) \/ FillFails(r) \/ CopyEnds(r)
         \/ \E f \in {"compose", "env", "temp"} : CopyFile(r, f)
  PROVE  StacksInv'
<1>1. PICK n \in Names, m \in Names : n = req[r].name /\ m = req[r].dest
  BY RequestFacts
<1>2. /\ req[r].at \in {"copy", "copying", "filling"} /\ PointsInv(r) /\ req[r] \in Req /\ req \in [Reqs -> Req]
      /\ dir \in [Names -> Dir] /\ dir[n] \in Dir /\ dir[m] \in Dir /\ (\A k \in Names : Sound(dir[k]))
      /\ meta' \subseteq Names /\ rows' \in [Names -> Users \cup {0}] /\ lost' \in 0..MaxFaults
      /\ UNCHANGED <<uses, agent, meta, rows, run, mixed>>
  <2>1. lost' = lost \/ Fault
    BY DEF CopyBegins, FillFile, FillFails, CopyEnds, CopyFile
  <2>2. lost' \in 0..MaxFaults
    BY <2>1, RequestFacts, StacksAssumption DEF Fault
  <2>. QED  BY <1>1, <2>2, RequestFacts DEF CopyBegins, FillFile, FillFails, CopyEnds, CopyFile
<1>3. Working(r) /\ req[r].op = "copy" /\ m \in Touches(req[r])
  BY <1>1, <1>2 DEF Working, Active, PointsInv, Touches
<1>4. ASSUME NEW k \in Names, dir[k].torn = r PROVE TornBy(r)
  BY <1>2, <1>4, Numbers DEF Sound, SoundFor
<1>5. ASSUME NEW x \in Req, req' = [req EXCEPT ![r] = x], x.op = req[r].op, x.name = req[r].name,
             x.dest = req[r].dest, x.final = req[r].final, x.at \in {"copying", "filling", "record", "failed"},
             x.at = "record" => x.left = {}
      PROVE  req'[r] = x /\ PointsInv(r)' /\ CreateInv(r)'
  <2>1. req'[r] = x
    BY <1>2, <1>5
  <2>. QED  BY <1>3, <1>5, <2>1 DEF PointsInv, CreateInv
<1>6. OtherCopy(r) => OtherCopy(r)'
  <2>1. \A s \in Reqs \ {r} : req'[s] = req[s]
    BY <1>2 DEF CopyBegins, FillFile, FillFails, CopyEnds, CopyFile, To
  <2>. QED  BY <2>1 DEF OtherCopy
<1>7. CASE CopyBegins(r)
  <2>1. \A k \in Names : dir[k].torn # r
    BY <1>4, <1>7 DEF CopyBegins, TornBy
  <2>2. CASE dir[n].is /\ ~dir[m].is
    <3> DEFINE d == [NoDir EXCEPT !.is = TRUE, !.gen = r]
               x == [req[r] EXCEPT !.at = "copying", !.left = Listed(dir[n])]
    <3>1. d \in Dir /\ d.is /\ d.temps = {} /\ d.torn = 0 /\ d.compose = 0
      <4>1. NoDir \in Dir /\ NoDir.temps = {} /\ NoDir.torn = 0 /\ NoDir.compose = 0
        BY Constants DEF NoDir
      <4> HIDE DEF NoDir
      <4>. QED  BY <4>1, Numbers DEF Dir
    <3>2. /\ x \in Req /\ x.at = "copying" /\ x.op = req[r].op /\ x.name = req[r].name
          /\ x.dest = req[r].dest /\ x.final = req[r].final
      BY <1>2 DEF Req, Points, Listed, Entries
    <3>3. dir' = [dir EXCEPT ![m] = d] /\ req' = [req EXCEPT ![r] = x]
      BY <1>1, <1>2, <1>7, <2>2 DEF CopyBegins
    <3> HIDE DEF d, x
    <3>4. PointsInv(r)' /\ CreateInv(r)'
      BY <1>5, <3>2, <3>3
    <3>5. dir' \in [Names -> Dir] /\ dir'[m] = d /\ \A k \in Names \ {m} : dir'[k] = dir[k]
      BY <1>2, <3>1, <3>3
    <3>6. \A k \in Names : Sound(dir'[k]) /\ dir'[k].torn # r /\ Calm(r, k)
      BY <1>2, <1>3, <2>1, <3>1, <3>5, Numbers DEF Sound, SoundFor, Calm
    <3>7. \A k \in Names : SoundFor(r, dir'[k])
      BY <3>6 DEF Sound, SoundFor
    <3>. QED  BY <1>2, <1>3, <3>2, <3>3, <3>4, <3>5, <3>6, <3>7, Works
  <2>3. CASE ~(dir[n].is /\ ~dir[m].is)
    <3>1. To(r, "failed") /\ UNCHANGED dir
      BY <1>1, <1>7, <2>3 DEF CopyBegins
    <3>2. PICK x \in Req : /\ req' = [req EXCEPT ![r] = x] /\ req'[r] = x /\ x.at = "failed" /\ x.op = req[r].op
                           /\ x.name = req[r].name /\ x.dest = req[r].dest /\ x.final = req[r].final
      BY <3>1, Onward DEF Points
    <3>3. PointsInv(r)'
      BY <1>5, <3>2
    <3>4. ~TornBy(r)
      BY <1>7 DEF CopyBegins, TornBy
    <3>. QED  BY <1>2, <1>3, <3>1, <3>2, <3>3, <3>4, Goes
  <2>. QED  BY <2>2, <2>3
<1>8. CASE FillFile(r)
  <2>1. PICK x \in Req : /\ req' = [req EXCEPT ![r] = x] /\ req'[r] = x /\ x.at = "copying" /\ x.op = req[r].op
                         /\ x.name = req[r].name /\ x.dest = req[r].dest /\ x.final = req[r].final
    BY <1>8, Onward DEF Points, FillFile
  <2>2. PointsInv(r)' /\ CreateInv(r)'
    BY <1>5, <2>1
  <2>3. ASSUME NEW k \in Names
        PROVE  dir'[k] \in Dir /\ SoundFor(r, dir'[k]) /\ dir'[k].torn # r /\ Calm(r, k)
    <3>1. dir[k] \in Dir /\ Sound(dir[k]) /\ r # 0
      BY <1>2, Numbers
    <3>2. dir'[k] = IF dir[k].torn = r THEN [dir[k] EXCEPT !.torn = 0] ELSE dir[k]
      BY <1>8 DEF FillFile, Filled
    <3>3. CASE dir[k].torn = r
      <4> DEFINE d == [dir[k] EXCEPT !.torn = 0]
      <4>1. /\ d \in Dir /\ d.torn = 0 /\ d.is = dir[k].is /\ d.temps = dir[k].temps /\ d.gen = dir[k].gen
            /\ d.compose = dir[k].compose
        BY <3>1, StacksAssumption DEF Dir
      <4>2. dir[k].is
        BY <3>1, <3>3 DEF Sound, SoundFor, NoDir
      <4>3. dir'[k] = d
        BY <3>2, <3>3
      <4> HIDE DEF d
      <4>. QED  BY <3>1, <4>1, <4>2, <4>3 DEF Sound, SoundFor, Calm
    <3>4. CASE dir[k].torn # r
      BY <3>1, <3>2, <3>4 DEF Sound, SoundFor, Calm
    <3>. QED  BY <3>3, <3>4
  <2>4. dir' \in [Names -> Dir]
    BY <1>8, <2>3 DEF FillFile, Filled
  <2>. QED  BY <1>2, <1>3, <2>1, <2>2, <2>3, <2>4, Works
<1>9. CASE FillFails(r)
  <2> DEFINE x == [req[r] EXCEPT !.at = "copying", !.left = @ \cup {"broken"}]
  <2>1. /\ x \in Req /\ x.at = "copying" /\ x.op = req[r].op /\ x.name = req[r].name
        /\ x.dest = req[r].dest /\ x.final = req[r].final /\ x.left = req[r].left \cup {"broken"}
    BY <1>2 DEF Req, Points, Entries
  <2>2. req' = [req EXCEPT ![r] = x] /\ UNCHANGED dir
    BY <1>2, <1>9 DEF FillFails
  <2> HIDE DEF x
  <2>3. req'[r] = x /\ PointsInv(r)'
    BY <1>5, <2>1, <2>2
  <2>4. TornBy(r) => TornBy(r)'
    BY <1>3, <2>1, <2>3 DEF TornBy
  <2>. QED  BY <1>2, <1>3, <2>1, <2>2, <2>3, <2>4, Goes
<1>10. CASE CopyEnds(r)
  <2>1. PICK at \in {"record", "failed"} : To(r, at) /\ (at = "record" => req[r].left = {})
    BY <1>10 DEF CopyEnds
  <2>2. PICK x \in Req : /\ req' = [req EXCEPT ![r] = x] /\ req'[r] = x /\ x.at = at /\ x.op = req[r].op
                         /\ x.name = req[r].name /\ x.dest = req[r].dest /\ x.final = req[r].final
                         /\ x.left = req[r].left
    BY <2>1, Onward DEF Points
  <2>3. PointsInv(r)'
    BY <1>5, <2>1, <2>2
  <2>4. UNCHANGED dir /\ req[r].at = "copying"
    BY <1>10 DEF CopyEnds
  <2>5. TornBy(r) => TornBy(r)'
    BY <1>3, <1>6, <2>1, <2>2, <2>4 DEF TornBy
  <2>. QED  BY <1>2, <1>3, <2>1, <2>2, <2>3, <2>4, <2>5, Goes
<1>11. ASSUME NEW f \in {"compose", "env", "temp"}, CopyFile(r, f)
       PROVE  StacksInv'
  <2>1. f \in req[r].left /\ f # "broken" /\ req[r].at = "copying"
    BY <1>11 DEF CopyFile
  <2>2. CASE dir[n].is /\ f \in Listed(dir[n]) /\ dir[m].is
    <3> DEFINE at == IF f = "compose" /\ dir[n].torn = 0 THEN "filling" ELSE "copying"
               x == [req[r] EXCEPT !.at = at, !.left = @ \ {f}]
    <3>1. /\ x \in Req /\ x.at = at /\ x.op = req[r].op /\ x.name = req[r].name
          /\ x.dest = req[r].dest /\ x.final = req[r].final /\ x.left = req[r].left \ {f}
      BY <1>2 DEF Req, Points, Entries
    <3>2. dir' = [dir EXCEPT ![m] = Copied(r, f, dir[n])] /\ req' = [req EXCEPT ![r] = x]
      BY <1>1, <1>2, <1>11, <2>2 DEF CopyFile
    <3> HIDE DEF x
    <3>3. req'[r] = x /\ PointsInv(r)' /\ CreateInv(r)'
      BY <1>5, <3>1, <3>2
    <3>4. PICK d \in Dir : /\ d = Copied(r, f, dir[n]) /\ d.is /\ d.temps = dir[m].temps /\ d.gen = dir[m].gen
                           /\ d.torn = IF f = "compose" THEN r ELSE dir[m].torn
      <4>1. dir[n].compose \in Content /\ dir[n].ref \in BOOLEAN /\ dir[n].env \in Content /\ r \in 0..N
        BY <1>2, Numbers DEF Dir
      <4>2. CASE f = "compose"
        <5>1. Copied(r, f, dir[n]) = [dir[m] EXCEPT !.compose = dir[n].compose, !.ref = dir[n].ref, !.torn = r]
          BY <1>1, <4>2 DEF Copied
        <5>. QED  BY <1>2, <2>2, <4>1, <4>2, <5>1 DEF Dir
      <4>3. CASE f = "env"
        <5>1. Copied(r, f, dir[n]) = [dir[m] EXCEPT !.env = dir[n].env]
          BY <1>1, <4>3 DEF Copied
        <5>. QED  BY <1>2, <2>2, <4>1, <4>3, <5>1 DEF Dir
      <4>4. CASE f = "temp"
        BY <1>1, <1>2, <2>2, <4>4 DEF Copied
      <4>. QED  BY <4>2, <4>3, <4>4
    <3>5. dir' \in [Names -> Dir] /\ dir'[m] = d /\ \A k \in Names \ {m} : dir'[k] = dir[k]
      BY <1>2, <3>2, <3>4
    <3>6. \A k \in Names : SoundFor(r, dir'[k]) /\ Calm(r, k)
      <4>1. SoundFor(r, d)
        BY <1>2, <3>4 DEF Sound, SoundFor
      <4>2. \A k \in Names \ {m} : SoundFor(r, dir'[k]) /\ Calm(r, k)
        BY <1>2, <3>5 DEF Sound, SoundFor, Calm
      <4>3. Calm(r, m)
        BY <1>3 DEF Calm
      <4>. QED  BY <3>5, <4>1, <4>2, <4>3
    <3>7. TornBy(r) => TornBy(r)'
      BY <1>3, <1>6, <2>1, <3>1, <3>3 DEF TornBy
    <3>8. ASSUME f = "compose" PROVE TornBy(r)'
      <4>1. CASE dir[n].torn = 0
        BY <1>3, <3>1, <3>3, <3>8, <4>1 DEF TornBy
      <4>2. CASE dir[n].torn # 0
        <5>1. TornBy(dir[n].torn) /\ dir[n].torn \in Reqs
          BY <1>2, <4>2, StacksAssumption DEF Sound, SoundFor, Dir, Reqs
        <5>2. dir[n].torn # r
          BY <2>1, <3>8, <5>1 DEF TornBy
        <5>3. OtherCopy(r)
          BY <5>1, <5>2 DEF TornBy, OtherCopy
        <5>. QED  BY <1>3, <1>6, <3>1, <3>3, <3>8, <5>3 DEF TornBy
      <4>. QED  BY <4>1, <4>2
    <3>9. (\E k \in Names : dir'[k].torn = r) => TornBy(r)'
      BY <1>4, <3>4, <3>5, <3>7, <3>8
    <3>10. x.at # "free"
      BY <3>1
    <3>. QED  BY <1>2, <1>3, <3>1, <3>2, <3>3, <3>5, <3>6, <3>9, <3>10, Works
  <2>3. CASE ~(dir[n].is /\ f \in Listed(dir[n]) /\ dir[m].is)
    <3> DEFINE x == [req[r] EXCEPT !.left = (@ \ {f}) \cup {"broken"}]
    <3>1. /\ x \in Req /\ x.at = "copying" /\ x.op = req[r].op /\ x.name = req[r].name
          /\ x.dest = req[r].dest /\ x.final = req[r].final /\ x.left = (req[r].left \ {f}) \cup {"broken"}
      BY <1>2, <2>1 DEF Req, Points, Entries
    <3>2. req' = [req EXCEPT ![r] = x] /\ UNCHANGED dir
      BY <1>1, <1>2, <1>11, <2>3 DEF CopyFile
    <3> HIDE DEF x
    <3>3. req'[r] = x /\ PointsInv(r)'
      BY <1>5, <3>1, <3>2
    <3>4. TornBy(r) => TornBy(r)'
      BY <1>3, <3>1, <3>3 DEF TornBy
    <3>. QED  BY <1>2, <1>3, <3>1, <3>2, <3>3, <3>4, Goes
  <2>. QED  BY <2>2, <2>3
<1>. QED  BY <1>7, <1>8, <1>9, <1>10, <1>11

(* Rows are written when the files are done. *)
LEMMA RecordStep ==
  ASSUME StacksInv, NEW r \in Reqs, Record(r)
  PROVE  StacksInv'
<1>1. /\ req[r].at = "record" /\ PointsInv(r) /\ req[r] \in Req /\ meta \subseteq Names
      /\ rows \in [Names -> Users \cup {0}] /\ lost' \in 0..MaxFaults
      /\ req[r].name \in Names /\ req[r].dest \in Names
      /\ UNCHANGED <<uses, agent, dir, run, lost, mixed>>
  BY RequestFacts DEF Record
<1>2. Working(r)
  BY <1>1 DEF Working, Active, PointsInv
<1>3. PICK at \in {"done", "failed"} : To(r, at)
  BY DEF Record
<1>4. PICK x \in Req : /\ req' = [req EXCEPT ![r] = x] /\ req'[r] = x /\ x.at = at /\ x.op = req[r].op
                       /\ x.name = req[r].name /\ x.dest = req[r].dest /\ x.final = req[r].final
                       /\ x.left = req[r].left
  BY <1>3, Onward DEF Points
<1>5. PointsInv(r)'
  BY <1>1, <1>3, <1>4 DEF PointsInv
<1>6. meta' \subseteq Names
  BY <1>1 DEF Record, Recorded
<1>7. rows' \in [Names -> Users \cup {0}]
  <2>1. rows' = rows \/ rows' = [rows EXCEPT ![req[r].name] = req[r].user]
    BY DEF Record, Owned
  <2>. QED  BY <1>1, <2>1 DEF Req
<1>8. TornBy(r) => TornBy(r)'
  <2>1. \A s \in Reqs \ {r} : req'[s] = req[s]
    BY <1>4, RequestFacts
  <2>2. OtherCopy(r) => OtherCopy(r)'
    BY <2>1 DEF OtherCopy
  <2>. QED  BY <1>1, <1>4, <2>2 DEF TornBy, PointsInv
<1>. QED  BY <1>1, <1>2, <1>4, <1>5, <1>6, <1>7, <1>8, Goes

------------------------------------------------------------------------------
(* A step of a deployment, and of what it runs. *)
LEMMA RunStep ==
  ASSUME StacksInv, NEW r \in Reqs, ~Working(r), NEW x \in Req, NEW y \in Run,
         req' = [req EXCEPT ![r] = x], run' = [run EXCEPT ![r] = y],
         x.op = req[r].op, x.name = req[r].name, x.dest = req[r].dest, x.left = req[r].left, x.at # "free",
         x.at = req[r].at \/ x.op = "deploy",
         UNCHANGED <<uses, agent, dir, meta, rows, mixed>>, lost' \in 0..MaxFaults,
         PointsInv(r)', RunInv(r)', y.compose = Half => SomeCopy
  PROVE  StacksInv'
<1>1. /\ req \in [Reqs -> Req] /\ run \in [Reqs -> Run] /\ dir' \in [Names -> Dir] /\ meta' \subseteq Names
      /\ rows' \in [Names -> Users \cup {0}]
  BY RequestFacts
<1>2. /\ req'[r] = x /\ run'[r] = y /\ run' \in [Reqs -> Run]
      /\ \A s \in Reqs \ {r} : run'[s] = run[s] /\ req'[s] = req[s]
  BY <1>1
<1>3. x.op = "deploy" \/ x.at \in {"done", "failed"}
  BY DEF Working, Active
<1>4. CreateInv(r)'
  BY <1>2, <1>3 DEF CreateInv
<1>5. \A n \in Names : Sound(dir'[n]) /\ Calm(r, n)
  BY RequestFacts DEF Calm
<1>6. \A n \in Names : SoundFor(r, dir'[n])
  BY <1>5 DEF Sound, SoundFor
<1>7. TornBy(r) => TornBy(r)'
  <2>1. OtherCopy(r) => OtherCopy(r)'
    BY <1>2 DEF OtherCopy
  <2>. QED  BY <1>2, <2>1 DEF TornBy
<1>8. (\E n \in Names : dir'[n].torn = r) => TornBy(r)'
  BY <1>5, <1>7, Numbers DEF Sound, SoundFor
<1>. QED  BY <1>1, <1>2, <1>3, <1>4, <1>5, <1>6, <1>8, Moves

(* What is deployed is read file by file, and then sent. *)
LEMMA ReadSteps ==
  ASSUME StacksInv, NEW r \in Reqs, ReadCompose(r) \/ ReadEnv(r) \/ Send(r)
  PROVE  StacksInv'
<1>1. PICK n \in Names : n = req[r].name
  BY RequestFacts
<1>2. /\ req \in [Reqs -> Req] /\ req[r] \in Req /\ run \in [Reqs -> Run] /\ PointsInv(r) /\ RunInv(r)
      /\ Sound(dir[n]) /\ dir[n] \in Dir /\ lost \in 0..MaxFaults /\ (run[r].compose = Half => SomeCopy)
  BY RequestFacts
<1>3. run[r] \in Run
  BY <1>2
<1>4. /\ req[r].at \in {"read", "readenv", "send"}
      /\ UNCHANGED <<uses, agent, dir, meta, rows, lost, mixed>>
  BY DEF ReadCompose, ReadEnv, Send
<1>5. req[r].op = "deploy" /\ ~Working(r) /\ req[r].final = {} /\ run[r].at = "none"
  BY <1>2, <1>4 DEF PointsInv, RunInv, Working
<1>6. ASSUME NEW at \in {"readenv", "send", "run", "failed"}, To(r, at), NEW y \in Run,
             run' = [run EXCEPT ![r] = y], y.env # 0 => y.ref, y.compose = Half => SomeCopy,
             y.at # "none" => at = "run"
      PROVE  StacksInv'
  <2>1. PICK x \in Req : /\ req' = [req EXCEPT ![r] = x] /\ req'[r] = x /\ x.at = at /\ x.op = req[r].op
                         /\ x.name = req[r].name /\ x.dest = req[r].dest /\ x.final = req[r].final
                         /\ x.left = req[r].left
    BY <1>6, Onward DEF Points
  <2>2. run'[r] = y
    BY <1>2, <1>6
  <2>3. PointsInv(r)'
    BY <1>5, <2>1 DEF PointsInv
  <2>4. RunInv(r)'
    BY <1>5, <1>6, <2>1, <2>2 DEF RunInv
  <2>5. lost' \in 0..MaxFaults
    BY <1>2, <1>4
  <2>. QED  BY <1>4, <1>5, <1>6, <2>1, <2>3, <2>4, <2>5, RunStep
<1>7. CASE ReadCompose(r)
  <2>1. run[r] = NoRun
    BY <1>2, <1>7 DEF ReadCompose, RunInv
  <2>2. CASE Exists(n)
    <3>1. PICK ref \in BOOLEAN, c \in Content \cup {Half} :
             /\ run' = [run EXCEPT ![r].compose = c, ![r].ref = ref]
             /\ c = Half => dir[n].torn # 0
      <4>1. dir[n].compose \in Content /\ dir[n].ref \in BOOLEAN /\ Half \notin Content
        BY <1>2, Constants DEF Dir
      <4>. QED  BY <1>1, <1>7, <2>2, <4>1 DEF ReadCompose
    <3> DEFINE y == [run[r] EXCEPT !.compose = c, !.ref = ref]
    <3>2. y \in Run /\ y.at = "none" /\ y.env = 0 /\ y.compose = c
      <4>1. NoRun.env = 0
        BY DEF NoRun
      <4>. QED  BY <1>3, <1>5, <2>1, <4>1 DEF Run
    <3>3. run' = [run EXCEPT ![r] = y] /\ To(r, "readenv")
      BY <1>1, <1>2, <1>7, <2>2, <3>1 DEF ReadCompose
    <3>4. c = Half => SomeCopy
      <4>1. dir[n].torn # 0 => dir[n].torn \in Reqs /\ TornBy(dir[n].torn)
        BY <1>2, StacksAssumption DEF Sound, SoundFor, Dir, Reqs
      <4>. QED  BY <3>1, <4>1 DEF TornBy, SomeCopy
    <3> HIDE DEF y
    <3>. QED  BY <1>6, <3>2, <3>3, <3>4
  <2>3. CASE ~Exists(n)
    <3>1. To(r, "failed") /\ run' = [run EXCEPT ![r] = run[r]]
      BY <1>1, <1>2, <1>7, <2>3 DEF ReadCompose
    <3>2. run[r].env # 0 => run[r].ref
      BY <1>2 DEF RunInv
    <3>. QED  BY <1>2, <1>3, <1>5, <1>6, <3>1, <3>2
  <2>. QED  BY <2>2, <2>3
<1>8. CASE ReadEnv(r)
  <2> DEFINE y == [run[r] EXCEPT !.env = Shipped(r)]
  <2>1. Shipped(r) \in Content /\ (Shipped(r) # 0 => run[r].ref)
    BY <1>1, <1>2, Constants DEF Shipped, Dir
  <2>2. /\ y \in Run /\ y.at = "none" /\ y.compose = run[r].compose /\ y.env = Shipped(r) /\ y.ref = run[r].ref
    BY <1>3, <1>5, <2>1 DEF Run
  <2>3. To(r, "send") /\ run' = [run EXCEPT ![r] = y]
    BY <1>2, <1>8 DEF ReadEnv
  <2> HIDE DEF y
  <2>. QED  BY <1>2, <1>6, <2>1, <2>2, <2>3
<1>9. CASE Send(r)
  <2> DEFINE y == [run[r] EXCEPT !.at = "going"]
  <2>1. y \in Run /\ y.compose = run[r].compose /\ y.env = run[r].env /\ y.ref = run[r].ref
    BY <1>3 DEF Run
  <2>2. To(r, "run") /\ run' = [run EXCEPT ![r] = y]
    BY <1>2, <1>9 DEF Send
  <2>3. y.env # 0 => y.ref
    BY <1>2, <2>1 DEF RunInv
  <2> HIDE DEF y
  <2>. QED  BY <1>2, <1>6, <2>1, <2>2, <2>3
<1>. QED  BY <1>7, <1>8, <1>9

(* Results: "running" and "partial" come from the run only. *)
LEMMA ResultSteps ==
  ASSUME StacksInv, NEW r \in Reqs,
         \/ SendFails(r) \/ StreamCompletes(r) \/ StreamBreaks(r) \/ TimesOut(r) \/ Acknowledged(r)
         \/ DeployComplete(r) \/ LoseComplete(r) \/ \E outcome \in Finals : ComposeEnds(r, outcome)
  PROVE  StacksInv'
<1>1. /\ req \in [Reqs -> Req] /\ req[r] \in Req /\ run \in [Reqs -> Run] /\ PointsInv(r) /\ RunInv(r)
      /\ lost \in 0..MaxFaults
  BY RequestFacts
<1>2. run[r] \in Run
  BY <1>1
<1>3. UNCHANGED <<uses, agent, dir, meta, rows, mixed>> /\ lost' \in 0..MaxFaults
  BY <1>1, StacksAssumption DEF SendFails, StreamCompletes, StreamBreaks, TimesOut, Acknowledged, DeployComplete,
                                LoseComplete, ComposeEnds, Fault
<1>4. ASSUME NEW at \in {"run", "done", "failed"}, NEW F \in SUBSET Finals, NEW y \in Run,
             req[r].at \in {"send", "run", "done", "failed"},
             at # req[r].at => at = "done" /\ req[r].at \in {"send", "run"},
             req' = [req EXCEPT ![r] = [req[r] EXCEPT !.at = at, !.final = F]], run' = [run EXCEPT ![r] = y],
             F \cap {"running", "partial"} \subseteq {y.at},
             y.env = run[r].env, y.ref = run[r].ref, y.compose = run[r].compose
      PROVE  StacksInv'
  <2> DEFINE x == [req[r] EXCEPT !.at = at, !.final = F]
  <2>1. /\ x \in Req /\ x.at = at /\ x.op = req[r].op /\ x.name = req[r].name /\ x.dest = req[r].dest
        /\ x.final = F /\ x.left = req[r].left
    BY <1>1 DEF Req, Points
  <2> HIDE DEF x
  <2>2. req' = [req EXCEPT ![r] = x] /\ req'[r] = x /\ run'[r] = y
    BY <1>1, <1>4 DEF x
  <2>3. ~Working(r) /\ (x.op = "deploy" \/ x.at = req[r].at) /\ x.at # "free"
    BY <1>1, <1>4, <2>1 DEF Working, Active, PointsInv
  <2>4. PointsInv(r)'
    BY <1>1, <1>4, <2>1, <2>2 DEF PointsInv
  <2>5. RunInv(r)'
    BY <1>1, <1>4, <2>1, <2>2 DEF RunInv
  <2>6. y.compose = Half => SomeCopy
    BY <1>4, RequestFacts
  <2>. QED  BY <1>3, <1>4, <2>1, <2>2, <2>3, <2>4, <2>5, <2>6, RunStep
<1>5. run[r].at # "none" => req[r].at \in {"run", "done", "failed"}
  BY <1>1 DEF RunInv
<1>6. /\ req[r].final \in SUBSET Finals /\ req[r].final \cap {"running", "partial"} \subseteq {run[r].at}
      /\ req[r].at = "send" => req[r].final = {}
  BY <1>1 DEF RunInv, Req
<1>7. run = [run EXCEPT ![r] = run[r]]
  BY <1>1
<1>8. CASE SendFails(r) \/ StreamBreaks(r) \/ TimesOut(r)
  <2> DEFINE F == req[r].final \cup {"failed"}
  <2>1. req' = [req EXCEPT ![r] = [req[r] EXCEPT !.at = "done", !.final = F]] /\ run' = [run EXCEPT ![r] = run[r]]
    BY <1>1, <1>7, <1>8 DEF SendFails, StreamBreaks, TimesOut, Tell
  <2>2. F \in SUBSET Finals /\ F \cap {"running", "partial"} \subseteq {run[r].at}
    BY <1>6 DEF Finals
  <2>3. req[r].at \in {"send", "run"}
    BY <1>8 DEF SendFails, StreamBreaks, TimesOut
  <2> HIDE DEF F
  <2>. QED  BY <1>2, <1>4, <2>1, <2>2, <2>3
<1>9. CASE StreamCompletes(r)
  <2> DEFINE F == req[r].final \cup {run[r].at}
  <2>1. req' = [req EXCEPT ![r] = [req[r] EXCEPT !.at = "done", !.final = F]] /\ run' = [run EXCEPT ![r] = run[r]]
    BY <1>1, <1>7, <1>9 DEF StreamCompletes, Tell
  <2>2. F \in SUBSET Finals /\ F \cap {"running", "partial"} \subseteq {run[r].at}
    BY <1>6, <1>9 DEF StreamCompletes
  <2>3. req[r].at \in {"send", "run"}
    BY <1>9 DEF StreamCompletes
  <2> HIDE DEF F
  <2>. QED  BY <1>2, <1>4, <2>1, <2>2, <2>3
<1>10. CASE Acknowledged(r)
  <2>1. [req[r] EXCEPT !.at = "done", !.final = req[r].final] = [req[r] EXCEPT !.at = "done"]
    BY <1>1 DEF Req
  <2>2. /\ req' = [req EXCEPT ![r] = [req[r] EXCEPT !.at = "done", !.final = req[r].final]]
        /\ run' = [run EXCEPT ![r] = run[r]]
    BY <1>1, <1>7, <1>10, <2>1 DEF Acknowledged, To
  <2>3. req[r].at \in {"send", "run"}
    BY <1>10 DEF Acknowledged
  <2>. QED  BY <1>2, <1>4, <1>6, <2>2, <2>3
<1>11. CASE DeployComplete(r)
  <2> DEFINE F == req[r].final \cup {run[r].at}
             y == [run[r] EXCEPT !.told = TRUE]
  <2>1. req' = [req EXCEPT ![r] = [req[r] EXCEPT !.at = req[r].at, !.final = F]] /\ run' = [run EXCEPT ![r] = y]
    BY <1>1, <1>11 DEF DeployComplete, Tell
  <2>2. y \in Run /\ y.at = run[r].at /\ y.env = run[r].env /\ y.ref = run[r].ref /\ y.compose = run[r].compose
    BY <1>2 DEF Run
  <2>3. F \in SUBSET Finals /\ F \cap {"running", "partial"} \subseteq {run[r].at}
    BY <1>6, <1>11 DEF DeployComplete
  <2>4. req[r].at \in {"run", "done", "failed"}
    BY <1>5, <1>11 DEF DeployComplete, Finals
  <2> HIDE DEF F, y
  <2>. QED  BY <1>4, <2>1, <2>2, <2>3, <2>4
<1>12. CASE LoseComplete(r) \/ \E outcome \in Finals : ComposeEnds(r, outcome)
  <2>1. PICK y \in Run : /\ run' = [run EXCEPT ![r] = y] /\ run[r].at # "none"
                         /\ y.env = run[r].env /\ y.ref = run[r].ref /\ y.compose = run[r].compose
                         /\ y.at = run[r].at \/ run[r].at = "going"
    <3>1. CASE LoseComplete(r)
      <4>1. run' = [run EXCEPT ![r] = [run[r] EXCEPT !.told = TRUE]] /\ run[r].at \in Finals
        BY <1>1, <3>1 DEF LoseComplete
      <4> DEFINE z == [run[r] EXCEPT !.told = TRUE]
      <4>2. z \in Run /\ z.at = run[r].at /\ z.env = run[r].env /\ z.ref = run[r].ref /\ z.compose = run[r].compose
        BY <1>2 DEF Run
      <4>3. run[r].at # "none"
        BY <4>1 DEF Finals
      <4> HIDE DEF z
      <4>. QED  BY <4>1, <4>2, <4>3 DEF z
    <3>2. ASSUME NEW outcome \in Finals, ComposeEnds(r, outcome)
          PROVE  \E y \in Run : /\ run' = [run EXCEPT ![r] = y] /\ run[r].at # "none"
                                /\ y.env = run[r].env /\ y.ref = run[r].ref /\ y.compose = run[r].compose
                                /\ y.at = run[r].at \/ run[r].at = "going"
      <4>1. run' = [run EXCEPT ![r] = [run[r] EXCEPT !.at = outcome]] /\ run[r].at = "going"
        BY <1>1, <3>2 DEF ComposeEnds
      <4>. QED  BY <1>2, <4>1 DEF Run
    <3>. QED  BY <1>12, <3>1, <3>2
  <2>2. req' = [req EXCEPT ![r] = [req[r] EXCEPT !.at = req[r].at, !.final = req[r].final]]
    BY <1>1, <1>12 DEF LoseComplete, ComposeEnds, Req
  <2>3. req[r].final \cap {"running", "partial"} \subseteq {y.at}
    BY <1>6, <2>1
  <2>. QED  BY <1>4, <1>5, <1>6, <2>1, <2>2, <2>3
<1>. QED  BY <1>8, <1>9, <1>10, <1>11, <1>12

(* What the invariant says depends on directories, requests and runs only. *)
LEMMA SameFiles ==
  ASSUME StacksInv, UNCHANGED <<dir, req, run, mixed>>
  PROVE  /\ MeetInv' /\ \A n \in Names : Sound(dir[n])'
         /\ \A r \in Reqs : PointsInv(r)' /\ RunInv(r)' /\ CreateInv(r)' /\ (run'[r].compose = Half => SomeCopy')
<1>1. MeetInv' /\ \A r \in Reqs : PointsInv(r)' /\ RunInv(r)' /\ CreateInv(r)'
  BY DEF StacksInv, MeetInv, Working, Active, Touches, PointsInv, RunInv, CreateInv
<1>2. \A n \in Names : Sound(dir[n])'
  BY DEF StacksInv, Sound, SoundFor, TornBy, OtherCopy
<1>3. \A r \in Reqs : run'[r].compose = Half => SomeCopy'
  BY DEF StacksInv, SomeCopy
<1>. QED  BY <1>1, <1>2, <1>3

(* A deployment row is dropped: no stack depends on it. *)
LEMMA DropRowStep ==
  ASSUME StacksInv, NEW n \in Names, DropRow(n)
  PROVE  StacksInv'
<1>1. /\ rows \in [Names -> Users \cup {0}] /\ lost \in 0..MaxFaults
      /\ rows' = [rows EXCEPT ![n] = 0] /\ lost < MaxFaults /\ lost' = lost + 1
      /\ UNCHANGED <<uses, agent, dir, meta, req, run, mixed>>
  BY StacksTyped DEF StacksInv, DropRow, Fault
<1>2. rows' \in [Names -> Users \cup {0}] /\ lost' \in 0..MaxFaults
  BY <1>1, StacksAssumption
<1>3. StacksTypeOK'
  BY <1>1, <1>2 DEF StacksInv, StacksTypeOK
<1>4. UNCHANGED <<dir, req, run, mixed>>
  BY <1>1
<1>. QED  BY <1>3, <1>4, SameFiles DEF StacksInv

(* The backend is restarted: half files are left by requests that failed. *)
LEMMA CrashStep ==
  ASSUME StacksInv, Crash
  PROVE  StacksInv'
<1>1. /\ req \in [Reqs -> Req] /\ run \in [Reqs -> Run] /\ dir \in [Names -> Dir] /\ lost \in 0..MaxFaults
  BY StacksTyped DEF StacksInv
<1>2. /\ req' = [r \in Reqs |-> IF Active(r) THEN [req[r] EXCEPT !.at = "failed"] ELSE req[r]]
      /\ lost < MaxFaults /\ lost' = lost + 1
      /\ UNCHANGED <<uses, agent, dir, meta, rows, run, mixed>>
  BY DEF Crash, Fault
<1>3. ASSUME NEW r \in Reqs
      PROVE  /\ req'[r] \in Req /\ req'[r].at \in {"free", "done", "failed"}
             /\ req'[r].final = req[r].final /\ req'[r].op = req[r].op /\ req'[r].left = req[r].left
             /\ req'[r].name = req[r].name /\ req'[r].dest = req[r].dest
             /\ req'[r].at # req[r].at => req'[r].at = "failed" /\ Active(r)
             /\ ~Active(r) => req'[r] = req[r]
  <2>1. req[r] \in Req
    BY <1>1
  <2>2. CASE Active(r)
    BY <1>2, <2>1, <2>2 DEF Req, Points
  <2>3. CASE ~Active(r)
    BY <1>2, <2>1, <2>3 DEF Active
  <2>. QED  BY <2>2, <2>3
<1>4. MeetInv' /\ \A r \in Reqs : CreateInv(r)'
  BY <1>3 DEF MeetInv, Working, Active, CreateInv
<1>5. \A c \in Reqs : TornBy(c) => TornBy(c)'
  <2>1. \A c \in Reqs : OtherCopy(c) => OtherCopy(c)'
    BY <1>3 DEF OtherCopy
  <2>. QED  BY <1>3, <2>1 DEF TornBy
<1>6. ASSUME NEW n \in Names PROVE Sound(dir[n])'
  <2>1. Sound(dir[n]) /\ dir[n] \in Dir /\ dir'[n] = dir[n]
    BY <1>1, <1>2 DEF StacksInv
  <2>2. dir[n].temps \subseteq Reqs /\ (dir[n].torn = 0 \/ dir[n].torn \in Reqs)
    BY <2>1, StacksAssumption DEF Dir, Reqs
  <2>3. \A s \in dir[n].temps : req'[s].at # "free" /\ (req'[s].op = "create" => dir[n].gen = s)
    BY <1>3, <2>1, <2>2 DEF Sound, SoundFor
  <2>. QED  BY <1>5, <2>1, <2>2, <2>3 DEF Sound, SoundFor
<1>7. ASSUME NEW r \in Reqs PROVE PointsInv(r)' /\ RunInv(r)' /\ (run'[r].compose = Half => SomeCopy')
  <2>1. PointsInv(r) /\ RunInv(r) /\ run'[r] = run[r] /\ (run[r].compose = Half => SomeCopy)
    BY <1>2 DEF StacksInv
  <2>2. SomeCopy => SomeCopy'
    BY <1>3 DEF SomeCopy
  <2>3. CASE Active(r)
    <3>1. req'[r].at = "failed"
      BY <1>1, <1>2, <2>3 DEF Active, Req
    <3>. QED  BY <1>3, <2>1, <2>2, <3>1 DEF PointsInv, RunInv
  <2>4. CASE ~Active(r)
    BY <1>3, <2>1, <2>2, <2>4 DEF PointsInv, RunInv
  <2>. QED  BY <2>3, <2>4
<1>8. StacksTypeOK'
  <2>1. req' \in [Reqs -> Req]
    BY <1>2, <1>3
  <2>2. lost' \in 0..MaxFaults
    BY <1>1, <1>2, StacksAssumption
  <2>. QED  BY <1>2, <2>1, <2>2 DEF StacksInv, StacksTypeOK, Dir, Req, Run, Points
<1>. QED  BY <1>4, <1>6, <1>7, <1>8 DEF StacksInv

(* Every step keeps the invariant. *)
LEMMA NextStacksInv == StacksInv /\ [StacksNext]_stackVars => StacksInv'
<1> SUFFICES ASSUME StacksInv, [StacksNext]_stackVars PROVE StacksInv'
  OBVIOUS
<1>1. CASE UNCHANGED stackVars
  <2>1. UNCHANGED <<uses, agent, dir, meta, rows, req, run, lost, mixed>>
    BY <1>1 DEF stackVars
  <2>2. StacksTypeOK'
    BY <2>1 DEF StacksInv, StacksTypeOK
  <2>. QED  BY <2>1, <2>2, SameFiles DEF StacksInv
<1>2. CASE StacksNext
  <2>1. CASE \E r \in Reqs : Step(r)
    BY <2>1, MakeDirStep, WriteSteps, MoveSteps, RemoveSteps, CopySteps, UnlinkEnvStep, RecordStep, ReadSteps,
       ResultSteps DEF Step
  <2>2. CASE \E r \in Reqs : \/ WriteFails(r) \/ FillFails(r) \/ SendFails(r) \/ StreamBreaks(r) \/ TimesOut(r)
                             \/ Acknowledged(r) \/ DeployComplete(r) \/ LoseComplete(r)
                             \/ \E outcome \in Finals : ComposeEnds(r, outcome)
    BY <2>2, WriteSteps, CopySteps, ResultSteps
  <2>3. CASE (\E n \in Names : DropRow(n)) \/ Crash
    BY <2>3, DropRowStep, CrashStep
  <2>. QED  BY <1>2, <2>1, <2>2, <2>3, EndpointSteps DEF StacksNext
<1>. QED  BY <1>1, <1>2

(* The inductive invariant of stacks, for any number of names and          *)
(* requests, every mix of operations and any number of faults: what is on  *)
(* disk, file by file, wherever a request stands or was cut off.           *)
THEOREM StacksInvariant == StacksSpec => []StacksInv
BY InitStacksInv, NextStacksInv, PTL DEF StacksSpec

(* Half a compose file is only ever made by a copy, and left by one that   *)
(* has failed or has met another copy; and an env file is sent only with a *)
(* compose file that refers to it.                                         *)
THEOREM ShippedFilesAreWholeHolds == StacksSpec => []ShippedFilesAreWhole
<1>1. StacksInv => ShippedFilesAreWhole
  <2> SUFFICES ASSUME StacksInv PROVE ShippedFilesAreWhole
    OBVIOUS
  <2>1. OnlyReferencedIsShipped /\ StacksTypeOK
    BY DEF StacksInv, RunInv, OnlyReferencedIsShipped
  <2>2. ASSUME NEW n \in Names, dir[n].torn # 0
        PROVE  /\ req[dir[n].torn].op = "copy"
               /\ req[dir[n].torn].at \in {"record", "done"} => \E s \in Reqs \ {dir[n].torn} : req[s].op = "copy"
    <3>1. Sound(dir[n]) /\ dir[n] \in Dir
      BY StacksTyped DEF StacksInv
    <3>2. dir[n].torn \in Reqs /\ TornBy(dir[n].torn)
      BY <2>2, <3>1, StacksAssumption DEF Sound, SoundFor, Dir, Reqs
    <3>3. PointsInv(dir[n].torn)
      BY <3>2 DEF StacksInv
    <3>. QED  BY <3>2, <3>3 DEF TornBy, OtherCopy, PointsInv
  <2>3. \A r \in Reqs : run[r].compose = Half => \E s \in Reqs : req[s].op = "copy"
    BY DEF StacksInv, SomeCopy
  <2>4. FilesAreWhole
    BY <2>2, <2>3 DEF FilesAreWhole
  <2>. QED  BY <2>1, <2>4 DEF ShippedFilesAreWhole
<1>. QED  BY <1>1, StacksInvariant, PTL

(* A deployment is reported as running, or as partly so, only if that is   *)
(* how its docker compose run ended.                                       *)
THEOREM ReportIsTrueHolds == StacksSpec => []ReportIsTrue
<1>1. StacksInv => ReportIsTrue
  BY DEF StacksInv, RunInv, ReportIsTrue
<1>. QED  BY <1>1, StacksInvariant, PTL

(* Only three steps put a compose file in the place of another one. *)
LEMMA WhoReplaces ==
  ASSUME StacksInv, StacksNext, NEW r \in Reqs, NEW n \in Names,
         dir[n].compose # 0, dir'[n].compose \notin {0, dir[n].compose}, req'[r].at # req[r].at
  PROVE  WriteCompose(r) \/ MoveFiles(r) \/ req[r].op = "copy"
<1>1. dir' # dir
  OBVIOUS
<1>2. /\ req \in [Reqs -> Req] /\ dir \in [Names -> Dir] /\ dir[n] \in Dir /\ dir[n].is
      /\ \A s \in Reqs : PointsInv(s)
  <2>1. Sound(dir[n])
    BY DEF StacksInv
  <2>2. dir[n].is
    BY <2>1 DEF Sound, SoundFor, NoDir
  <2>. QED  BY <2>2, RequestFacts
<1>3. NoDir.compose = 0
  BY DEF NoDir
<1>4. PICK s \in Reqs : \/ MakeDir(s) \/ WriteCompose(s) \/ WriteEnv(s) \/ WriteFails(s) \/ MoveFiles(s)
                        \/ RemoveDir(s) \/ CopyBegins(s) \/ FillFile(s) \/ UnlinkEnv(s)
                        \/ \E f \in {"compose", "env", "temp"} : RemoveFile(s, f) \/ CopyFile(s, f)
  <2>1. \A s \in Reqs : ~(\/ MoveChecks(s) \/ RemoveFiles(s) \/ CopyEnds(s) \/ FillFails(s) \/ Record(s)
                          \/ ReadCompose(s) \/ ReadEnv(s) \/ Send(s) \/ StreamCompletes(s)
                          \/ SendFails(s) \/ StreamBreaks(s) \/ TimesOut(s) \/ Acknowledged(s)
                          \/ DeployComplete(s) \/ LoseComplete(s) \/ \E outcome \in Finals : ComposeEnds(s, outcome))
    BY <1>1 DEF MoveChecks, RemoveFiles, CopyEnds, FillFails, Record, ReadCompose, ReadEnv, Send, StreamCompletes,
                SendFails, StreamBreaks, TimesOut, Acknowledged, DeployComplete, LoseComplete, ComposeEnds
  <2>2. ~Crash /\ \A m \in Names : ~DropRow(m)
    BY <1>1 DEF Crash, DropRow
  <2>3. \A s \in Reqs : \A q, at : ~Begin(s, q, at)
    BY <1>1 DEF Begin
  <2>4. ASSUME NEW s \in Reqs, NEW m \in Names
        PROVE  ~(\/ \E ref \in BOOLEAN, env \in BOOLEAN :
                      \/ CreateStack(s, m, ref, env) \/ UpdateStack(s, m, ref, env)
                      \/ \E op \in Imports, user \in Users : ImportDeployment(s, op, m, ref, env, user)
                 \/ \E k \in Names : RenameStack(s, m, k) \/ CopyStack(s, m, k)
                 \/ DeleteStack(s, m) \/ DeleteEnvFile(s, m) \/ DeployStack(s, m) \/ CreateDeployment(s, m))
    BY <2>3 DEF CreateStack, UpdateStack, ImportDeployment, RenameStack, CopyStack, DeleteStack, DeleteEnvFile,
                DeployStack, CreateDeployment
  <2>. QED  BY <2>1, <2>2, <2>4 DEF StacksNext, Step
<1>5. r = s
  <2>1. \A t \in Reqs \ {s} : req'[t] = req[t]
    BY <1>2, <1>4 DEF MakeDir, WriteCompose, WriteEnv, WriteFails, MoveFiles, RemoveDir, RemoveFile, CopyBegins,
                      CopyFile, FillFile, UnlinkEnv, To
  <2>. QED  BY <2>1
<1>6. PICK k \in Names : k = req[s].name
  BY RequestFacts
<1>7. ~MakeDir(s)
  <2>1. ASSUME MakeDir(s), k = n PROVE dir'[n].compose = dir[n].compose
    BY <1>2, <1>6, <2>1 DEF MakeDir, Made, Dir
  <2>2. ASSUME MakeDir(s), k # n PROVE dir'[n] = dir[n]
    BY <1>2, <1>6, <2>2 DEF MakeDir
  <2>. QED  BY <2>1, <2>2
<1>8. ~WriteEnv(s) /\ ~WriteFails(s) /\ ~UnlinkEnv(s)
  <2>1. WriteEnv(s) => dir'[n].compose = dir[n].compose
    BY <1>2, <1>6 DEF WriteEnv, Dir
  <2>2. WriteFails(s) => dir'[n].compose = dir[n].compose
    BY <1>2, <1>6 DEF WriteFails, Dir
  <2>3. UnlinkEnv(s) => dir'[n].compose = dir[n].compose
    BY <1>2, <1>6 DEF UnlinkEnv, Dir
  <2>. QED  BY <2>1, <2>2, <2>3
<1>9. ~RemoveDir(s) /\ \A f \in {"compose", "env", "temp"} : ~RemoveFile(s, f)
  <2>1. RemoveDir(s) => dir'[n] = dir[n] \/ dir'[n] = NoDir
    BY <1>2, <1>6 DEF RemoveDir
  <2>2. ASSUME NEW f \in {"compose", "env", "temp"}, RemoveFile(s, f)
        PROVE  dir'[n].compose \in {0, dir[n].compose}
    <3>1. dir'[n] = dir[n] \/ dir'[n] = Without(dir[n], f)
      BY <2>2 DEF RemoveFile
    <3>. QED  BY <1>2, <3>1 DEF Without, Dir
  <2>. QED  BY <1>3, <2>1, <2>2
<1>10. CopyBegins(s) \/ FillFile(s) \/ (\E f \in {"compose", "env", "temp"} : CopyFile(s, f)) => req[s].op = "copy"
  BY <1>2 DEF CopyBegins, FillFile, CopyFile, PointsInv
<1>. QED  BY <1>4, <1>5, <1>7, <1>8, <1>9, <1>10

(* A create replaces only what was written into the directory it made, and *)
(* a rename nothing, whatever the other requests do meanwhile.             *)
THEOREM NothingIsReplacedHolds == StacksSpec => NothingIsReplaced
<1> DEFINE A == \A r \in Reqs :
                  /\ req[r].op = "create" /\ Replaces(r, req[r].name) =>
                       dir[req[r].name].gen = r /\ req[r].name \in mixed
                  /\ req[r].op = "rename" => ~Replaces(r, req[r].dest)
<1>1. ASSUME StacksInv, StacksNext, NEW r \in Reqs, req[r].op = "create", Replaces(r, req[r].name)
      PROVE  dir[req[r].name].gen = r /\ req[r].name \in mixed
  <2>1. PICK n \in Names : n = req[r].name
    BY <1>1, RequestFacts
  <2>2. /\ dir[n].compose # 0 /\ dir'[n].compose \notin {0, dir[n].compose} /\ req'[r].at # req[r].at
    BY <1>1, <2>1 DEF Replaces
  <2>3. PointsInv(r) /\ CreateInv(r) /\ Sound(dir[n])
    BY <1>1, RequestFacts
  <2>4. WriteCompose(r)
    BY <1>1, <2>2, <2>3, WhoReplaces DEF MoveFiles, PointsInv
  <2>5. r \in dir[n].temps
    BY <2>1, <2>2, <2>4 DEF WriteCompose, Writable
  <2>6. dir[n].gen = r
    BY <1>1, <2>3, <2>5 DEF Sound, SoundFor
  <2>7. n \in mixed
    BY <1>1, <2>1, <2>2, <2>3, <2>4, <2>6 DEF CreateInv, WriteCompose
  <2>. QED  BY <2>1, <2>6, <2>7
<1>2. ASSUME StacksInv, StacksNext, NEW r \in Reqs, req[r].op = "rename", Replaces(r, req[r].dest)
      PROVE  FALSE
  <2>1. PICK n \in Names, m \in Names : n = req[r].name /\ m = req[r].dest
    BY <1>2, RequestFacts
  <2>2. /\ dir[m].compose # 0 /\ dir'[m].compose \notin {0, dir[m].compose} /\ req'[r].at # req[r].at
    BY <1>2, <2>1 DEF Replaces
  <2>3. PointsInv(r) /\ Sound(dir[m])
    BY <1>2, RequestFacts
  <2>4. MoveFiles(r)
    BY <1>2, <2>2, <2>3, WhoReplaces DEF WriteCompose, PointsInv, Imports
  <2>5. Movable(n, m)
    BY <2>1, <2>2, <2>4 DEF MoveFiles
  <2>. QED  BY <2>2, <2>3, <2>5 DEF Movable, Empty, Sound, SoundFor, NoDir
<1>3. StacksInv /\ [StacksNext]_stackVars => [A]_stackVars
  <2>1. StacksInv /\ StacksNext => A
    BY <1>1, <1>2
  <2> HIDE DEF A
  <2>. QED  BY <2>1
<1>. QED  BY <1>3, StacksInvariant, PTL DEF StacksSpec, NothingIsReplaced
=============================================================================
