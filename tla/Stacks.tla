------------------------------- MODULE Stacks -------------------------------
(***************************************************************************)
(* Stacks on the file system, their metadata, and what is deployed from    *)
(* them: the requests of stack_routes.py and routes.py run as coroutines   *)
(* that give way at every await, and do their file operations in worker    *)
(* threads.  A stack directory holds a compose file and, besides .env, one *)
(* env file that the compose file may or may not refer to.  Content is     *)
(* named by the request that wrote it.  Files are written under a name of  *)
(* their own and renamed, but a copy of a stack writes them in place, and  *)
(* directories are copied and removed one file after the other.  The state *)
(* machine of a persistent deployment is the subject of Deployment; here   *)
(* deploy_stack starts transient ones.                                     *)
(***************************************************************************)
EXTENDS Naturals, FiniteSets

CONSTANTS
    Names,          \* names of stacks
    N,              \* bound: number of requests
    Scenarios,      \* bound: the operations that are used together
    MaxRequests,    \* bound, for each scenario: number of requests
    MaxFaults       \* bound: failing writes, lost events, broken streams, crashes

ASSUME StacksAssumption ==
    /\ IsFiniteSet(Names) /\ Names # {}
    /\ N \in Nat /\ MaxFaults \in Nat /\ MaxRequests \in [Scenarios -> 0..N]

Reqs == 1..N
Old == N + 1        \* content that was there at the beginning
Half == N + 2       \* part of a compose file
Imports == {"import", "overwrite", "existing"}
Ops == Imports \cup {"create", "update", "rename", "delete", "copy", "deploy", "deployment", "delenv"}
Users == 1..2

VARIABLES
    uses,       \* the operations in use
    agent,      \* the host is reached through an agent
    dir,        \* /app/data/stacks
    meta,       \* names with a row in stack_metadata
    rows,       \* deployments of the host: user who owns the row, 0 for none
    req,        \* the requests
    run,        \* docker compose, started by a deploy request
    lost,       \* number of faults so far
    mixed       \* history: names on which requests overlapped

stackVars == <<uses, agent, dir, meta, rows, req, run, lost, mixed>>

First == CHOOSE n \in Names : TRUE
\* A directory: the request that made it, its files (temps: the requests that
\* have a temporary one there), whether the compose file refers to the env file,
\* and the copy that has yet to write the rest of the compose file.
NoDir == [is |-> FALSE, gen |-> 0, compose |-> 0, ref |-> FALSE, env |-> 0, temps |-> {}, torn |-> 0]
\* A request; gen is the directory that it removes, left what it has yet to copy
\* or to remove of it ("broken" is a failure).
NoReq == [at |-> "free", op |-> "delete", name |-> First, dest |-> First, ref |-> FALSE,
          env |-> FALSE, user |-> 1, gen |-> 0, left |-> {}, final |-> {}]
NoRun == [at |-> "none", compose |-> 0, ref |-> FALSE, env |-> 0, told |-> FALSE]
Finals == {"running", "partial", "failed"}
Content == 0..Old
Entries == {"compose", "env", "temp", "broken"}

StacksTypeOK ==
    /\ uses \in Scenarios /\ agent \in BOOLEAN
    /\ dir \in [Names -> [is : BOOLEAN, gen : Content, compose : Content, ref : BOOLEAN, env : Content,
                        temps : SUBSET Reqs, torn : 0..N]]
    /\ meta \subseteq Names /\ mixed \subseteq Names
    /\ rows \in [Names -> Users \cup {0}] /\ lost \in 0..MaxFaults
    /\ req \in [Reqs -> [at : {"free", "write", "compose", "env", "record", "move", "moving", "remove", "removing",
                               "copy", "copying", "filling", "unlink", "read", "readenv", "send", "run", "done",
                               "failed"},
                         op : Ops, name : Names, dest : Names, ref : BOOLEAN, env : BOOLEAN, user : Users,
                         gen : Content, left : SUBSET Entries, final : SUBSET Finals]]
    /\ run \in [Reqs -> [at : {"none", "going"} \cup Finals, compose : Content \cup {Half}, ref : BOOLEAN,
                         env : Content, told : BOOLEAN]]

(* One of the names has a stack, made by create_stack. *)
StacksInit ==
    /\ uses \in Scenarios /\ agent \in BOOLEAN /\ (agent => "deploy" \in uses)
    /\ \E ref \in BOOLEAN :
         /\ ref => "deploy" \in uses
         /\ dir = [n \in Names |-> IF n # First THEN NoDir
                                   ELSE [NoDir EXCEPT !.is = TRUE, !.gen = Old, !.compose = Old, !.ref = ref,
                                                      !.env = Old]]
    /\ meta = {First}
    /\ rows = [n \in Names |-> 0]
    /\ req = [r \in Reqs |-> NoReq] /\ run = [r \in Reqs |-> NoRun]
    /\ lost = 0 /\ mixed = {}

Active(r) == req[r].at \notin {"free", "done", "failed"}
Touches(q) == IF q.op \in {"rename", "copy"} THEN {q.name, q.dest} ELSE {q.name}
Fault == lost < MaxFaults /\ lost' = lost + 1
To(r, at) == req' = [req EXCEPT ![r].at = at]

(* stack_exists and find_stack_by_name look for the compose file. *)
Exists(n) == dir[n].is /\ dir[n].compose # 0

----------------------------------------------------------------------------
(* The names on which a request meets another one. *)
Met(q) == {n \in Touches(q) : \E s \in Reqs : Active(s) /\ req[s].op # "deploy" /\ n \in Touches(req[s])}

(* A request comes in, and is at "at" after its first checks; "failed" is  *)
(* an answer with status 400, 404 or 409.  Numbers are given out in order. *)
Begin(r, q, at) ==
    /\ req[r].at = "free" /\ \A s \in Reqs : s < r => req[s].at # "free"
    /\ r <= MaxRequests[uses] /\ q.op \in uses
    /\ q.ref => "deploy" \in uses
    /\ req' = [req EXCEPT ![r] = [q EXCEPT !.at = at]]
    /\ mixed' = IF q.op = "deploy" THEN mixed ELSE mixed \cup Met(q)
    /\ UNCHANGED <<uses, agent, dir, meta, rows, run, lost>>

On(op, n) == [NoReq EXCEPT !.op = op, !.name = n, !.dest = n]
IfExists(n, at) == IF Exists(n) THEN at ELSE "failed"

CreateStack(r, n, ref, env) == Begin(r, [On("create", n) EXCEPT !.ref = ref, !.env = env], "write")
UpdateStack(r, n, ref, env) == Begin(r, [On("update", n) EXCEPT !.ref = ref, !.env = env], IfExists(n, "write"))
RenameStack(r, n, m) ==
    m # n /\ Begin(r, [On("rename", n) EXCEPT !.dest = m], IF Exists(m) THEN "failed" ELSE IfExists(n, "move"))
CopyStack(r, n, m) == m # n /\ Begin(r, [On("copy", n) EXCEPT !.dest = m], "copy")
DeleteStack(r, n) == Begin(r, On("delete", n), IfExists(n, "remove"))
DeleteEnvFile(r, n) == Begin(r, On("delenv", n), IfExists(n, "unlink"))
DeployStack(r, n) == Begin(r, On("deploy", n), IfExists(n, "read"))
CreateDeployment(r, n) == Begin(r, On("deployment", n), IfExists(n, "record"))

(* With neither overwrite_stack nor use_existing_stack the user is asked   *)
(* what to do about a stack that exists.                                   *)
ImportDeployment(r, op, n, ref, env, user) ==
    Begin(r, [On(op, n) EXCEPT !.ref = ref, !.env = env, !.user = user],
          CASE op = "import" -> IF Exists(n) THEN "failed" ELSE "write"
            [] op = "overwrite" -> "write"
            [] op = "existing" -> IF Exists(n) THEN "record" ELSE "write")

----------------------------------------------------------------------------
(* write_stack, for create, update and import. *)

(* Mutant: create_only is not passed on. *)
MayMakeAlways(r) == TRUE

(* mkdir with exist_ok = not create_only. *)
MayMake(r) == req[r].op = "create" => ~dir[req[r].name].is

(* Mutant: the file is opened for writing under its own name. *)
MadeInPlace(r) ==
    LET n == req[r].name IN
    IF dir[n].is THEN [dir[n] EXCEPT !.temps = @ \cup {r}, !.torn = r]
    ELSE [NoDir EXCEPT !.is = TRUE, !.gen = r, !.temps = {r}, !.torn = r]

(* The directory, with a temporary file in it. *)
Made(r) ==
    LET n == req[r].name IN
    IF dir[n].is THEN [dir[n] EXCEPT !.temps = @ \cup {r}]
    ELSE [NoDir EXCEPT !.is = TRUE, !.gen = r, !.temps = {r}]

MakeDir(r) ==
    LET n == req[r].name IN
    /\ req[r].at = "write"
    /\ IF MayMake(r)
         THEN dir' = [dir EXCEPT ![n] = Made(r)] /\ To(r, "compose")
         ELSE To(r, "failed") /\ UNCHANGED dir
    /\ UNCHANGED <<uses, agent, meta, rows, run, lost, mixed>>

(* _atomic_write_file: the temporary file is gone from there if the        *)
(* directory was renamed or removed.                                       *)
Writable(r) == r \in dir[req[r].name].temps

WriteCompose(r) ==
    LET n == req[r].name IN
    /\ req[r].at = "compose"
    /\ IF Writable(r)
         THEN /\ dir' = [dir EXCEPT ![n].compose = r, ![n].ref = req[r].ref, ![n].torn = 0,
                                 ![n].temps = IF req[r].env THEN @ ELSE @ \ {r}]
              /\ To(r, IF req[r].env THEN "env" ELSE "record")
         ELSE To(r, "failed") /\ UNCHANGED dir
    /\ UNCHANGED <<uses, agent, meta, rows, run, lost, mixed>>

WriteEnv(r) ==
    LET n == req[r].name IN
    /\ req[r].at = "env"
    /\ IF Writable(r)
         THEN dir' = [dir EXCEPT ![n].env = r, ![n].temps = @ \ {r}] /\ To(r, "record")
         ELSE To(r, "failed") /\ UNCHANGED dir
    /\ UNCHANGED <<uses, agent, meta, rows, run, lost, mixed>>

(* The disk is full; the temporary file is unlinked. *)
WriteFails(r) ==
    /\ req[r].at \in {"compose", "env"} /\ Fault
    /\ dir' = [dir EXCEPT ![req[r].name].temps = @ \ {r}] /\ To(r, "failed")
    /\ UNCHANGED <<uses, agent, meta, rows, run, mixed>>

----------------------------------------------------------------------------
(* rename_stack_files, in a thread: a check, then rename(2), which         *)
(* replaces an empty directory only.                                       *)
MoveChecks(r) ==
    /\ req[r].at = "move"
    /\ To(r, IF dir[req[r].name].is /\ ~dir[req[r].dest].is THEN "moving" ELSE "failed")
    /\ UNCHANGED <<uses, agent, dir, meta, rows, run, lost, mixed>>

Empty(d) == d.compose = 0 /\ d.env = 0 /\ d.temps = {}
Movable(n, m) == dir[n].is /\ (dir[m].is => Empty(dir[m]))

MoveFiles(r) ==
    LET n == req[r].name
        m == req[r].dest
    IN  /\ req[r].at = "moving"
        /\ IF Movable(n, m)
             THEN dir' = [dir EXCEPT ![m] = dir[n], ![n] = NoDir] /\ To(r, "record")
             ELSE To(r, "failed") /\ UNCHANGED dir
        /\ UNCHANGED <<uses, agent, meta, rows, run, lost, mixed>>

(* What scandir finds in a directory. *)
Listed(d) == {f \in {"compose", "env"} : d[f] # 0} \cup {f \in {"temp"} : d.temps # {}}

(* delete_stack_files: rmtree opens the directory and lists it, if it is   *)
(* there, ...                                                              *)
RemoveFiles(r) ==
    LET d == dir[req[r].name] IN
    /\ req[r].at = "remove"
    /\ req' = [req EXCEPT ![r].at = IF d.is THEN "removing" ELSE "record", ![r].gen = d.gen,
                          ![r].left = IF d.is THEN Listed(d) ELSE {}]
    /\ UNCHANGED <<uses, agent, dir, meta, rows, run, lost, mixed>>

Without(d, f) ==
    CASE f = "compose" -> [d EXCEPT !.compose = 0, !.torn = 0]
      [] f = "env" -> [d EXCEPT !.env = 0]
      [] f = "temp" -> [d EXCEPT !.temps = {}]

(* ... removes one file after the other from the directory that it has     *)
(* open, under whatever name this is now (what is not there is skipped),   *)
RemoveFile(r, f) ==
    /\ req[r].at = "removing" /\ f \in req[r].left
    /\ dir' = [n \in Names |-> IF dir[n].gen = req[r].gen THEN Without(dir[n], f) ELSE dir[n]]
    /\ req' = [req EXCEPT ![r].left = @ \ {f}]
    /\ UNCHANGED <<uses, agent, meta, rows, run, lost, mixed>>

(* ... and at last what is under its name, if that is empty.               *)
RemoveDir(r) ==
    LET n == req[r].name IN
    /\ req[r].at = "removing" /\ req[r].left = {}
    /\ IF dir[n].is /\ Empty(dir[n])
         THEN dir' = [dir EXCEPT ![n] = NoDir] /\ To(r, "record")
         ELSE To(r, "failed") /\ UNCHANGED dir
    /\ UNCHANGED <<uses, agent, meta, rows, run, lost, mixed>>

(* copy_stack: copytree lists the directory and makes another one, ...     *)
CopyBegins(r) ==
    LET n == req[r].name
        m == req[r].dest
    IN  /\ req[r].at = "copy"
        /\ IF dir[n].is /\ ~dir[m].is
             THEN /\ dir' = [dir EXCEPT ![m] = [NoDir EXCEPT !.is = TRUE, !.gen = r]]
                  /\ req' = [req EXCEPT ![r].at = "copying", ![r].left = Listed(dir[n])]
             ELSE To(r, "failed") /\ UNCHANGED dir
        /\ UNCHANGED <<uses, agent, meta, rows, run, lost, mixed>>

Copied(r, f, d) ==
    CASE f = "compose" -> [dir[req[r].dest] EXCEPT !.compose = d.compose, !.ref = d.ref, !.torn = r]
      [] f = "env" -> [dir[req[r].dest] EXCEPT !.env = d.env]
      [] f = "temp" -> dir[req[r].dest]

(* ... opens and copies one file after the other, by their names (the      *)
(* compose file is there as soon as it is opened; of half a file, half is  *)
(* copied), goes on after an error, ...                                    *)
CopyFile(r, f) ==
    LET d == dir[req[r].name]
        m == req[r].dest
    IN  /\ req[r].at = "copying" /\ f \in req[r].left \ {"broken"}
        /\ IF d.is /\ f \in Listed(d) /\ dir[m].is
             THEN /\ dir' = [dir EXCEPT ![m] = Copied(r, f, d)]
                  /\ req' = [req EXCEPT ![r].at = IF f = "compose" /\ d.torn = 0 THEN "filling" ELSE "copying",
                                        ![r].left = @ \ {f}]
             ELSE /\ req' = [req EXCEPT ![r].left = (@ \ {f}) \cup {"broken"}]
                  /\ UNCHANGED dir
        /\ UNCHANGED <<uses, agent, meta, rows, run, lost, mixed>>

Filled(r) == [n \in Names |-> IF dir[n].torn = r THEN [dir[n] EXCEPT !.torn = 0] ELSE dir[n]]

FillFile(r) ==
    /\ req[r].at = "filling"
    /\ dir' = Filled(r) /\ To(r, "copying")
    /\ UNCHANGED <<uses, agent, meta, rows, run, lost, mixed>>

(* The disk is full; what was written stays. *)
FillFails(r) ==
    /\ req[r].at = "filling" /\ Fault
    /\ req' = [req EXCEPT ![r].at = "copying", ![r].left = @ \cup {"broken"}]
    /\ UNCHANGED <<uses, agent, dir, meta, rows, run, mixed>>

(* ... and raises in the end if there was one.                             *)
CopyEnds(r) ==
    /\ req[r].at = "copying" /\ req[r].left \subseteq {"broken"}
    /\ To(r, IF req[r].left = {} /\ dir[req[r].name].is /\ dir[req[r].dest].is THEN "record" ELSE "failed")
    /\ UNCHANGED <<uses, agent, dir, meta, rows, run, lost, mixed>>

(* delete_env_file: the file is managed, since it is referred to or found. *)
UnlinkEnv(r) ==
    LET n == req[r].name IN
    /\ req[r].at = "unlink"
    /\ dir' = IF Exists(n) THEN [dir EXCEPT ![n].env = 0] ELSE dir
    /\ To(r, "done")
    /\ UNCHANGED <<uses, agent, meta, rows, run, lost, mixed>>

----------------------------------------------------------------------------
(* The rows a request writes when its files are done; a second row with    *)
(* the same key is refused.                                                *)
Refused(r) ==
    LET q == req[r] IN
    \/ q.op = "create" /\ q.name \in meta
    \/ q.op \in {"rename", "copy"} /\ q.dest \in meta
    \/ q.op = "deployment" /\ rows[q.name] # 0
    \/ q.op \in Imports /\ rows[q.name] \notin {0, q.user}

Recorded(q) ==
    CASE q.op \in {"create", "update"} -> meta \cup {q.name}
      [] q.op = "delete" -> meta \ {q.name}
      [] q.op = "copy" -> meta \cup {q.dest}
      [] q.op = "rename" -> (meta \ {q.name}) \cup {q.dest}
      [] OTHER -> meta

(* import_deployment inserts a deployment and links the containers. *)
Owned(q) == IF q.op \in Imports \cup {"deployment"} THEN [rows EXCEPT ![q.name] = q.user] ELSE rows

Record(r) ==
    LET q == req[r] IN
    /\ q.at = "record"
    /\ IF Refused(r) THEN To(r, "failed") /\ UNCHANGED <<meta, rows>>
       ELSE meta' = Recorded(q) /\ rows' = Owned(q) /\ To(r, "done")
    /\ UNCHANGED <<uses, agent, dir, run, lost, mixed>>

(* delete_deployment of a row that is not in progress. *)
DropRow(n) ==
    /\ "deployment" \in uses /\ Fault
    /\ rows[n] # 0 /\ rows' = [rows EXCEPT ![n] = 0]
    /\ UNCHANGED <<uses, agent, dir, meta, req, run, mixed>>

----------------------------------------------------------------------------
(* deploy_stack: read_stack reads the compose file, then the env file.     *)
(* Half a compose file may refer to the env file if the file does.         *)
ReadCompose(r) ==
    LET n == req[r].name IN
    /\ req[r].at = "read"
    /\ IF Exists(n)
         THEN /\ \E ref \in IF dir[n].torn = 0 THEN {dir[n].ref} ELSE {dir[n].ref, FALSE} :
                   run' = [run EXCEPT ![r].compose = IF dir[n].torn = 0 THEN dir[n].compose ELSE Half, ![r].ref = ref]
              /\ To(r, "readenv")
         ELSE To(r, "failed") /\ UNCHANGED run
    /\ UNCHANGED <<uses, agent, dir, meta, rows, lost, mixed>>

(* Files that are found in the directory are shown, and not deployed. *)
Shipped(r) == IF run[r].ref THEN dir[req[r].name].env ELSE 0

ReadEnv(r) ==
    /\ req[r].at = "readenv"
    /\ run' = [run EXCEPT ![r].env = Shipped(r)]
    /\ To(r, "send")
    /\ UNCHANGED <<uses, agent, dir, meta, rows, lost, mixed>>

(* The background task sends the request to the compose service, or the    *)
(* command to the agent.                                                   *)
Send(r) ==
    /\ req[r].at = "send"
    /\ run' = [run EXCEPT ![r].at = "going"]
    /\ To(r, "run")
    /\ UNCHANGED <<uses, agent, dir, meta, rows, lost, mixed>>

Tell(r, status, at) == req' = [req EXCEPT ![r].at = at, ![r].final = @ \cup {status}]

(* The service cannot be reached; the agent is not connected, too old for  *)
(* env files, or the compose file needs a build.                           *)
SendFails(r) ==
    /\ req[r].at = "send" /\ Fault
    /\ Tell(r, "failed", "done")
    /\ UNCHANGED <<uses, agent, dir, meta, rows, run, mixed>>

(* Docker compose ends. *)
ComposeEnds(r, outcome) ==
    /\ run[r].at = "going"
    /\ run' = [run EXCEPT ![r].at = outcome]
    /\ UNCHANGED <<uses, agent, dir, meta, rows, req, lost, mixed>>

(* The event "complete" of the stream. *)
StreamCompletes(r) ==
    /\ ~agent /\ req[r].at = "run" /\ run[r].at \in Finals
    /\ Tell(r, run[r].at, "done")
    /\ UNCHANGED <<uses, agent, dir, meta, rows, run, lost, mixed>>

(* Mutant: a stream that ends early is not reported. *)
StreamBreaksSilently(r) ==
    /\ ~agent /\ req[r].at = "run" /\ Fault
    /\ To(r, "done")
    /\ UNCHANGED <<uses, agent, dir, meta, rows, run, mixed>>

(* The stream ends without that event, or nothing is read for 30 seconds.  *)
StreamBreaks(r) ==
    /\ ~agent /\ req[r].at = "run" /\ Fault
    /\ Tell(r, "failed", "done")
    /\ UNCHANGED <<uses, agent, dir, meta, rows, run, mixed>>

(* 1860 seconds for the stream, 1800 for the agent's acknowledgement. *)
TimesOut(r) ==
    /\ req[r].at = "run"
    /\ Tell(r, "failed", "done")
    /\ UNCHANGED <<uses, agent, dir, meta, rows, run, lost, mixed>>

(* The agent acknowledges the command; the result comes by itself. *)
Acknowledged(r) ==
    /\ agent /\ req[r].at = "run"
    /\ To(r, "done")
    /\ UNCHANGED <<uses, agent, dir, meta, rows, run, lost, mixed>>

(* handle_deploy_complete, for a transient id. *)
DeployComplete(r) ==
    /\ agent /\ run[r].at \in Finals /\ ~run[r].told
    /\ run' = [run EXCEPT ![r].told = TRUE]
    /\ Tell(r, run[r].at, req[r].at)
    /\ UNCHANGED <<uses, agent, dir, meta, rows, lost, mixed>>

LoseComplete(r) ==
    /\ agent /\ run[r].at \in Finals /\ ~run[r].told /\ Fault
    /\ run' = [run EXCEPT ![r].told = TRUE]
    /\ UNCHANGED <<uses, agent, dir, meta, rows, req, mixed>>

(* The backend is restarted: the requests are cut off, and their threads.  *)
Crash ==
    /\ Fault /\ \E r \in Reqs : Active(r)
    /\ req' = [r \in Reqs |-> IF Active(r) THEN [req[r] EXCEPT !.at = "failed"] ELSE req[r]]
    /\ UNCHANGED <<uses, agent, dir, meta, rows, run, mixed>>

----------------------------------------------------------------------------
Step(r) ==
    \/ MakeDir(r) \/ WriteCompose(r) \/ WriteEnv(r) \/ MoveChecks(r) \/ MoveFiles(r) \/ RemoveFiles(r) \/ RemoveDir(r)
    \/ CopyBegins(r) \/ FillFile(r) \/ CopyEnds(r) \/ UnlinkEnv(r) \/ Record(r)
    \/ \E f \in {"compose", "env", "temp"} : RemoveFile(r, f) \/ CopyFile(r, f)
    \/ ReadCompose(r) \/ ReadEnv(r) \/ Send(r) \/ StreamCompletes(r)

StacksNext ==
    \/ \E r \in Reqs, n \in Names :
         \/ \E ref \in BOOLEAN, env \in BOOLEAN :
              \/ CreateStack(r, n, ref, env) \/ UpdateStack(r, n, ref, env)
              \/ \E op \in Imports, user \in Users : ImportDeployment(r, op, n, ref, env, user)
         \/ \E m \in Names : RenameStack(r, n, m) \/ CopyStack(r, n, m)
         \/ DeleteStack(r, n) \/ DeleteEnvFile(r, n) \/ DeployStack(r, n) \/ CreateDeployment(r, n)
    \/ \E r \in Reqs : \/ Step(r) \/ WriteFails(r) \/ FillFails(r) \/ SendFails(r) \/ StreamBreaks(r) \/ TimesOut(r)
                       \/ Acknowledged(r) \/ DeployComplete(r) \/ LoseComplete(r)
                       \/ \E outcome \in Finals : ComposeEnds(r, outcome)
    \/ \E n \in Names : DropRow(n)
    \/ Crash

(* Coroutines and threads go on, and both clients have a timeout. *)
StacksFairness == \A r \in Reqs : WF_stackVars(Step(r)) /\ WF_stackVars(TimesOut(r))

StacksSpec == StacksInit /\ [][StacksNext]_stackVars /\ StacksFairness

----------------------------------------------------------------------------
(* However requests overlap or are cut off, half a compose file is only    *)
(* ever made by a copy, and met only where there was one.  A copy that     *)
(* succeeds has made a whole file, unless it has copied what another copy  *)
(* had not finished.                                                       *)
FilesAreWhole ==
    /\ \A n \in Names : dir[n].torn # 0 =>
         LET c == req[dir[n].torn] IN
         c.op = "copy" /\ (c.at \in {"record", "done"} => \E s \in Reqs \ {dir[n].torn} : req[s].op = "copy")
    /\ \A r \in Reqs : run[r].compose = Half => \E s \in Reqs : req[s].op = "copy"

(* An env file reaches a host only if the compose file that is deployed    *)
(* with it refers to it, also if the stack is edited while it is read.     *)
OnlyReferencedIsShipped == \A r \in Reqs : run[r].env # 0 => run[r].ref

(* What is deployed was read as somebody wrote it. *)
ShippedFilesAreWhole == StacksTypeOK /\ FilesAreWhole /\ OnlyReferencedIsShipped

(* "running" is reported only for a deployment whose compose run has       *)
(* succeeded, whatever other deployments of the stack do.                  *)
ReportIsTrue == \A r \in Reqs : req[r].final \cap {"running", "partial"} \subseteq {run[r].at}

(* Creating a stack and renaming one never replace the compose file of     *)
(* another stack, in whatever order the steps come.  All that a create may *)
(* replace is what a request that overlapped with it (an import, a copy,   *)
(* an update let in before the stack was deleted) has written into the     *)
(* directory that the create has made itself.                              *)
Replaces(r, n) == dir[n].compose # 0 /\ dir'[n].compose \notin {0, dir[n].compose} /\ req'[r].at # req[r].at
NothingIsReplaced ==
    [][\A r \in Reqs :
         /\ req[r].op = "create" /\ Replaces(r, req[r].name) =>
              dir[req[r].name].gen = r /\ req[r].name \in mixed
         /\ req[r].op = "rename" => ~Replaces(r, req[r].dest)]_stackVars

(* On a direct host every deployment that was accepted is reported as      *)
(* completed or as failed, unless the backend is restarted.                *)
DeployIsReported ==
    \A r \in Reqs : (~agent /\ req[r].at = "run") ~> (req[r].final # {} \/ req[r].at = "failed")

(* Every deployment is reported, and truly. *)
DeploysAreReported == []ReportIsTrue /\ DeployIsReported

(* "Atomic operations (create_only, rename, copy, delete)": a stack that   *)
(* is being copied is not deployed by halves.                              *)
NoHalfStackIsDeployed == \A r \in Reqs : run[r].at # "none" => run[r].compose # Half

(* "Create metadata if it doesn't exist (for pre-v2.3.0 stacks)": a stack  *)
(* made since then has its row, when no request is under way.              *)
StacksAreRecorded == (\A r \in Reqs : ~Active(r)) => \A n \in Names : Exists(n) => n \in meta

(* "with create_only: the stack already exists" is what a create is        *)
(* refused for, when no other request is under way.                        *)
NoNameIsBlocked == (\A r \in Reqs : ~Active(r)) => \A n \in Names : dir[n].is => Exists(n)
=============================================================================
