----------------------------- MODULE Supervisor -----------------------------
(***************************************************************************)
(* supervise_services.py and discovery.py: a supervisor that starts a      *)
(* group of services, registers it in a state file, watches it, cleans up  *)
(* and restarts it; the services; and the registry that answers requests   *)
(* from the state file.  Each group has its epoch.  SIGTERM raises         *)
(* KeyboardInterrupt wherever the supervisor is, SIGKILL ends it there.    *)
(* Time limits (readiness, grace period) may expire at any moment.         *)
(***************************************************************************)
EXTENDS Integers, FiniteSets

CONSTANTS
  N,           \* services of the group, in the order of the configuration
  Announcing,  \* services with a "ready" text
  Completion,  \* the completion service, 0 for none
  Restarts,    \* --restarts
  MaxEpochs,   \* bound: groups started
  MaxSignals,  \* bound: SIGTERMs sent to supervisors
  MaxKills     \* bound: supervisors killed

ASSUME SupervisorAssumption ==
  /\ N \in 1..64 /\ Announcing \subseteq 1..N /\ Completion \in 0..N
  /\ Restarts \in Nat /\ MaxEpochs \in Nat \ {0}
  /\ MaxSignals \in Nat /\ MaxKills \in Nat

Services == 1..N
Epochs == 1..MaxEpochs
Processes == Epochs \X Services

VARIABLES
  pc,         \* where the supervisor is
  i,          \* the service its loop is at
  children,   \* length of the list children
  epoch,      \* the current group
  base,       \* first group of the current supervisor process
  outcome,    \* how the body of run() ended: "return", "error" or "interrupt"
  code,       \* exit status of the services of the group: "none", "ok" or "bad"
  announced,  \* services of the group that have printed their "ready" text
  termed,     \* services of the group that were sent SIGTERM
  running,    \* the processes that run, also those of earlier groups
  recycled,   \* ended processes whose pid now belongs to a stranger
  file,       \* epoch in the state file, 0 if there is none
  dpc, found, checked,  \* a registry request: its state, epoch and progress
  ended,      \* history: services of that epoch that had ended when it began
  signals, kills

supervisorVars == <<pc, i, children, epoch, base, outcome>>
groupVars == <<code, announced, termed>>
processVars == <<running, recycled>>
registryVars == <<dpc, found, checked, ended>>
faultVars == <<signals, kills>>
vars == <<supervisorVars, groupVars, processVars, file, registryVars, faultVars>>

Init ==
  /\ pc = "start" /\ i = 1 /\ children = 0 /\ epoch = 1 /\ base = 1 /\ outcome = "return"
  /\ code = [c \in Services |-> "none"] /\ announced = {} /\ termed = {}
  /\ running = {} /\ recycled = {} /\ file = 0
  /\ dpc = "idle" /\ found = 0 /\ checked = 0 /\ ended = {}
  /\ signals = 0 /\ kills = 0

-----------------------------------------------------------------------------
(* run(): the body of the try statement. *)

Goto(label) == pc' = label

\* The body ends and the finally clause begins.
Finally(how) ==
  /\ outcome' = how /\ Goto("terminate") /\ i' = 1
  /\ UNCHANGED <<children, epoch, base>>

\* Popen.
Spawn ==
  /\ pc = "start" /\ i <= N
  /\ running' = running \union {<<epoch, i>>}
  /\ Goto("append")
  /\ UNCHANGED <<i, children, epoch, base, outcome, groupVars, recycled, file,
                 registryVars, faultVars>>

\* Popen raises OSError.
SpawnFails ==
  /\ pc = "start" /\ i <= N
  /\ Finally("error")
  /\ UNCHANGED <<groupVars, processVars, file, registryVars, faultVars>>

\* The process is entered into children; a service with a text is waited for.
AppendChild ==
  /\ pc = "append"
  /\ children' = i
  /\ IF i \in Announcing THEN Goto("wait") /\ UNCHANGED i
                         ELSE Goto("start") /\ i' = i + 1
  /\ UNCHANGED <<epoch, base, outcome, groupVars, processVars, file, registryVars, faultVars>>

\* The text was seen and no check of that round failed.
ServiceReady ==
  /\ pc = "wait"
  /\ i \in announced /\ code[i] = "none"
  /\ \A c \in 1..children : code[c] # "bad"
  /\ Goto("start") /\ i' = i + 1
  /\ UNCHANGED <<children, epoch, base, outcome, groupVars, processVars, file, registryVars, faultVars>>

\* A child failed, the service ended or its readiness deadline passed.
ServiceNotReady ==
  /\ pc = "wait"
  /\ Finally("error")
  /\ UNCHANGED <<groupVars, processVars, file, registryVars, faultVars>>

\* All are started: the children are polled once more, in the order of the list.
AllStarted ==
  /\ pc = "start" /\ i = N + 1
  /\ Goto("check") /\ i' = 1
  /\ UNCHANGED <<children, epoch, base, outcome, groupVars, processVars, file, registryVars, faultVars>>

\* run() returns if the completion service has ended well, and fails otherwise.
ChildEnded ==
  Finally(IF code[i] = "ok" /\ i = Completion THEN "return" ELSE "error")

\* One poll: the first child found to have ended decides.
CheckStarted ==
  /\ pc = "check"
  /\ \/ /\ code[i] = "none" /\ i' = i + 1
        /\ Goto(IF i = N THEN "publish" ELSE "check")
        /\ UNCHANGED <<children, epoch, base, outcome>>
     \/ code[i] # "none" /\ ChildEnded
  /\ UNCHANGED <<groupVars, processVars, file, registryVars, faultVars>>

\* The state file is replaced atomically, or cannot be written.
Publish ==
  /\ pc = "publish"
  /\ \/ file' = epoch /\ Goto("watch") /\ i' = 1 /\ UNCHANGED <<children, epoch, base, outcome>>
     \/ Finally("error") /\ UNCHANGED file
  /\ UNCHANGED <<groupVars, processVars, registryVars, faultVars>>

\* A child that makes the watch loop end: with a completion service, another one
\* may end with status 0.
Deciding(c) == code[c] = "bad" \/ (code[c] = "ok" /\ Completion \in {0, c})

\* One poll of the watch loop, which goes round the list.
Watch ==
  /\ pc = "watch"
  /\ \/ ~Deciding(i) /\ i' = (i % N) + 1 /\ UNCHANGED <<pc, children, epoch, base, outcome>>
     \/ Deciding(i) /\ ChildEnded
  /\ UNCHANGED <<groupVars, processVars, file, registryVars, faultVars>>

-----------------------------------------------------------------------------
(* The finally clause, and main(). *)

Terminate ==
  /\ pc = "terminate" /\ i <= children
  /\ termed' = IF code[i] = "none" THEN termed \union {i} ELSE termed
  /\ i' = i + 1
  /\ UNCHANGED <<pc, children, epoch, base, outcome, code, announced, processVars,
                 file, registryVars, faultVars>>

\* Mutant: the wait for the children has no deadline.
GraceUnbounded ==
  /\ pc = "terminate" /\ i = children + 1 /\ \A c \in 1..children : code[c] # "none"
  /\ Goto("kill") /\ i' = 1
  /\ UNCHANGED <<children, epoch, base, outcome, groupVars, processVars, file, registryVars, faultVars>>

\* The grace period ends, with every child or after five seconds.
Grace ==
  /\ pc = "terminate" /\ i = children + 1
  /\ Goto("kill") /\ i' = 1
  /\ UNCHANGED <<children, epoch, base, outcome, groupVars, processVars, file, registryVars, faultVars>>

\* kill() and wait() for the services in S.
KillIn(S) ==
  /\ code' = [c \in Services |-> IF c \in S /\ code[c] = "none" THEN "bad" ELSE code[c]]
  /\ running' = running \ ({epoch} \X S)
  /\ i' = i + 1
  /\ UNCHANGED <<pc, children, epoch, base, outcome, announced, termed, recycled, file,
                 registryVars, faultVars>>

\* Mutant: the last child is neither killed nor waited for.
KillAllButLast == pc = "kill" /\ i <= children /\ KillIn({i} \ {children})

Kill == pc = "kill" /\ i <= children /\ KillIn({i})

\* Mutant: the registration is removed only when run() has not failed.
UnlinkAfterReturn ==
  /\ pc = "kill" /\ i = children + 1
  /\ file' = IF file = epoch /\ outcome # "error" THEN 0 ELSE file
  /\ Goto("decide")
  /\ UNCHANGED <<i, children, epoch, base, outcome, groupVars, processVars, registryVars, faultVars>>

\* The state file is removed if it is of this epoch.
UnlinkState ==
  /\ pc = "kill" /\ i = children + 1
  /\ file' = IF file = epoch THEN 0 ELSE file
  /\ Goto("decide")
  /\ UNCHANGED <<i, children, epoch, base, outcome, groupVars, processVars, registryVars, faultVars>>

\* main() returns, gives up or exits after KeyboardInterrupt.
Leave ==
  /\ pc = "decide" /\ (outcome = "error" => epoch - base = Restarts)
  /\ Goto(CASE outcome = "return" -> "ok"
            [] outcome = "error" -> "failed"
            [] outcome = "interrupt" -> "stopped")
  /\ UNCHANGED <<i, children, epoch, base, outcome, groupVars, processVars, file, registryVars, faultVars>>

\* A group begins with empty lists and a new epoch.
NewGroup ==
  /\ epoch < MaxEpochs /\ epoch' = epoch + 1
  /\ Goto("start") /\ i' = 1 /\ children' = 0 /\ outcome' = "return"
  /\ code' = [c \in Services |-> "none"] /\ announced' = {} /\ termed' = {}
  /\ UNCHANGED <<processVars, file, registryVars, faultVars>>

\* main() restarts the group after its sleep.
Restart ==
  /\ pc = "decide" /\ outcome = "error" /\ epoch - base < Restarts
  /\ NewGroup /\ UNCHANGED base

Exits == {"ok", "failed", "stopped", "killed"}

\* The operator starts another supervisor.
Relaunch == pc \in Exits /\ NewGroup /\ base' = epoch + 1

\* SIGTERM: the body of run() goes to its finally clause; the finally clause
\* and main()'s sleep are left at once.
Sigterm ==
  /\ signals < MaxSignals /\ signals' = signals + 1
  /\ \/ pc \in {"start", "append", "wait", "check", "publish", "watch"} /\ Finally("interrupt")
     \/ /\ pc \in {"terminate", "kill", "decide"}
        /\ Goto("stopped") /\ outcome' = "interrupt"
        /\ UNCHANGED <<i, children, epoch, base>>
  /\ UNCHANGED <<groupVars, processVars, file, registryVars, kills>>

\* The supervisor is killed.
Sigkill ==
  /\ pc \notin Exits /\ kills < MaxKills /\ kills' = kills + 1
  /\ Goto("killed")
  /\ UNCHANGED <<i, children, epoch, base, outcome, groupVars, processVars, file, registryVars, signals>>

-----------------------------------------------------------------------------
(* The services. *)

Announce(c) ==
  /\ <<epoch, c>> \in running /\ c \in Announcing \ announced
  /\ announced' = announced \union {c}
  /\ UNCHANGED <<supervisorVars, code, termed, processVars, file, registryVars, faultVars>>

ServiceExits(p) ==
  /\ p \in running
  /\ running' = running \ {p}
  /\ \E status \in {"ok", "bad"} :
       code' = IF p[1] = epoch THEN [code EXCEPT ![p[2]] = status] ELSE code
  /\ UNCHANGED <<supervisorVars, announced, termed, recycled, file, registryVars, faultVars>>

HasEnded(p) == p \notin running /\ (p[1] = epoch => code[p[2]] # "none")

\* The pid of a registered process that was waited for is given to a stranger.
Recycle(p) ==
  /\ p[1] \in {file, found} /\ HasEnded(p) /\ p \notin recycled
  /\ p[1] # epoch \/ pc \in Exits \union {"watch", "terminate", "kill", "decide"}
  /\ recycled' = recycled \union {p}
  /\ UNCHANGED <<supervisorVars, groupVars, running, file, registryVars, faultVars>>

-----------------------------------------------------------------------------
(* Handler.do_GET of the registry. *)

EndRequest == dpc' = "idle" /\ found' = 0 /\ checked' = 0 /\ ended' = {}

\* The state file is read; without one the answer is 503.
Request ==
  /\ dpc = "idle" /\ file # 0
  /\ dpc' = "check" /\ found' = file /\ checked' = 0
  /\ ended' = {c \in Services : HasEnded(<<file, c>>)}
  /\ UNCHANGED <<supervisorVars, groupVars, processVars, file, faultVars>>

\* Mutant: any process with the pid will do.
ValidPid(p) == p \in running \union recycled

\* The pid is there, is no zombie and has the start time of the registration.
Valid(p) == p \in running

\* The next service is checked: the answer is 503 if it is gone, 200 after the last.
CheckService ==
  /\ dpc = "check"
  /\ IF Valid(<<found, checked + 1>>)
     THEN /\ checked' = checked + 1
          /\ dpc' = IF checked' = N THEN "ok" ELSE "check"
          /\ UNCHANGED <<found, ended>>
     ELSE EndRequest
  /\ UNCHANGED <<supervisorVars, groupVars, processVars, file, faultVars>>

\* The group has been sent to the client.
Answered ==
  /\ dpc = "ok" /\ EndRequest
  /\ UNCHANGED <<supervisorVars, groupVars, processVars, file, faultVars>>

Supervise ==
  \/ Spawn \/ SpawnFails \/ AppendChild \/ ServiceReady \/ ServiceNotReady
  \/ AllStarted \/ CheckStarted \/ Publish \/ Watch
  \/ Terminate \/ Grace \/ Kill \/ UnlinkState \/ Leave \/ Restart

Next ==
  \/ Supervise \/ Relaunch \/ Sigterm \/ Sigkill
  \/ \E c \in Services : Announce(c)
  \/ \E p \in Processes : ServiceExits(p) \/ Recycle(p)
  \/ Request \/ CheckService \/ Answered

Spec == Init /\ [][Next]_vars

\* The supervisor's own steps are taken: its waits have deadlines.
FairSpec == Spec /\ WF_vars(Supervise)

-----------------------------------------------------------------------------
(* Properties. *)

\* A restarted group never overlaps with the one before it, and a supervisor
\* that returns or gives up leaves no service running: the finally clause kills
\* and waits for every child.
NoneLeftBehind ==
  \A p \in running : p[1] < base \/ (p[1] = epoch /\ pc \notin {"ok", "failed"})

\* The state file names the group that is being watched, never one this supervisor
\* has ended nor one that is still starting: it is written after the last readiness
\* check and removed before the restart or exit, except when that clean-up itself
\* is cut short.  A file of an earlier supervisor is there only after a signal, and
\* no longer than until the next group is registered.
RegistrationCurrent ==
  /\ file >= base => file = epoch /\ pc \in {"watch", "terminate", "kill", "stopped", "killed"}
  /\ pc = "watch" => file = epoch
  /\ file # 0 /\ file < base => signals + kills > 0

\* Discovery answers 200 only for a group of which no service had ended when
\* the request came, whatever supervisors were killed, restarted or replaced and
\* whichever pids were reused.
AnswersAreFresh == dpc = "ok" => ended = {}

\* A supervisor that got SIGTERM exits, also if services ignore theirs.
ShutdownEnds == outcome = "interrupt" ~> pc \in Exits

\* A supervisor stopped by SIGTERM has sent SIGTERM to every service of its
\* groups that is still running: the manager terminates children on shutdown.
ShutdownTerminatesChildren ==
  pc = "stopped" => \A p \in running : p[1] < base \/ (p[1] = epoch /\ p[2] \in termed)
=============================================================================
