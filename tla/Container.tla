------------------------------ MODULE Container ------------------------------
(***************************************************************************)
(* One instance of a scanner template, its containers and the port they    *)
(* share, over several runs of the orchestrator                            *)
(* (internal/scheduler/scanner_instance.go, internal/docker_utils/utils.go *)
(* and, in the container, pkg/slave or scanner_openvas/adapter.py).  The   *)
(* containers use the host's network and every run counts its ports and    *)
(* names from the start, so that the container of run r + 1 has the name   *)
(* and the port of a container that run r has left behind.                 *)
(*                                                                         *)
(* Dispatch assumes one run in which a container that has registered       *)
(* listens; here that is a question.                                       *)
(***************************************************************************)
EXTENDS Naturals, Sequences

CONSTANTS
    MaxRuns,   \* bound: runs of the orchestrator
    MaxPosts   \* bound: artifacts the instance sends in a run

ASSUME ContainerAssumption == MaxRuns \in Nat \ {0} /\ MaxPosts \in Nat

Run == 1..MaxRuns
Task == Run \X (1..MaxPosts)   \* the k-th artifact sent in a run
NoTask == <<0, 0>>

VARIABLES
    kind,       \* what the container is made of: pkg/slave or adapter.py
    run,        \* the current run; its container has its number
    instance,   \* the instance's place in Run, or "dead" with the process
    mail,       \* messages in its control channel; what they say is not read
    posts,      \* artifacts sent in this run
    docker,     \* docker[r]: the container's state
    server,     \* server[r]: its HTTP server, which must bind the port
    registrar,  \* registrar[r]: the thread that sleeps and then registers
    queue,      \* queue[r]: tasks that wait for the work function's mutex
    doing,      \* doing[r]: the task that holds the mutex, or NoTask
    phase,      \* phase[r]: "work" until the work function returns, "done" after
    clean,      \* history: the runs that began with no container running
    ended,      \* history: ended[r]: how run r ended
    broken      \* history: the tasks whose work was cut off

masterVars == <<kind, run, instance, mail, posts>>
boxVars == <<docker, server, registrar>>
workVars == <<queue, doing, phase>>
containerHistory == <<clean, ended, broken>>
containerVars == <<masterVars, boxVars, workVars, containerHistory>>

ContainerInit ==
    /\ kind \in {"go", "python"}
    /\ run = 1 /\ instance = "start" /\ mail = 0 /\ posts = 0
    /\ docker = [r \in Run |-> "none"]
    /\ server = [r \in Run |-> "starting"] /\ registrar = [r \in Run |-> "sleeping"]
    /\ queue = [r \in Run |-> {}] /\ doing = [r \in Run |-> NoTask]
    /\ phase = [r \in Run |-> "done"]
    /\ clean = {1} /\ ended = [r \in Run |-> "no"] /\ broken = {}

Alive == instance # "dead"
Running(r) == docker[r] = "running"
Listens(r) == Running(r) /\ server[r] = "listening"
Tasks(r) == queue[r] \cup ({doing[r]} \ {NoTask})

(* The container ends, and the tasks in it.                                *)
Ends(r, state) ==
    /\ docker' = [docker EXCEPT ![r] = state]
    /\ queue' = [queue EXCEPT ![r] = {}] /\ doing' = [doing EXCEPT ![r] = NoTask]
    /\ phase' = [phase EXCEPT ![r] = "done"]
    /\ broken' = broken \cup Tasks(r)

-----------------------------------------------------------------------------
(* The container starts.                                                   *)

RunContainer ==
    /\ instance = "start"
    /\ instance' = "register"
    /\ docker' = [docker EXCEPT ![run] = "running"]
    /\ UNCHANGED <<kind, run, mail, posts, server, registrar, workVars, containerHistory>>

(* echo.Start or app.run: the port may be taken.  A Go program then exits; *)
(* in Python only the main thread does, until the registrar is done too.   *)
Bind(r) ==
    LET taken == \E q \in Run \ {r} : Listens(q)
    IN  /\ Running(r) /\ server[r] = "starting"
        /\ server' = [server EXCEPT ![r] = IF taken THEN "failed" ELSE "listening"]
        /\ docker' = IF taken /\ (kind = "go" \/ registrar[r] = "done")
                     THEN [docker EXCEPT ![r] = "exited"] ELSE docker
        /\ UNCHANGED <<masterVars, registrar, workVars, containerHistory>>

(* A message to the master, who may be gone: the sender panics or raises.  *)
Send == mail' = IF Alive THEN mail + 1 ELSE mail

(* Variant: the thread does not sleep.                                     *)
Register_AtOnce(r) ==
    /\ Running(r) /\ registrar[r] = "sleeping"
    /\ registrar' = [registrar EXCEPT ![r] = "done"]
    /\ Send
    /\ IF server[r] = "failed" \/ (kind = "go" /\ ~Alive)
       THEN Ends(r, "exited") ELSE UNCHANGED <<docker, workVars, broken>>
    /\ UNCHANGED <<kind, run, instance, posts, server, clean, ended>>

(* Assumed of the machine: the sleep outlasts the binding of the port.     *)
Register(r) ==
    /\ Running(r) /\ registrar[r] = "sleeping"
    /\ server[r] # "starting"
    /\ registrar' = [registrar EXCEPT ![r] = "done"]
    /\ Send
    /\ IF server[r] = "failed" \/ (kind = "go" /\ ~Alive)
       THEN Ends(r, "exited") ELSE UNCHANGED <<docker, workVars, broken>>
    /\ UNCHANGED <<kind, run, instance, posts, server, clean, ended>>

-----------------------------------------------------------------------------
(* The instance.  waitForRegister and waitForFinishTask take any message:  *)
(* their check is false for all that is routed to the instance.            *)

TakeMessage(from) ==
    /\ instance = from /\ mail > 0
    /\ mail' = mail - 1
    /\ instance' = "idle"
    /\ UNCHANGED <<kind, run, posts, boxVars, workVars, containerHistory>>

waitForRegister == TakeMessage("register")
waitForFinishTask == TakeMessage("wait")

(* The artifact reaches whoever listens at the port.                       *)
SendArtifact ==
    /\ instance = "idle" /\ posts < MaxPosts
    /\ \E r \in Run : Listens(r) /\ queue' = [queue EXCEPT ![r] = @ \cup {<<run, posts + 1>>}]
    /\ posts' = posts + 1
    /\ instance' = "wait"
    /\ UNCHANGED <<kind, run, mail, boxVars, doing, phase, containerHistory>>

(* log.Fatal: the process ends, and no deferred call stops a container.    *)
SendArtifactRefused ==
    /\ instance = "idle" /\ posts < MaxPosts
    /\ \A r \in Run : ~Listens(r)
    /\ instance' = "dead"
    /\ ended' = [ended EXCEPT ![run] = "refused"]
    /\ UNCHANGED <<kind, run, mail, posts, boxVars, workVars, clean, broken>>

-----------------------------------------------------------------------------
(* The tasks in a container, one at a time.                                *)

(* Variant: the message is sent by the handler, before the work.           *)
BeginWork_MessageFirst(r) ==
    /\ Running(r) /\ doing[r] = NoTask
    /\ \E t \in queue[r] : queue' = [queue EXCEPT ![r] = @ \ {t}] /\ doing' = [doing EXCEPT ![r] = t]
    /\ phase' = [phase EXCEPT ![r] = "work"]
    /\ Send
    /\ UNCHANGED <<kind, run, instance, posts, boxVars, containerHistory>>

BeginWork(r) ==
    /\ Running(r) /\ doing[r] = NoTask
    /\ \E t \in queue[r] : queue' = [queue EXCEPT ![r] = @ \ {t}] /\ doing' = [doing EXCEPT ![r] = t]
    /\ phase' = [phase EXCEPT ![r] = "work"]
    /\ UNCHANGED <<masterVars, boxVars, containerHistory>>

WorkReturns(r) ==
    /\ Running(r) /\ phase[r] = "work"
    /\ phase' = [phase EXCEPT ![r] = "done"]
    /\ UNCHANGED <<masterVars, boxVars, queue, doing, containerHistory>>

(* A panic ends a Go container, an exception only the thread, which        *)
(* releases the mutex and sends nothing.                                   *)
WorkFails(r) ==
    /\ Running(r) /\ phase[r] = "work"
    /\ IF kind = "go"
       THEN Ends(r, "exited")
       ELSE /\ doing' = [doing EXCEPT ![r] = NoTask]
            /\ phase' = [phase EXCEPT ![r] = "done"]
            /\ broken' = broken \cup {doing[r]}
            /\ UNCHANGED <<docker, queue>>
    /\ UNCHANGED <<masterVars, server, registrar, clean, ended>>

SendMsgFinishTask(r) ==
    /\ Running(r) /\ doing[r] # NoTask /\ phase[r] = "done"
    /\ Send
    /\ IF kind = "go" /\ ~Alive
       THEN Ends(r, "exited")
       ELSE /\ doing' = [doing EXCEPT ![r] = NoTask]
            /\ UNCHANGED <<docker, queue, phase, broken>>
    /\ UNCHANGED <<kind, run, instance, posts, server, registrar, clean, ended>>

-----------------------------------------------------------------------------
(* The end of a run: the scheduler closes the template, and the deferred   *)
(* calls of Run are made, the last one first.                              *)

(* Variant: the defers are the other way round, and a running container    *)
(* cannot be removed.                                                      *)
StopContainer_RemoveFirst ==
    /\ instance = "idle"
    /\ IF Running(run)
       THEN /\ instance' = "dead"
            /\ ended' = [ended EXCEPT ![run] = "error"]
            /\ UNCHANGED <<docker, workVars, broken>>
       ELSE /\ instance' = "stopped"
            /\ Ends(run, "exited")
            /\ UNCHANGED ended
    /\ UNCHANGED <<kind, run, mail, posts, server, registrar, clean>>

StopContainer ==
    /\ instance = "idle"
    /\ instance' = "stopped"
    /\ Ends(run, "exited")
    /\ UNCHANGED <<kind, run, mail, posts, server, registrar, clean, ended>>

RemoveContainer ==
    /\ instance = "stopped"
    /\ instance' = "exited"
    /\ docker' = [docker EXCEPT ![run] = "removed"]
    /\ ended' = [ended EXCEPT ![run] = "normally"]
    /\ UNCHANGED <<kind, run, mail, posts, server, registrar, workVars, clean, broken>>

(* Some other goroutine's log.Fatal, or a signal.                          *)
MasterDies ==
    /\ instance \notin {"dead", "exited"}
    /\ instance' = "dead"
    /\ ended' = [ended EXCEPT ![run] = "killed"]
    /\ UNCHANGED <<kind, run, mail, posts, boxVars, workVars, clean, broken>>

Over == instance \in {"dead", "exited"}

(* The operator starts the next run, perhaps after stop_scanners.sh.       *)
Restart ==
    /\ Over /\ run < MaxRuns
    /\ run' = run + 1 /\ instance' = "start" /\ mail' = 0 /\ posts' = 0
    /\ clean' = IF \E r \in Run : Running(r) THEN clean ELSE clean \cup {run + 1}
    /\ UNCHANGED <<kind, boxVars, workVars, ended, broken>>

StopScanners(r) ==
    /\ Over /\ docker[r] \in {"running", "exited"}
    /\ Ends(r, "removed")
    /\ UNCHANGED <<masterVars, server, registrar, clean, ended>>

-----------------------------------------------------------------------------
MasterStep == waitForRegister \/ waitForFinishTask \/ RunContainer
OperatorStep ==
    \/ SendArtifact \/ SendArtifactRefused
    \/ StopContainer \/ RemoveContainer \/ MasterDies \/ Restart
    \/ \E r \in Run : StopScanners(r)
ContainerStep(r) == Bind(r) \/ Register(r) \/ SendMsgFinishTask(r)

(* Types: a container's number is its run's, a task is in one place.       *)
ContainerTypeOK ==
    /\ kind \in {"go", "python"} /\ run \in Run /\ mail \in Nat /\ posts \in 0..MaxPosts
    /\ instance \in {"start", "register", "idle", "wait", "stopped", "exited", "dead"}
    /\ docker \in [Run -> {"none", "running", "exited", "removed"}]
    /\ server \in [Run -> {"starting", "listening", "failed"}]
    /\ registrar \in [Run -> {"sleeping", "done"}]
    /\ queue \in [Run -> SUBSET Task] /\ doing \in [Run -> Task \cup {NoTask}]
    /\ phase \in [Run -> {"work", "done"}]
    /\ clean \subseteq Run /\ broken \subseteq Task
    /\ ended \in [Run -> {"no", "normally", "killed", "refused", "error"}]
    /\ \A r \in Run : doing[r] \notin queue[r] /\ (phase[r] = "work" => doing[r] # NoTask)

(* A container has work only while it listens, and what it works on was    *)
(* sent, once, and is not cut off.                                         *)
Sent(t) == t[1] < run \/ (t[1] = run /\ t[2] <= posts)
Exclusive ==
    /\ \A r \in Run : Tasks(r) # {} => Listens(r)
    /\ \A r \in Run : \A t \in Tasks(r) : Sent(t) /\ t \notin broken
    /\ \A t \in broken : Sent(t)
    /\ \A q, r \in Run : q # r => Tasks(q) \cap Tasks(r) = {}

(* Nothing is known of the runs to come.                                   *)
Ahead ==
    /\ clean \subseteq 1..run
    /\ \A r \in Run : r > run \/ (r = run /\ instance = "start") =>
          /\ docker[r] = "none" /\ server[r] = "starting" /\ registrar[r] = "sleeping"
          /\ ended[r] = "no"

(* A clean run has one container, and whoever is to speak next is known:   *)
(* the registration, the artifact and the end of its task take turns.      *)
Spoken(n) == registrar[run] = "done" /\ mail = n
ItsTurn ==
    \/ instance = "start" /\ mail = 0
    \/ instance = "register" /\ registrar[run] = "sleeping" /\ mail = 0 /\ Tasks(run) = {}
    \/ instance \in {"register", "wait"} /\ Spoken(1) /\ Tasks(run) = {} /\ Listens(run)
    \/ instance = "idle" /\ Spoken(0) /\ Tasks(run) = {} /\ Listens(run)
    \/ instance = "wait" /\ Spoken(0) /\ \A s, t \in Tasks(run) : s = t
    \/ instance \in {"stopped", "exited", "dead"}
CleanRun ==
    run \in clean =>
        /\ server[run] # "failed" /\ \A q \in Run \ {run} : ~Running(q)
        /\ ItsTurn

(* A run that begins with no container of an earlier one ends by itself    *)
(* or from outside: what it posts is not refused.  The sleep before the    *)
(* registration is all that keeps this true.                               *)
CleanRunsNotRefused == \A r \in clean : ended[r] # "refused"

(* In such a run the instance is ready for the next artifact only when the *)
(* last one is done; a message of an earlier container, which has the same *)
(* name, is taken for the end of the task in any other.                    *)
FinishHonest ==
    run \in clean /\ instance = "idle" => \A r \in Run : \A t \in Tasks(r) : t[1] # run

(* A container outlives its run only if the process ended at once: from    *)
(* outside, or because a post was refused.                                 *)
LeftoversNeedDeath ==
    \A r \in Run : Running(r) /\ (r < run \/ Over) => ended[r] \in {"killed", "refused"}

(* The deferred calls have ended the container.                            *)
Stopped == instance \in {"stopped", "exited"} => ~Running(run)

(* The inductive invariant of the instance and its containers.             *)
ContainerInv ==
    /\ ContainerTypeOK /\ Exclusive /\ Ahead /\ CleanRun
    /\ CleanRunsNotRefused /\ LeftoversNeedDeath
=============================================================================
