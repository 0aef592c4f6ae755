--------------------------- MODULE OpenVASProofs ---------------------------
(***************************************************************************)
(* Proofs about a scanner instance, its containers over several runs, and  *)
(* the manager of OpenVAS: what a process that ended at once leaves behind *)
(* does not reach a run that begins clean, a scan has one task at the      *)
(* manager, and its clean-up is complete.                                  *)
(***************************************************************************)
EXTENDS OpenVAS, TLAPS

-----------------------------------------------------------------------------
(* The containers.                                                         *)

(* Numbers of runs and artifacts.                                          *)
LEMMA RunNumbers ==
    /\ Run \subseteq Nat /\ 0 \notin Run /\ 1 \in Run
    /\ \A t \in Task : t[1] \in Nat /\ t[2] \in Nat /\ t # NoTask
    /\ \A n \in Run, k \in 1..MaxPosts : <<n, k>> \in Task
<1>1. Run \subseteq Nat /\ 0 \notin Run /\ 1 \in Run
  BY ContainerAssumption DEF Run
<1>2. \A t \in Task : t[1] \in Run /\ t[2] \in 1..MaxPosts /\ t = <<t[1], t[2]>>
  BY DEF Task
<1>3. \A t \in Task : t[1] \in Nat /\ t[2] \in Nat /\ t # NoTask
  BY <1>1, <1>2, ContainerAssumption DEF NoTask
<1>4. \A n \in Run, k \in 1..MaxPosts : <<n, k>> \in Task
  BY DEF Task
<1> QED
  BY <1>1, <1>3, <1>4

(* A step that leaves every task where it is, and no container that works  *)
(* is taken off its port.                                                  *)
LEMMA TasksStay ==
    ASSUME ContainerTypeOK, Exclusive, UNCHANGED <<queue, doing, broken>>,
           \A r \in Run : Tasks(r) # {} /\ Listens(r) => Listens(r)',
           \A t \in Task : Sent(t) => Sent(t)'
    PROVE  Exclusive' /\ \A r \in Run : Tasks(r)' = Tasks(r)
<1>1. \A r \in Run : Tasks(r)' = Tasks(r) /\ Tasks(r) \subseteq Task
  BY DEF Tasks, ContainerTypeOK
<1>2. broken \subseteq Task
  BY DEF ContainerTypeOK
<1> QED
  BY <1>1, <1>2 DEF Exclusive

(* What the end of a container changes.                                    *)
LEMMA EndsOne ==
    ASSUME ContainerTypeOK, NEW r \in Run, NEW state \in {"exited", "removed"}, Ends(r, state)
    PROVE  /\ docker' \in [Run -> {"none", "running", "exited", "removed"}]
           /\ queue' \in [Run -> SUBSET Task] /\ doing' \in [Run -> Task \cup {NoTask}]
           /\ phase' \in [Run -> {"work", "done"}] /\ broken' \subseteq Task
           /\ docker'[r] = state /\ Tasks(r)' = {} /\ phase'[r] = "done"
           /\ \A q \in Run \ {r} : /\ docker'[q] = docker[q] /\ queue'[q] = queue[q]
                                   /\ doing'[q] = doing[q] /\ phase'[q] = phase[q]
                                   /\ Tasks(q)' = Tasks(q)
           /\ broken' = broken \cup Tasks(r)
           /\ \A q \in Run : doing'[q] \notin queue'[q] /\ (phase'[q] = "work" => doing'[q] # NoTask)
<1>1. /\ docker \in [Run -> {"none", "running", "exited", "removed"}]
      /\ queue \in [Run -> SUBSET Task] /\ doing \in [Run -> Task \cup {NoTask}]
      /\ phase \in [Run -> {"work", "done"}] /\ broken \subseteq Task
      /\ \A q \in Run : doing[q] \notin queue[q] /\ (phase[q] = "work" => doing[q] # NoTask)
  BY DEF ContainerTypeOK
<1>2. /\ docker' = [docker EXCEPT ![r] = state] /\ queue' = [queue EXCEPT ![r] = {}]
      /\ doing' = [doing EXCEPT ![r] = NoTask] /\ phase' = [phase EXCEPT ![r] = "done"]
      /\ broken' = broken \cup Tasks(r)
  BY DEF Ends
<1>3. Tasks(r) \subseteq Task
  BY <1>1 DEF Tasks
<1>4. /\ docker' \in [Run -> {"none", "running", "exited", "removed"}]
      /\ queue' \in [Run -> SUBSET Task] /\ doing' \in [Run -> Task \cup {NoTask}]
      /\ phase' \in [Run -> {"work", "done"}] /\ broken' \subseteq Task
  BY <1>1, <1>2, <1>3
<1>5. /\ docker'[r] = state /\ queue'[r] = {} /\ doing'[r] = NoTask /\ phase'[r] = "done"
      /\ \A q \in Run \ {r} : /\ docker'[q] = docker[q] /\ queue'[q] = queue[q]
                              /\ doing'[q] = doing[q] /\ phase'[q] = phase[q]
  BY <1>1, <1>2
<1>6. Tasks(r)' = {} /\ \A q \in Run \ {r} : Tasks(q)' = Tasks(q)
  BY <1>5 DEF Tasks
<1>7. \A q \in Run : doing'[q] \notin queue'[q] /\ (phase'[q] = "work" => doing'[q] # NoTask)
  BY <1>1, <1>5
<1> QED
  BY <1>2, <1>4, <1>5, <1>6, <1>7

(* A container that ends takes its tasks with it.                          *)
LEMMA EndsExclusive ==
    ASSUME ContainerTypeOK, Exclusive, NEW r \in Run, NEW state \in {"exited", "removed"},
           Ends(r, state), UNCHANGED <<run, posts, server>>
    PROVE  Exclusive'
<1>1. /\ Tasks(r)' = {} /\ broken' = broken \cup Tasks(r)
      /\ \A q \in Run \ {r} : docker'[q] = docker[q] /\ Tasks(q)' = Tasks(q)
  BY EndsOne
<1>2. \A q \in Run \ {r} : Listens(q)' = Listens(q)
  BY <1>1 DEF Listens, Running
<1>3. \A t : Sent(t)' = Sent(t)
  BY DEF Sent
<1> QED
  BY <1>1, <1>2, <1>3 DEF Exclusive

(* Without the history: types.                                             *)
LEMMA TypesUntouched ==
    ASSUME ContainerTypeOK,
           UNCHANGED <<kind, run, posts, workVars, containerHistory>>,
           docker' \in [Run -> {"none", "running", "exited", "removed"}],
           server' \in [Run -> {"starting", "listening", "failed"}],
           registrar' \in [Run -> {"sleeping", "done"}],
           mail' \in Nat,
           instance' \in {"start", "register", "idle", "wait", "stopped", "exited", "dead"}
    PROVE  ContainerTypeOK'
BY DEF ContainerTypeOK, workVars, containerHistory

LEMMA StepRunContainer ==
    ASSUME ContainerInv, RunContainer
    PROVE  ContainerInv'
<1>1. /\ instance = "start" /\ instance' = "register"
      /\ docker' = [docker EXCEPT ![run] = "running"]
      /\ UNCHANGED <<kind, run, mail, posts, server, registrar, queue, doing, phase, clean, ended, broken>>
  BY DEF RunContainer, workVars, containerHistory
<1>2. /\ docker \in [Run -> {"none", "running", "exited", "removed"}] /\ run \in Run
      /\ ContainerTypeOK /\ Exclusive
  BY DEF ContainerInv, ContainerTypeOK
<1>3. docker'[run] = "running" /\ \A r \in Run \ {run} : docker'[r] = docker[r]
  BY <1>1, <1>2
<1>4. docker[run] = "none" /\ server[run] = "starting" /\ registrar[run] = "sleeping" /\ ended[run] = "no"
  BY <1>1, <1>2 DEF ContainerInv, Ahead
<1>5. ContainerTypeOK'
  BY <1>1, <1>2, TypesUntouched DEF ContainerTypeOK, workVars, containerHistory
<1>6. Exclusive' /\ \A r \in Run : Tasks(r)' = Tasks(r)
  BY <1>1, <1>2, <1>3, TasksStay DEF Listens, Running, Sent
<1>7. Tasks(run) = {}
  BY <1>2, <1>4 DEF Exclusive, Listens, Running
<1>8. Ahead'
  BY <1>1, <1>2, <1>3, RunNumbers DEF ContainerInv, Ahead
<1>9. CleanRun'
  BY <1>1, <1>2, <1>3, <1>4, <1>6, <1>7 DEF ContainerInv, CleanRun, ItsTurn, Running
<1>10. CleanRunsNotRefused' /\ LeftoversNeedDeath'
  BY <1>1, <1>2, <1>3, RunNumbers DEF ContainerInv, CleanRunsNotRefused, LeftoversNeedDeath, Running, Over
<1> QED
  BY <1>5, <1>6, <1>8, <1>9, <1>10 DEF ContainerInv

LEMMA StepBind ==
    ASSUME ContainerInv, NEW r \in Run, Bind(r)
    PROVE  ContainerInv'
<1>1. /\ Running(r) /\ server[r] = "starting"
      /\ server' = [server EXCEPT ![r] = IF \E q \in Run \ {r} : Listens(q) THEN "failed" ELSE "listening"]
      /\ docker' \in {[docker EXCEPT ![r] = "exited"], docker}
      /\ (~\E q \in Run \ {r} : Listens(q)) => docker' = docker
      /\ UNCHANGED <<kind, run, instance, mail, posts, registrar, queue, doing, phase, clean, ended, broken>>
  BY DEF Bind, masterVars, workVars, containerHistory
<1>2. /\ docker \in [Run -> {"none", "running", "exited", "removed"}] /\ run \in Run
      /\ server \in [Run -> {"starting", "listening", "failed"}]
      /\ ContainerTypeOK /\ Exclusive
  BY DEF ContainerInv, ContainerTypeOK
<1>3. /\ server' \in [Run -> {"starting", "listening", "failed"}]
      /\ docker' \in [Run -> {"none", "running", "exited", "removed"}]
      /\ \A q \in Run \ {r} : server'[q] = server[q] /\ docker'[q] = docker[q]
      /\ docker[r] = "running" /\ docker'[r] \in {"running", "exited"}
      /\ (~\E q \in Run \ {r} : Listens(q)) => server'[r] = "listening"
  BY <1>1, <1>2 DEF Running
<1>4. ContainerTypeOK'
  BY <1>1, <1>2, <1>3, TypesUntouched DEF ContainerTypeOK, workVars, containerHistory
<1>5. Tasks(r) = {}
  BY <1>1, <1>2 DEF Exclusive, Listens
<1>6. \A q \in Run \ {r} : Listens(q)' = Listens(q) /\ Running(q)' = Running(q)
  BY <1>3 DEF Listens, Running
<1>7. Exclusive' /\ \A q \in Run : Tasks(q)' = Tasks(q)
  BY <1>1, <1>2, <1>5, <1>6, TasksStay DEF Sent
<1>8. Ahead'
  BY <1>1, <1>2, <1>3 DEF ContainerInv, Ahead
<1>9. CleanRun'
  <2> SUFFICES ASSUME run \in clean
               PROVE  (server[run] # "failed" /\ (\A q \in Run \ {run} : ~Running(q)) /\ ItsTurn)'
    BY <1>1 DEF CleanRun
  <2>1. server[run] # "failed" /\ (\A q \in Run \ {run} : ~Running(q)) /\ ItsTurn
    BY DEF ContainerInv, CleanRun
  <2>2. r = run
    BY <1>1, <2>1
  <2>3. server'[run] = "listening" /\ docker'[run] = "running"
    BY <1>1, <1>3, <2>1, <2>2 DEF Listens
  <2>4. Listens(run)'
    BY <1>1, <2>3 DEF Listens, Running
  <2>5. (server[run] # "failed" /\ \A q \in Run \ {run} : ~Running(q))'
    BY <1>1, <1>6, <2>1, <2>2, <2>3
  <2>6. ItsTurn'
    BY <1>1, <1>7, <2>1, <2>4, <1>2 DEF ItsTurn, Spoken
  <2> QED
    BY <2>5, <2>6
<1>10. CleanRunsNotRefused' /\ LeftoversNeedDeath'
  BY <1>1, <1>2, <1>3 DEF ContainerInv, CleanRunsNotRefused, LeftoversNeedDeath, Running, Over
<1> QED
  BY <1>4, <1>7, <1>8, <1>9, <1>10 DEF ContainerInv

(* The only message of a clean run before its first task.                  *)
LEMMA StepRegister ==
    ASSUME ContainerInv, NEW r \in Run, Register(r)
    PROVE  ContainerInv'
<1>1. /\ Running(r) /\ registrar[r] = "sleeping" /\ server[r] # "starting"
      /\ registrar' = [registrar EXCEPT ![r] = "done"]
      /\ mail' = IF Alive THEN mail + 1 ELSE mail
      /\ UNCHANGED <<kind, run, instance, posts, server, clean, ended>>
      /\ \/ (server[r] = "failed" \/ ~Alive) /\ Ends(r, "exited")
         \/ UNCHANGED <<docker, queue, doing, phase, broken>>
  BY DEF Register, Send, workVars
<1>2. /\ docker \in [Run -> {"none", "running", "exited", "removed"}] /\ run \in Run
      /\ registrar \in [Run -> {"sleeping", "done"}] /\ mail \in Nat
      /\ server \in [Run -> {"starting", "listening", "failed"}]
      /\ ContainerTypeOK /\ Exclusive
  BY DEF ContainerInv, ContainerTypeOK
<1>3. /\ registrar' \in [Run -> {"sleeping", "done"}] /\ mail' \in Nat
      /\ registrar'[r] = "done" /\ \A q \in Run \ {r} : registrar'[q] = registrar[q]
  BY <1>1, <1>2
<1>4. /\ docker[r] = "running" /\ docker'[r] \in {"running", "exited"}
      /\ \A q \in Run \ {r} : docker'[q] = docker[q] /\ Tasks(q)' = Tasks(q)
  BY <1>1, <1>2, EndsOne DEF Running, Tasks
<1>5. ContainerTypeOK'
  <2>1. CASE Ends(r, "exited")
    <3>1. /\ docker' \in [Run -> {"none", "running", "exited", "removed"}]
          /\ queue' \in [Run -> SUBSET Task] /\ doing' \in [Run -> Task \cup {NoTask}]
          /\ phase' \in [Run -> {"work", "done"}] /\ broken' \subseteq Task
          /\ \A q \in Run : doing'[q] \notin queue'[q] /\ (phase'[q] = "work" => doing'[q] # NoTask)
      BY <1>2, <2>1, EndsOne
    <3> QED
      BY <1>1, <1>2, <1>3, <3>1 DEF ContainerTypeOK
  <2>2. CASE UNCHANGED <<docker, queue, doing, phase, broken>>
    BY <1>1, <1>2, <1>3, <2>2 DEF ContainerTypeOK
  <2> QED
    BY <1>1, <2>1, <2>2
<1>6. Exclusive'
  <2>1. CASE Ends(r, "exited")
    BY <1>1, <1>2, <2>1, EndsExclusive
  <2>2. CASE UNCHANGED <<docker, queue, doing, phase, broken>>
    BY <1>1, <1>2, <2>2, TasksStay DEF Sent, Listens, Running
  <2> QED
    BY <1>1, <2>1, <2>2
<1>7. Ahead'
  BY <1>1, <1>2, <1>3, <1>4 DEF ContainerInv, Ahead
<1>8. CleanRun'
  <2> SUFFICES ASSUME run \in clean
               PROVE  (server[run] # "failed" /\ (\A q \in Run \ {run} : ~Running(q)) /\ ItsTurn)'
    BY <1>1 DEF CleanRun
  <2>1. server[run] # "failed" /\ (\A q \in Run \ {run} : ~Running(q)) /\ ItsTurn
    BY DEF ContainerInv, CleanRun
  <2>2. r = run
    BY <1>1, <2>1
  <2>3. (server[run] # "failed" /\ \A q \in Run \ {run} : ~Running(q))'
    BY <1>1, <1>4, <2>1, <2>2 DEF Running
  <2>4. server[run] = "listening"
    BY <1>1, <1>2, <2>1, <2>2
  <2>5. \/ instance = "start" /\ mail = 0
        \/ instance = "register" /\ mail = 0 /\ Tasks(run) = {}
        \/ instance \in {"stopped", "exited", "dead"}
    BY <1>1, <2>1, <2>2 DEF ItsTurn, Spoken
  <2>6. instance # "start"
    BY <1>1, <1>2, <2>2 DEF ContainerInv, Ahead, Running
  <2>7. CASE instance = "register" /\ mail = 0 /\ Tasks(run) = {}
    <3>1. UNCHANGED <<docker, queue, doing>> /\ mail' = 1
      BY <1>1, <2>2, <2>4, <2>7 DEF Alive
    <3>2. Tasks(run)' = {} /\ Listens(run)'
      BY <1>1, <2>2, <2>4, <2>7, <3>1 DEF Tasks, Listens, Running
    <3> QED
      BY <1>1, <1>3, <2>2, <2>3, <2>7, <3>1, <3>2 DEF ItsTurn, Spoken
  <2>8. CASE instance \in {"stopped", "exited", "dead"}
    BY <1>1, <2>3, <2>8 DEF ItsTurn
  <2> QED
    BY <2>5, <2>6, <2>7, <2>8
<1>9. CleanRunsNotRefused' /\ LeftoversNeedDeath'
  BY <1>1, <1>2, <1>4 DEF ContainerInv, CleanRunsNotRefused, LeftoversNeedDeath, Running, Over
<1> QED
  BY <1>5, <1>6, <1>7, <1>8, <1>9 DEF ContainerInv

LEMMA StepTakeMessage ==
    ASSUME ContainerInv, NEW from \in {"register", "wait"}, TakeMessage(from)
    PROVE  ContainerInv'
<1>1. /\ instance = from /\ mail > 0 /\ mail' = mail - 1 /\ instance' = "idle"
      /\ UNCHANGED <<kind, run, posts, docker, server, registrar, queue, doing, phase, clean, ended, broken>>
  BY DEF TakeMessage, boxVars, workVars, containerHistory
<1>2. mail \in Nat /\ run \in Run /\ ContainerTypeOK /\ Exclusive
  BY DEF ContainerInv, ContainerTypeOK
<1>3. ContainerTypeOK'
  BY <1>1, <1>2 DEF ContainerTypeOK
<1>4. Exclusive' /\ \A q \in Run : Tasks(q)' = Tasks(q)
  BY <1>1, <1>2, TasksStay DEF Sent, Listens, Running
<1>5. Ahead'
  BY <1>1 DEF ContainerInv, Ahead
<1>6. CleanRun'
  BY <1>1, <1>2, <1>4 DEF ContainerInv, CleanRun, ItsTurn, Spoken, Listens, Running
<1>7. CleanRunsNotRefused' /\ LeftoversNeedDeath'
  BY <1>1 DEF ContainerInv, CleanRunsNotRefused, LeftoversNeedDeath, Running, Over
<1> QED
  BY <1>3, <1>4, <1>5, <1>6, <1>7 DEF ContainerInv

(* In a clean run the artifact goes to the run's own container.            *)
LEMMA StepSendArtifact ==
    ASSUME ContainerInv, SendArtifact
    PROVE  ContainerInv'
<1> PICK new : new = <<run, posts + 1>>
  OBVIOUS
<1>1. /\ instance = "idle" /\ posts < MaxPosts /\ posts' = posts + 1 /\ instance' = "wait"
      /\ UNCHANGED <<kind, run, mail, docker, server, registrar, doing, phase, clean, ended, broken>>
  BY DEF SendArtifact, boxVars, containerHistory
<1>2. PICK r \in Run : Listens(r) /\ queue' = [queue EXCEPT ![r] = queue[r] \cup {new}]
  BY DEF SendArtifact
<1>3. /\ run \in Run /\ posts \in Nat /\ posts <= MaxPosts /\ queue \in [Run -> SUBSET Task]
      /\ doing \in [Run -> Task \cup {NoTask}] /\ broken \subseteq Task
      /\ ContainerTypeOK /\ Exclusive
  BY ContainerAssumption DEF ContainerInv, ContainerTypeOK
<1>4. posts + 1 \in 1..MaxPosts /\ posts' \in 0..MaxPosts
  BY <1>1, <1>3, ContainerAssumption
<1>5. new \in Task /\ new # NoTask /\ new[1] = run /\ new[2] = posts + 1
  BY <1>3, <1>4, RunNumbers
<1>6. ~Sent(new) /\ Sent(new)' /\ \A t \in Task : Sent(t) => Sent(t)'
  <2>1. ~Sent(new) /\ Sent(new)'
    BY <1>1, <1>3, <1>5, RunNumbers DEF Sent
  <2>2. ASSUME NEW t \in Task, Sent(t) PROVE Sent(t)'
    <3>1. t[2] \in Nat
      BY RunNumbers
    <3> QED
      BY <1>1, <1>3, <2>2, <3>1 DEF Sent
  <2> QED
    BY <2>1, <2>2
<1>7. /\ queue' \in [Run -> SUBSET Task] /\ queue'[r] = queue[r] \cup {new}
      /\ \A q \in Run \ {r} : queue'[q] = queue[q]
  BY <1>2, <1>3, <1>5
<1>8. Tasks(r)' = Tasks(r) \cup {new} /\ \A q \in Run \ {r} : Tasks(q)' = Tasks(q)
  BY <1>1, <1>7 DEF Tasks
<1>9. new \notin broken /\ \A q \in Run : new \notin Tasks(q)
  BY <1>3, <1>6 DEF Exclusive
<1>10. ContainerTypeOK'
  <2>1. \A q \in Run : doing'[q] \notin queue'[q]
    BY <1>1, <1>3, <1>5, <1>7, <1>9 DEF ContainerTypeOK, Tasks
  <2> QED
    BY <1>1, <1>3, <1>4, <1>7, <2>1 DEF ContainerTypeOK
<1>11. \A q \in Run : Listens(q)' = Listens(q)
  BY <1>1 DEF Listens, Running
<1>12. Exclusive'
  <2>1. \A q \in Run : Tasks(q)' # {} => Listens(q)'
    BY <1>2, <1>3, <1>8, <1>11 DEF Exclusive
  <2>2. \A q \in Run : \A t \in Tasks(q)' : Sent(t)' /\ t \notin broken'
    <3>1. \A q \in Run : \A t \in Tasks(q) : t \in Task /\ Sent(t) /\ t \notin broken
      BY <1>3 DEF Exclusive, Tasks
    <3> QED
      BY <1>1, <1>6, <1>8, <1>9, <3>1
  <2>3. \A t \in broken' : Sent(t)'
    BY <1>1, <1>3, <1>6 DEF Exclusive
  <2>4. \A p, q \in Run : p # q => Tasks(p)' \cap Tasks(q)' = {}
    BY <1>3, <1>8, <1>9 DEF Exclusive
  <2> QED
    BY <2>1, <2>2, <2>3, <2>4 DEF Exclusive
<1>13. Ahead'
  BY <1>1 DEF ContainerInv, Ahead
<1>14. CleanRun'
  <2> SUFFICES ASSUME run \in clean
               PROVE  (server[run] # "failed" /\ (\A q \in Run \ {run} : ~Running(q)) /\ ItsTurn)'
    BY <1>1 DEF CleanRun
  <2>1. server[run] # "failed" /\ (\A q \in Run \ {run} : ~Running(q)) /\ ItsTurn
    BY DEF ContainerInv, CleanRun
  <2>2. r = run
    BY <1>2, <2>1 DEF Listens
  <2>3. Spoken(0) /\ Tasks(run) = {}
    BY <1>1, <2>1 DEF ItsTurn
  <2>4. Spoken(0)' /\ Tasks(run)' = {new}
    BY <1>1, <1>8, <2>2, <2>3 DEF Spoken
  <2> QED
    BY <1>1, <2>1, <2>4 DEF ItsTurn, Running
<1>15. CleanRunsNotRefused' /\ LeftoversNeedDeath'
  BY <1>1 DEF ContainerInv, CleanRunsNotRefused, LeftoversNeedDeath, Running, Over
<1> QED
  BY <1>10, <1>12, <1>13, <1>14, <1>15 DEF ContainerInv

(* In a clean run the container listens when the instance is idle.         *)
LEMMA StepSendArtifactRefused ==
    ASSUME ContainerInv, SendArtifactRefused
    PROVE  ContainerInv'
<1>1. /\ instance = "idle" /\ \A r \in Run : ~Listens(r)
      /\ instance' = "dead" /\ ended' = [ended EXCEPT ![run] = "refused"]
      /\ UNCHANGED <<kind, run, mail, posts, docker, server, registrar, queue, doing, phase, clean, broken>>
  BY DEF SendArtifactRefused, boxVars, workVars
<1>2. /\ run \in Run /\ ended \in [Run -> {"no", "normally", "killed", "refused", "error"}]
      /\ ContainerTypeOK /\ Exclusive
  BY DEF ContainerInv, ContainerTypeOK
<1>3. /\ ended' \in [Run -> {"no", "normally", "killed", "refused", "error"}]
      /\ ended'[run] = "refused" /\ \A r \in Run \ {run} : ended'[r] = ended[r]
  BY <1>1, <1>2
<1>4. run \notin clean
  BY <1>1, <1>2 DEF ContainerInv, CleanRun, ItsTurn
<1>5. ContainerTypeOK'
  BY <1>1, <1>2, <1>3 DEF ContainerTypeOK
<1>6. Exclusive'
  BY <1>1, <1>2, TasksStay DEF Sent, Listens, Running
<1>7. Ahead'
  BY <1>1, <1>2, <1>3, RunNumbers DEF ContainerInv, Ahead
<1>8. CleanRun'
  BY <1>1, <1>4 DEF CleanRun
<1>9. CleanRunsNotRefused'
  <2>1. clean \subseteq Run
    BY <1>2 DEF ContainerTypeOK
  <2> QED
    BY <1>1, <1>3, <1>4, <2>1 DEF ContainerInv, CleanRunsNotRefused
<1>10. LeftoversNeedDeath'
  <2>1. ASSUME NEW r \in Run, Running(r) PROVE r < run \/ r = run
    <3>1. ~(r > run)
      BY <1>2, <2>1 DEF ContainerInv, Ahead, Running
    <3> QED
      BY <1>2, <3>1, RunNumbers
  <2> QED
    BY <1>1, <1>2, <1>3, <2>1 DEF ContainerInv, LeftoversNeedDeath, Running, Over
<1> QED
  BY <1>5, <1>6, <1>7, <1>8, <1>9, <1>10 DEF ContainerInv

(* A task is taken from the queue: the same tasks are in the container.    *)
LEMMA StepBeginWork ==
    ASSUME ContainerInv, NEW r \in Run, BeginWork(r)
    PROVE  ContainerInv'
<1>1. PICK t \in queue[r] : /\ queue' = [queue EXCEPT ![r] = queue[r] \ {t}]
                            /\ doing' = [doing EXCEPT ![r] = t]
  BY DEF BeginWork
<1>2. /\ Running(r) /\ doing[r] = NoTask /\ phase' = [phase EXCEPT ![r] = "work"]
      /\ UNCHANGED <<kind, run, instance, mail, posts, docker, server, registrar, clean, ended, broken>>
  BY DEF BeginWork, masterVars, boxVars, containerHistory
<1>3. /\ queue \in [Run -> SUBSET Task] /\ doing \in [Run -> Task \cup {NoTask}]
      /\ phase \in [Run -> {"work", "done"}]
      /\ \A q \in Run : doing[q] \notin queue[q] /\ (phase[q] = "work" => doing[q] # NoTask)
      /\ ContainerTypeOK /\ Exclusive
  BY DEF ContainerInv, ContainerTypeOK
<1>4. t \in Task /\ t # NoTask
  BY <1>1, <1>3, RunNumbers
<1>5. /\ queue' \in [Run -> SUBSET Task] /\ doing' \in [Run -> Task \cup {NoTask}]
      /\ phase' \in [Run -> {"work", "done"}]
      /\ queue'[r] = queue[r] \ {t} /\ doing'[r] = t
      /\ \A q \in Run \ {r} : queue'[q] = queue[q] /\ doing'[q] = doing[q] /\ phase'[q] = phase[q]
  BY <1>1, <1>2, <1>3, <1>4
<1>6. \A q \in Run : Tasks(q)' = Tasks(q)
  BY <1>1, <1>2, <1>4, <1>5 DEF Tasks
<1>7. \A q \in Run : doing'[q] \notin queue'[q] /\ (phase'[q] = "work" => doing'[q] # NoTask)
  BY <1>3, <1>4, <1>5
<1>8. ContainerTypeOK'
  BY <1>2, <1>3, <1>5, <1>7 DEF ContainerTypeOK
<1>9. Exclusive'
  BY <1>2, <1>3, <1>6 DEF Exclusive, Sent, Listens, Running
<1>10. Ahead' /\ CleanRunsNotRefused' /\ LeftoversNeedDeath'
  BY <1>2 DEF ContainerInv, Ahead, CleanRunsNotRefused, LeftoversNeedDeath, Running, Over
<1>11. CleanRun'
  <2>1. run \in Run
    BY <1>3 DEF ContainerTypeOK
  <2>2. Tasks(run)' = Tasks(run) /\ Listens(run)' = Listens(run)
    BY <1>2, <1>6, <2>1 DEF Listens, Running
  <2>3. ItsTurn => ItsTurn'
    BY <1>2, <2>2 DEF ItsTurn, Spoken
  <2> QED
    BY <1>2, <2>3 DEF ContainerInv, CleanRun, Running
<1> QED
  BY <1>8, <1>9, <1>10, <1>11 DEF ContainerInv

LEMMA StepWorkReturns ==
    ASSUME ContainerInv, NEW r \in Run, WorkReturns(r)
    PROVE  ContainerInv'
<1>1. /\ phase' = [phase EXCEPT ![r] = "done"]
      /\ UNCHANGED <<kind, run, instance, mail, posts, docker, server, registrar, queue, doing,
                     clean, ended, broken>>
  BY DEF WorkReturns, masterVars, boxVars, containerHistory
<1>2. /\ phase \in [Run -> {"work", "done"}] /\ run \in Run
      /\ ContainerTypeOK /\ Exclusive
  BY DEF ContainerInv, ContainerTypeOK
<1>3. /\ phase' \in [Run -> {"work", "done"}]
      /\ \A q \in Run : phase'[q] = "work" => phase[q] = "work"
  BY <1>1, <1>2
<1>4. ContainerTypeOK'
  BY <1>1, <1>2, <1>3 DEF ContainerTypeOK
<1>5. Exclusive' /\ \A q \in Run : Tasks(q)' = Tasks(q)
  BY <1>1, <1>2, TasksStay DEF Sent, Listens, Running
<1>6. Ahead' /\ CleanRunsNotRefused' /\ LeftoversNeedDeath'
  BY <1>1 DEF ContainerInv, Ahead, CleanRunsNotRefused, LeftoversNeedDeath, Running, Over
<1>7. CleanRun'
  <2>1. Tasks(run)' = Tasks(run) /\ Listens(run)' = Listens(run)
    BY <1>1, <1>2, <1>5 DEF Listens, Running
  <2>2. ItsTurn => ItsTurn'
    BY <1>1, <2>1 DEF ItsTurn, Spoken
  <2> QED
    BY <1>1, <2>2 DEF ContainerInv, CleanRun, Running
<1> QED
  BY <1>4, <1>5, <1>6, <1>7 DEF ContainerInv

(* A container leaves a task, cut off or done: the container has less to do*)
(* than before, and what it had is kept or cut off.                        *)
LEMMA LessToDo ==
    ASSUME ContainerInv, NEW r \in Run, NEW state \in {"exited", "removed"},
           UNCHANGED <<kind, run, posts, server, registrar, clean>>,
           Ends(r, state)
    PROVE  /\ (mail' \in Nat /\ ended' \in [Run -> {"no", "normally", "killed", "refused", "error"}]
                 /\ instance' \in {"start", "register", "idle", "wait", "stopped", "exited", "dead"}
                 => ContainerTypeOK')
           /\ Exclusive'
<1>1. /\ docker' \in [Run -> {"none", "running", "exited", "removed"}]
      /\ queue' \in [Run -> SUBSET Task] /\ doing' \in [Run -> Task \cup {NoTask}]
      /\ phase' \in [Run -> {"work", "done"}] /\ broken' \subseteq Task
      /\ \A q \in Run : doing'[q] \notin queue'[q] /\ (phase'[q] = "work" => doing'[q] # NoTask)
  BY EndsOne DEF ContainerInv
<1>2. Exclusive'
  BY EndsExclusive DEF ContainerInv
<1> QED
  BY <1>1, <1>2 DEF ContainerInv, ContainerTypeOK

(* The mutex is released: the same, but the container goes on.             *)
LEMMA MutexReleased ==
    ASSUME ContainerInv, NEW r \in Run, doing[r] # NoTask,
           doing' = [doing EXCEPT ![r] = NoTask], phase' = [phase EXCEPT ![r] = "done"],
           broken' \in {broken, broken \cup {doing[r]}},
           UNCHANGED <<kind, run, instance, posts, docker, server, registrar, queue, clean, ended>>,
           mail' \in Nat
    PROVE  /\ ContainerTypeOK' /\ Exclusive'
           /\ Tasks(r)' = Tasks(r) \ {doing[r]} /\ doing[r] \in Tasks(r)
           /\ \A q \in Run \ {r} : Tasks(q)' = Tasks(q)
<1>1. /\ queue \in [Run -> SUBSET Task] /\ doing \in [Run -> Task \cup {NoTask}]
      /\ phase \in [Run -> {"work", "done"}] /\ broken \subseteq Task
      /\ \A q \in Run : doing[q] \notin queue[q] /\ (phase[q] = "work" => doing[q] # NoTask)
      /\ ContainerTypeOK /\ Exclusive
  BY DEF ContainerInv, ContainerTypeOK
<1>2. PICK t \in Task : t = doing[r]
  BY <1>1
<1>3. /\ doing' \in [Run -> Task \cup {NoTask}] /\ phase' \in [Run -> {"work", "done"}]
      /\ doing'[r] = NoTask /\ phase'[r] = "done" /\ broken' \subseteq Task
      /\ \A q \in Run \ {r} : doing'[q] = doing[q] /\ phase'[q] = phase[q]
  BY <1>1, <1>2
<1>4. NoTask \notin Task /\ \A q \in Run : NoTask \notin queue[q]
  BY <1>1, RunNumbers
<1>5. /\ Tasks(r)' = Tasks(r) \ {t} /\ t \in Tasks(r)
      /\ \A q \in Run \ {r} : Tasks(q)' = Tasks(q)
  BY <1>1, <1>2, <1>3, <1>4 DEF Tasks
<1>6. ContainerTypeOK'
  <2>1. \A q \in Run : doing'[q] \notin queue'[q] /\ (phase'[q] = "work" => doing'[q] # NoTask)
    BY <1>1, <1>3, <1>4
  <2> QED
    BY <1>1, <1>3, <2>1 DEF ContainerTypeOK
<1>7. Exclusive'
  <2>1. \A q \in Run : Listens(q)' = Listens(q)
    BY DEF Listens, Running
  <2>2. \A s : Sent(s)' = Sent(s)
    BY DEF Sent
  <2>3. \A q \in Run : Tasks(q)' \subseteq Tasks(q)
    BY <1>5
  <2>4. \A q \in Run : t \notin Tasks(q)'
    BY <1>1, <1>5 DEF Exclusive
  <2>5. broken' \subseteq broken \cup {t} /\ Sent(t)
    BY <1>1, <1>2, <1>5 DEF Exclusive
  <2> QED
    BY <1>1, <2>1, <2>2, <2>3, <2>4, <2>5 DEF Exclusive
<1> QED
  BY <1>2, <1>5, <1>6, <1>7

LEMMA StepWorkFails ==
    ASSUME ContainerInv, NEW r \in Run, WorkFails(r)
    PROVE  ContainerInv'
<1>1. /\ Running(r) /\ phase[r] = "work"
      /\ UNCHANGED <<kind, run, instance, mail, posts, server, registrar, clean, ended>>
      /\ \/ Ends(r, "exited")
         \/ /\ doing' = [doing EXCEPT ![r] = NoTask] /\ phase' = [phase EXCEPT ![r] = "done"]
            /\ broken' = broken \cup {doing[r]} /\ UNCHANGED <<docker, queue>>
  BY DEF WorkFails, masterVars
<1>2. /\ doing[r] # NoTask /\ mail \in Nat /\ run \in Run
      /\ ended \in [Run -> {"no", "normally", "killed", "refused", "error"}]
      /\ instance \in {"start", "register", "idle", "wait", "stopped", "exited", "dead"}
  BY <1>1 DEF ContainerInv, ContainerTypeOK
<1>3. ContainerTypeOK' /\ Exclusive'
  BY <1>1, <1>2, LessToDo, MutexReleased
<1>4. /\ \A q \in Run \ {r} : docker'[q] = docker[q] /\ Tasks(q)' = Tasks(q)
      /\ docker'[r] \in {docker[r], "exited"} /\ Tasks(r)' \subseteq Tasks(r)
      /\ Tasks(r) # {} /\ docker[r] = "running"
  <2>1. Tasks(r) # {} /\ docker[r] = "running"
    BY <1>1, <1>2 DEF Tasks, Running
  <2>2. CASE Ends(r, "exited")
    BY <2>1, <2>2, EndsOne DEF ContainerInv
  <2>3. CASE /\ doing' = [doing EXCEPT ![r] = NoTask] /\ phase' = [phase EXCEPT ![r] = "done"]
             /\ broken' = broken \cup {doing[r]} /\ UNCHANGED <<docker, queue>>
    BY <1>1, <1>2, <2>1, <2>3, MutexReleased
  <2> QED
    BY <1>1, <2>2, <2>3
<1>5. Ahead' /\ CleanRunsNotRefused' /\ LeftoversNeedDeath'
  BY <1>1, <1>2, <1>4 DEF ContainerInv, Ahead, CleanRunsNotRefused, LeftoversNeedDeath, Running, Over
<1>6. CleanRun'
  <2> SUFFICES ASSUME run \in clean
               PROVE  (server[run] # "failed" /\ (\A q \in Run \ {run} : ~Running(q)) /\ ItsTurn)'
    BY <1>1 DEF CleanRun
  <2>1. server[run] # "failed" /\ (\A q \in Run \ {run} : ~Running(q)) /\ ItsTurn
    BY DEF ContainerInv, CleanRun
  <2>2. r = run
    BY <1>1, <2>1
  <2>3. docker[run] # "none"
    BY <1>4, <2>2
  <2>4. \/ instance = "wait" /\ Spoken(0) /\ \A s, t \in Tasks(run) : s = t
        \/ instance \in {"stopped", "exited", "dead"}
    BY <1>2, <1>4, <2>1, <2>2, <2>3 DEF ItsTurn, ContainerInv, Ahead
  <2>5. ItsTurn'
    BY <1>1, <1>4, <2>2, <2>4 DEF ItsTurn, Spoken
  <2> QED
    BY <1>1, <1>4, <2>1, <2>2, <2>5 DEF Running
<1> QED
  BY <1>3, <1>5, <1>6 DEF ContainerInv

(* In a clean run the one task is done, and the instance is told.          *)
LEMMA StepSendMsgFinishTask ==
    ASSUME ContainerInv, NEW r \in Run, SendMsgFinishTask(r)
    PROVE  ContainerInv'
<1>1. /\ Running(r) /\ doing[r] # NoTask /\ phase[r] = "done"
      /\ mail' = IF Alive THEN mail + 1 ELSE mail
      /\ UNCHANGED <<kind, run, instance, posts, server, registrar, clean, ended>>
      /\ \/ ~Alive /\ Ends(r, "exited")
         \/ /\ doing' = [doing EXCEPT ![r] = NoTask]
            /\ UNCHANGED <<docker, queue, phase, broken>>
  BY DEF SendMsgFinishTask, Send
<1>2. /\ mail \in Nat /\ mail' \in Nat /\ run \in Run /\ phase \in [Run -> {"work", "done"}]
      /\ ended \in [Run -> {"no", "normally", "killed", "refused", "error"}]
      /\ instance \in {"start", "register", "idle", "wait", "stopped", "exited", "dead"}
      /\ Exclusive /\ ContainerTypeOK
  BY <1>1 DEF ContainerInv, ContainerTypeOK
<1>3. phase = [phase EXCEPT ![r] = "done"]
  BY <1>1, <1>2
<1>4. ContainerTypeOK' /\ Exclusive'
  BY <1>1, <1>2, <1>3, LessToDo, MutexReleased
<1>5. /\ \A q \in Run \ {r} : docker'[q] = docker[q] /\ Tasks(q)' = Tasks(q)
      /\ docker'[r] \in {docker[r], "exited"} /\ docker[r] = "running" /\ doing[r] \in Tasks(r)
  <2>1. docker[r] = "running" /\ doing[r] \in Tasks(r)
    BY <1>1 DEF Running, Tasks
  <2>2. CASE Ends(r, "exited")
    BY <1>2, <2>1, <2>2, EndsOne
  <2>3. CASE UNCHANGED <<docker, queue, phase, broken>> /\ doing' = [doing EXCEPT ![r] = NoTask]
    BY <1>1, <1>2, <1>3, <2>1, <2>3, MutexReleased
  <2> QED
    BY <1>1, <2>2, <2>3
<1>6. Ahead' /\ CleanRunsNotRefused' /\ LeftoversNeedDeath'
  BY <1>1, <1>2, <1>5 DEF ContainerInv, Ahead, CleanRunsNotRefused, LeftoversNeedDeath, Running, Over
<1>7. CleanRun'
  <2> SUFFICES ASSUME run \in clean
               PROVE  (server[run] # "failed" /\ (\A q \in Run \ {run} : ~Running(q)) /\ ItsTurn)'
    BY <1>1 DEF CleanRun
  <2>1. server[run] # "failed" /\ (\A q \in Run \ {run} : ~Running(q)) /\ ItsTurn
    BY DEF ContainerInv, CleanRun
  <2>2. r = run
    BY <1>1, <2>1
  <2>3. docker[run] # "none"
    BY <1>5, <2>2
  <2>4. \/ instance = "wait" /\ Spoken(0) /\ \A s, t \in Tasks(run) : s = t
        \/ instance \in {"stopped", "exited", "dead"}
    BY <1>2, <1>5, <2>1, <2>2, <2>3 DEF ItsTurn, ContainerInv, Ahead
  <2>5. CASE instance = "wait" /\ Spoken(0) /\ \A s, t \in Tasks(run) : s = t
    <3>1. mail' = 1 /\ doing' = [doing EXCEPT ![r] = NoTask] /\ UNCHANGED <<docker, queue, phase, broken>>
      BY <1>1, <1>2, <2>5 DEF Alive, Spoken
    <3>2. Tasks(run)' = Tasks(run) \ {doing[run]}
      BY <1>1, <1>2, <1>3, <2>2, <3>1, MutexReleased
    <3>3. Tasks(run)' = {}
      BY <1>5, <2>2, <2>5, <3>2
    <3>4. Listens(run)
      BY <1>2, <1>5, <2>2 DEF Exclusive
    <3>5. Listens(run)'
      BY <1>1, <3>1, <3>4 DEF Listens, Running
    <3> QED
      BY <1>1, <1>5, <2>1, <2>2, <2>5, <3>1, <3>3, <3>5 DEF ItsTurn, Spoken, Running
  <2>6. CASE instance \in {"stopped", "exited", "dead"}
    BY <1>1, <1>5, <2>1, <2>2, <2>6 DEF ItsTurn, Running
  <2> QED
    BY <2>4, <2>5, <2>6
<1> QED
  BY <1>4, <1>6, <1>7 DEF ContainerInv

(* The instance's deferred calls, and what the operator does.              *)
LEMMA StepStopContainer ==
    ASSUME ContainerInv, StopContainer
    PROVE  ContainerInv'
<1>1. /\ instance = "idle" /\ instance' = "stopped" /\ Ends(run, "exited")
      /\ UNCHANGED <<kind, run, mail, posts, server, registrar, clean, ended>>
  BY DEF StopContainer
<1>2. /\ mail \in Nat /\ run \in Run /\ ContainerTypeOK
      /\ ended \in [Run -> {"no", "normally", "killed", "refused", "error"}]
  BY DEF ContainerInv, ContainerTypeOK
<1>3. ContainerTypeOK' /\ Exclusive'
  BY <1>1, <1>2, LessToDo
<1>4. /\ docker'[run] = "exited" /\ \A q \in Run \ {run} : docker'[q] = docker[q]
  BY <1>1, <1>2, EndsOne
<1>5. Ahead' /\ CleanRunsNotRefused' /\ LeftoversNeedDeath'
  BY <1>1, <1>2, <1>4, RunNumbers
  DEF ContainerInv, Ahead, CleanRunsNotRefused, LeftoversNeedDeath, Running, Over
<1>6. CleanRun'
  BY <1>1, <1>2, <1>4 DEF ContainerInv, CleanRun, ItsTurn, Running
<1> QED
  BY <1>3, <1>5, <1>6 DEF ContainerInv

LEMMA StepRemoveContainer ==
    ASSUME ContainerInv, Stopped, RemoveContainer
    PROVE  ContainerInv'
<1>1. /\ instance = "stopped" /\ instance' = "exited"
      /\ docker' = [docker EXCEPT ![run] = "removed"]
      /\ ended' = [ended EXCEPT ![run] = "normally"]
      /\ UNCHANGED <<kind, run, mail, posts, server, registrar, queue, doing, phase, clean, broken>>
  BY DEF RemoveContainer, workVars
<1>2. /\ docker \in [Run -> {"none", "running", "exited", "removed"}] /\ run \in Run
      /\ ended \in [Run -> {"no", "normally", "killed", "refused", "error"}]
      /\ ContainerTypeOK /\ Exclusive
  BY DEF ContainerInv, ContainerTypeOK
<1>3. /\ docker' \in [Run -> {"none", "running", "exited", "removed"}]
      /\ ended' \in [Run -> {"no", "normally", "killed", "refused", "error"}]
      /\ docker'[run] = "removed" /\ ended'[run] = "normally"
      /\ \A q \in Run \ {run} : docker'[q] = docker[q] /\ ended'[q] = ended[q]
  BY <1>1, <1>2
<1>4. ContainerTypeOK'
  BY <1>1, <1>2, <1>3 DEF ContainerTypeOK
<1>5. Exclusive'
  BY <1>1, <1>2, <1>3, TasksStay DEF Stopped, Sent, Listens, Running
<1>6. Ahead'
  BY <1>1, <1>2, <1>3, RunNumbers DEF ContainerInv, Ahead
<1>7. CleanRun'
  BY <1>1, <1>2, <1>3 DEF ContainerInv, CleanRun, ItsTurn, Running
<1>8. CleanRunsNotRefused'
  <2>1. clean \subseteq Run
    BY <1>2 DEF ContainerTypeOK
  <2> QED
    BY <1>1, <1>3, <2>1 DEF ContainerInv, CleanRunsNotRefused
<1>9. LeftoversNeedDeath'
  <2>1. ASSUME NEW r \in Run, Running(r)' PROVE r < run /\ Running(r)
    <3>1. r # run /\ Running(r)
      BY <1>3, <2>1 DEF Running
    <3>2. ~(r > run)
      BY <1>2, <3>1 DEF ContainerInv, Ahead, Running
    <3> QED
      BY <1>2, <3>1, <3>2, RunNumbers
  <2> QED
    BY <1>1, <1>3, <2>1, <1>2, RunNumbers DEF ContainerInv, LeftoversNeedDeath
<1> QED
  BY <1>4, <1>5, <1>6, <1>7, <1>8, <1>9 DEF ContainerInv

LEMMA StepMasterDies ==
    ASSUME ContainerInv, MasterDies
    PROVE  ContainerInv'
<1>1. /\ instance' = "dead" /\ ended' = [ended EXCEPT ![run] = "killed"]
      /\ UNCHANGED <<kind, run, mail, posts, docker, server, registrar, queue, doing, phase, clean, broken>>
  BY DEF MasterDies, boxVars, workVars
<1>2. /\ run \in Run /\ ended \in [Run -> {"no", "normally", "killed", "refused", "error"}]
      /\ ContainerTypeOK /\ Exclusive
  BY DEF ContainerInv, ContainerTypeOK
<1>3. /\ ended' \in [Run -> {"no", "normally", "killed", "refused", "error"}]
      /\ ended'[run] = "killed" /\ \A r \in Run \ {run} : ended'[r] = ended[r]
  BY <1>1, <1>2
<1>4. ContainerTypeOK'
  BY <1>1, <1>2, <1>3 DEF ContainerTypeOK
<1>5. Exclusive'
  BY <1>1, <1>2, TasksStay DEF Sent, Listens, Running
<1>6. Ahead'
  BY <1>1, <1>2, <1>3, RunNumbers DEF ContainerInv, Ahead
<1>7. CleanRun'
  BY <1>1 DEF ContainerInv, CleanRun, ItsTurn, Running
<1>8. CleanRunsNotRefused'
  <2>1. clean \subseteq Run
    BY <1>2 DEF ContainerTypeOK
  <2> QED
    BY <1>1, <1>3, <2>1 DEF ContainerInv, CleanRunsNotRefused
<1>9. LeftoversNeedDeath'
  <2>1. ASSUME NEW r \in Run, Running(r) PROVE r < run \/ r = run
    <3>1. ~(r > run)
      BY <1>2, <2>1 DEF ContainerInv, Ahead, Running
    <3> QED
      BY <1>2, <3>1, RunNumbers
  <2> QED
    BY <1>1, <1>2, <1>3, <2>1 DEF ContainerInv, LeftoversNeedDeath, Running, Over
<1> QED
  BY <1>4, <1>5, <1>6, <1>7, <1>8, <1>9 DEF ContainerInv

(* The next run finds what the last one has left.                          *)
LEMMA StepRestart ==
    ASSUME ContainerInv, Restart
    PROVE  ContainerInv'
<1>1. /\ Over /\ run < MaxRuns /\ run' = run + 1 /\ instance' = "start"
      /\ mail' = 0 /\ posts' = 0
      /\ clean' \in {clean, clean \cup {run + 1}}
      /\ run + 1 \in clean' => run + 1 \in clean \/ \A r \in Run : ~Running(r)
      /\ UNCHANGED <<kind, docker, server, registrar, queue, doing, phase, ended, broken>>
  BY DEF Restart, boxVars, workVars
<1>2. run \in Run /\ clean \subseteq Run /\ ContainerTypeOK /\ Exclusive /\ broken \subseteq Task
  BY DEF ContainerInv, ContainerTypeOK
<1>3. run \in Nat /\ run + 1 \in Run /\ run + 1 > run
  BY <1>1, <1>2, ContainerAssumption, RunNumbers DEF Run
<1>4. run + 1 \notin clean /\ clean \subseteq 1..run
  BY <1>3 DEF ContainerInv, Ahead
<1>5. ContainerTypeOK'
  BY <1>1, <1>2, <1>3, ContainerAssumption DEF ContainerTypeOK
<1>6. Exclusive'
  <2>1. ASSUME NEW t \in Task, Sent(t) PROVE Sent(t)'
    <3>1. t[1] \in Nat
      BY RunNumbers
    <3> QED
      BY <1>1, <1>3, <2>1, <3>1 DEF Sent
  <2> QED
    BY <1>1, <1>2, <2>1, TasksStay DEF Listens, Running
<1>7. /\ docker[run + 1] = "none" /\ server[run + 1] = "starting"
      /\ registrar[run + 1] = "sleeping" /\ ended[run + 1] = "no"
  BY <1>3 DEF ContainerInv, Ahead
<1>8. Ahead'
  <2>1. \A r \in Run : r > run + 1 \/ r = run + 1 => r > run
    BY <1>3, RunNumbers
  <2>2. clean' \subseteq 1..(run + 1)
    BY <1>1, <1>3, <1>4
  <2> QED
    BY <1>1, <2>1, <2>2 DEF ContainerInv, Ahead
<1>9. CleanRun'
  BY <1>1, <1>3, <1>4, <1>7 DEF CleanRun, ItsTurn, Running
<1>10. CleanRunsNotRefused'
  BY <1>1, <1>7 DEF ContainerInv, CleanRunsNotRefused
<1>11. LeftoversNeedDeath'
  BY <1>1 DEF ContainerInv, LeftoversNeedDeath, Running, Over
<1> QED
  BY <1>5, <1>6, <1>8, <1>9, <1>10, <1>11 DEF ContainerInv

LEMMA StepStopScanners ==
    ASSUME ContainerInv, NEW r \in Run, StopScanners(r)
    PROVE  ContainerInv'
<1>1. /\ Over /\ docker[r] \in {"running", "exited"} /\ Ends(r, "removed")
      /\ UNCHANGED <<kind, run, instance, mail, posts, server, registrar, clean, ended>>
  BY DEF StopScanners, masterVars
<1>2. /\ mail \in Nat /\ run \in Run /\ ContainerTypeOK
      /\ ended \in [Run -> {"no", "normally", "killed", "refused", "error"}]
      /\ instance \in {"exited", "dead"}
  BY <1>1 DEF ContainerInv, ContainerTypeOK, Over
<1>3. ContainerTypeOK' /\ Exclusive'
  BY <1>1, <1>2, LessToDo
<1>4. /\ docker'[r] = "removed" /\ \A q \in Run \ {r} : docker'[q] = docker[q]
  BY <1>1, <1>2, EndsOne
<1>5. Ahead' /\ CleanRunsNotRefused' /\ LeftoversNeedDeath'
  BY <1>1, <1>2, <1>4 DEF ContainerInv, Ahead, CleanRunsNotRefused, LeftoversNeedDeath, Running, Over
<1>6. CleanRun'
  BY <1>1, <1>2, <1>4 DEF ContainerInv, CleanRun, ItsTurn, Running
<1> QED
  BY <1>3, <1>5, <1>6 DEF ContainerInv

(* Every step of the instance, its containers and the operator.            *)
ContainerAction ==
    \/ MasterStep \/ OperatorStep
    \/ \E r \in Run : ContainerStep(r) \/ WorkReturns(r) \/ WorkFails(r) \/ BeginWork(r)

LEMMA ContainerKept ==
    ASSUME ContainerInv, Stopped, ContainerAction
    PROVE  ContainerInv' /\ Stopped'
<1>1. ContainerInv'
  BY StepRunContainer, StepBind, StepRegister, StepTakeMessage, StepSendArtifact,
     StepSendArtifactRefused, StepBeginWork, StepWorkReturns, StepWorkFails,
     StepSendMsgFinishTask, StepStopContainer, StepRemoveContainer, StepMasterDies,
     StepRestart, StepStopScanners
  DEF ContainerAction, MasterStep, OperatorStep, ContainerStep, waitForRegister, waitForFinishTask
<1> SUFFICES Stopped'
  BY <1>1
<1>2. docker \in [Run -> {"none", "running", "exited", "removed"}] /\ run \in Run
  BY DEF ContainerInv, ContainerTypeOK
<1>3. CASE StopContainer \/ RemoveContainer
  BY <1>2, <1>3 DEF StopContainer, RemoveContainer, Ends, Stopped, Running
<1>4. CASE \/ MasterStep \/ SendArtifact \/ SendArtifactRefused \/ MasterDies \/ Restart
  BY <1>4 DEF MasterStep, waitForRegister, waitForFinishTask, TakeMessage, RunContainer,
     SendArtifact, SendArtifactRefused, MasterDies, Restart, Stopped
<1>5. CASE \/ \E r \in Run : StopScanners(r)
           \/ \E r \in Run : ContainerStep(r) \/ WorkReturns(r) \/ WorkFails(r) \/ BeginWork(r)
  <2>1. UNCHANGED <<run, instance>>
    BY <1>5 DEF StopScanners, ContainerStep, Bind, Register, SendMsgFinishTask, WorkReturns,
       WorkFails, BeginWork, masterVars
  <2>2. PICK r \in Run : docker' \in {docker, [docker EXCEPT ![r] = "exited"], [docker EXCEPT ![r] = "removed"]}
    BY <1>5, Zenon DEF StopScanners, ContainerStep, Bind, Register, SendMsgFinishTask, WorkReturns,
       WorkFails, BeginWork, Ends, boxVars
  <2> QED
    BY <1>2, <2>1, <2>2 DEF Stopped, Running
<1> QED
  BY <1>3, <1>4, <1>5 DEF ContainerAction, OperatorStep

LEMMA InitContainerInv == ContainerInit => ContainerInv /\ Stopped
<1> SUFFICES ASSUME ContainerInit PROVE ContainerInv /\ Stopped
  OBVIOUS
<1>1. \A r \in Run : Tasks(r) = {} /\ ~Running(r)
  BY DEF ContainerInit, Tasks, Running
<1>2. ContainerTypeOK
  BY RunNumbers, ContainerAssumption DEF ContainerInit, ContainerTypeOK
<1>3. Exclusive
  BY <1>1 DEF Exclusive, ContainerInit
<1>4. Ahead /\ CleanRun
  BY <1>1, RunNumbers DEF ContainerInit, Ahead, CleanRun, ItsTurn
<1>5. CleanRunsNotRefused /\ LeftoversNeedDeath
  BY <1>1, RunNumbers DEF ContainerInit, CleanRunsNotRefused, LeftoversNeedDeath
<1>6. Stopped
  BY DEF ContainerInit, Stopped
<1> QED
  BY <1>2, <1>3, <1>4, <1>5, <1>6 DEF ContainerInv

-----------------------------------------------------------------------------
(* The scans at the manager.                                               *)

(* A step of the work function or the manager, as the containers see it.   *)
LEMMA ContainersUntouched ==
    ASSUME ContainerInv, Stopped, UNCHANGED containerVars
    PROVE  ContainerInv' /\ Stopped'
<1>1. /\ UNCHANGED <<kind, run, instance, mail, posts, docker, server, registrar>>
      /\ UNCHANGED <<queue, doing, phase, clean, ended, broken>>
  BY DEF containerVars, masterVars, boxVars, workVars, containerHistory
<1>2. /\ \A r : Running(r)' = Running(r) /\ Listens(r)' = Listens(r) /\ Tasks(r)' = Tasks(r)
      /\ \A t : Sent(t)' = Sent(t)
  BY <1>1 DEF Running, Listens, Tasks, Sent
<1>3. ContainerTypeOK' /\ Exclusive' /\ Ahead'
  BY <1>1, <1>2 DEF ContainerInv, ContainerTypeOK, Exclusive, Ahead
<1>4. CleanRun'
  BY <1>1, <1>2 DEF ContainerInv, CleanRun, ItsTurn, Spoken
<1>5. CleanRunsNotRefused' /\ LeftoversNeedDeath' /\ Stopped'
  BY <1>1, <1>2 DEF ContainerInv, CleanRunsNotRefused, LeftoversNeedDeath, Over, Stopped
<1> QED
  BY <1>3, <1>4, <1>5 DEF ContainerInv

(* A container that works has its scan for itself.                         *)
LEMMA OwnScan ==
    ASSUME OpenVASInv, NEW r \in Run, phase[r] = "work"
    PROVE  /\ doing[r] \in Task /\ Running(r) /\ doing[r] \notin broken
           /\ try[r] \in 1..MaxTries /\ TaskID(r) \in Job
           /\ \A q \in Run \ {r} : phase[q] = "work" => doing[q] # doing[r]
           /\ WorkInv(r)
<1>1. ContainerTypeOK /\ Exclusive
  BY DEF OpenVASInv, ContainerInv
<1>2. /\ doing \in [Run -> Task \cup {NoTask}] /\ try \in [Run -> 1..MaxTries]
      /\ \A q \in Run : phase[q] = "work" => doing[q] # NoTask
  BY <1>1 DEF OpenVASInv, OpenVASTypeOK, ContainerTypeOK
<1>3. \A q \in Run : phase[q] = "work" => doing[q] \in Task /\ doing[q] \in Tasks(q)
  BY <1>2 DEF Tasks
<1>4. Running(r) /\ doing[r] \notin broken
  BY <1>1, <1>3 DEF Exclusive, Listens
<1>5. \A q \in Run \ {r} : phase[q] = "work" => doing[q] # doing[r]
  BY <1>1, <1>3 DEF Exclusive
<1>6. TaskID(r) \in Job
  BY <1>2, <1>3 DEF TaskID, Job
<1> QED
  BY <1>2, <1>3, <1>4, <1>5, <1>6 DEF OpenVASInv

(* A step of a work function touches nothing but its own job: the other    *)
(* scans are where they were, and its own is in progress or cleaned up.    *)
LEMMA OwnJobOnly ==
    ASSUME OpenVASInv, NEW r \in Run, phase[r] = "work",
           UNCHANGED <<docker, doing, broken>>,
           \A q \in Run \ {r} : phase'[q] = phase[q] /\ at'[q] = at[q] /\ try'[q] = try[q],
           \A j \in Job \ {TaskID(r)} : status'[j] = status[j] /\ (j \in reports' <=> j \in reports),
           \A t \in Task \ {doing[r]} : t \in targets' <=> t \in targets,
           phase'[r] = "work" \/ (/\ doing[r] \notin targets' /\ TaskID(r) \notin reports'
                                 /\ status'[TaskID(r)] = "deleted")
    PROVE  /\ OneJobPerScan' /\ CleanedUp'
           /\ \A q \in Run \ {r} : phase'[q] = "work" => WorkInv(q)'
           /\ \A k \in 1..MaxTries : k # try[r] => Gone(<<doing[r], k>>)'
<1>1. PICK t \in Task, n \in 1..MaxTries : t = doing[r] /\ n = try[r] /\ TaskID(r) = <<t, n>>
  BY OwnScan DEF TaskID
<1>2. WorkInv(r) /\ \A q \in Run \ {r} : phase[q] = "work" => doing[q] # t /\ doing[q] \in Task
  BY <1>1, OwnScan
<1>3. \A s \in Task, k \in 1..MaxTries : <<s, k>> \in Job /\ (<<s, k>> = <<t, n>> => s = t /\ k = n)
  BY DEF Job
<1>4. \A s \in Task, k \in 1..MaxTries : s # t \/ k # n =>
        /\ status'[<<s, k>>] = status[<<s, k>>]
        /\ <<s, k>> \in reports' <=> <<s, k>> \in reports
  BY <1>1, <1>3
<1>5. \A k \in 1..MaxTries : k # n => /\ status'[<<t, k>>] \in {"none", "deleted"}
                                      /\ <<t, k>> \notin reports'
  BY <1>1, <1>2, <1>4 DEF WorkInv, Gone, Scan
<1>6. OneJobPerScan'
  <2> SUFFICES ASSUME NEW s \in Task, NEW i \in 1..MaxTries, NEW k \in 1..MaxTries,
                      status'[<<s, i>>] \in {"Requested", "Running"},
                      status'[<<s, k>>] \in {"Requested", "Running"}
               PROVE  i = k
    BY DEF OneJobPerScan
  <2>1. CASE s = t
    BY <1>5, <2>1
  <2>2. CASE s # t
    BY <1>4, <2>2 DEF OpenVASInv, OneJobPerScan
  <2> QED
    BY <2>1, <2>2
<1>7. CleanedUp'
  <2> SUFFICES ASSUME NEW s \in Task
               PROVE  \/ s \in broken \/ \E q \in Run : Running(q)' /\ doing[q] = s /\ phase'[q] = "work"
                      \/ /\ s \notin targets'
                         /\ \A k \in 1..MaxTries : status'[<<s, k>>] \in {"none", "deleted"}
                                                   /\ <<s, k>> \notin reports'
    BY DEF CleanedUp
  <2>1. CASE s = t /\ phase'[r] = "work"
    BY <1>1, <2>1, OwnScan DEF Running
  <2>2. CASE s = t /\ phase'[r] # "work"
    BY <1>1, <1>5, <2>2
  <2>3. CASE s # t
    <3>1. \A q \in Run : Running(q)' = Running(q)
      BY DEF Running
    <3> QED
      BY <1>1, <1>4, <2>3, <3>1 DEF OpenVASInv, CleanedUp
  <2> QED
    BY <2>1, <2>2, <2>3
<1>8. ASSUME NEW q \in Run \ {r}, phase'[q] = "work" PROVE WorkInv(q)'
  <2>1. PICK s \in Task, m \in 1..MaxTries : s = doing[q] /\ m = try[q] /\ TaskID(q) = <<s, m>> /\ s # t
    BY <1>2, <1>8, OwnScan DEF TaskID
  <2>2. /\ at'[q] = at[q] /\ try'[q] = m /\ doing' = doing /\ TaskID(q)' = <<s, m>>
        /\ s \in targets' <=> s \in targets
    BY <1>1, <2>1 DEF TaskID
  <2>3. \A k \in 1..MaxTries : /\ status'[<<s, k>>] = status[<<s, k>>]
                               /\ <<s, k>> \in reports' <=> <<s, k>> \in reports
    BY <1>4, <2>1
  <2>4. WorkInv(q)
    BY <1>8, OwnScan
  <2>5. \A k \in 1..MaxTries : Gone(<<s, k>>)' <=> Gone(<<s, k>>)
    BY <2>3 DEF Gone
  <2> QED
    BY <2>1, <2>2, <2>3, <2>4, <2>5 DEF WorkInv, Scan
<1>9. \A k \in 1..MaxTries : k # try[r] => Gone(<<doing[r], k>>)'
  BY <1>1, <1>5 DEF Gone
<1> QED
  BY <1>6, <1>7, <1>8, <1>9

Statuses == {"none", "New", "Requested", "Running", "deleted"} \cup EndStatus

(* A call of the work function: what it must show is only about its scan.  *)
LEMMA CallKeeps ==
    ASSUME OpenVASInv, NEW r \in Run, NEW here, NEW next,
           next \in {"target", "config", "create", "start", "poll", "delete", "report", "clean"},
           Call(r, here, next), UNCHANGED containerVars,
           status' \in [Job -> Statuses], reports' \subseteq Job,
           targets' \subseteq Task, configs' \subseteq Task,
           try' \in [Run -> 1..MaxTries], requested' \in [Run -> 0..StuckLimit],
           \A q \in Run \ {r} : try'[q] = try[q],
           \A j \in Job \ {TaskID(r)} : status'[j] = status[j] /\ (j \in reports' <=> j \in reports),
           \A t \in Task \ {doing[r]} : t \in targets' <=> t \in targets,
           (\A k \in 1..MaxTries : k # try[r] => Gone(<<doing[r], k>>)') => WorkInv(r)',
           next = "delete" => try'[r] < MaxTries
    PROVE  OpenVASInv'
<1>1. /\ kind = "python" /\ phase[r] = "work" /\ at' = [at EXCEPT ![r] = next]
      /\ at \in [Run -> {"target", "config", "create", "start", "poll", "delete", "report", "clean"}]
  BY DEF Call, OpenVASInv, OpenVASTypeOK
<1>2. /\ at' \in [Run -> {"target", "config", "create", "start", "poll", "delete", "report", "clean"}]
      /\ at'[r] = next /\ \A q \in Run \ {r} : at'[q] = at[q]
  BY <1>1
<1>3. UNCHANGED <<kind, docker, doing, broken, phase>>
  BY DEF containerVars, masterVars, boxVars, workVars, containerHistory
<1>4. ContainerInv' /\ Stopped'
  BY ContainersUntouched DEF OpenVASInv
<1>5. OpenVASTypeOK'
  BY <1>2, <1>4 DEF OpenVASTypeOK, ContainerInv, Statuses
<1>6. /\ OneJobPerScan' /\ CleanedUp'
      /\ \A q \in Run \ {r} : phase'[q] = "work" => WorkInv(q)'
      /\ \A k \in 1..MaxTries : k # try[r] => Gone(<<doing[r], k>>)'
  BY <1>1, <1>2, <1>3, OwnJobOnly
<1>7. \A q \in Run : phase'[q] = "work" => WorkInv(q)'
  BY <1>6
<1>8. \A q \in Run : at'[q] = "delete" => try'[q] < MaxTries
  BY <1>2 DEF OpenVASInv
<1>9. kind' # "go"
  BY <1>1, <1>3
<1> QED
  BY <1>4, <1>5, <1>6, <1>7, <1>8, <1>9 DEF OpenVASInv

(* The facts of a call that the steps below share.                         *)
LEMMA CallFacts ==
    ASSUME OpenVASInv, NEW r \in Run, NEW here, NEW next, Call(r, here, next)
    PROVE  /\ phase[r] = "work" /\ kind = "python" /\ at[r] = here
           /\ at \in [Run -> {"target", "config", "create", "start", "poll", "delete", "report", "clean"}]
           /\ at' = [at EXCEPT ![r] = next] /\ at'[r] = next
           /\ status \in [Job -> Statuses] /\ reports \subseteq Job
           /\ targets \subseteq Task /\ configs \subseteq Task
           /\ try \in [Run -> 1..MaxTries] /\ requested \in [Run -> 0..StuckLimit]
           /\ doing[r] \in Task /\ TaskID(r) \in Job /\ TaskID(r) = <<doing[r], try[r]>>
           /\ WorkInv(r)
<1>1. phase[r] = "work" /\ kind = "python" /\ at[r] = here /\ at' = [at EXCEPT ![r] = next]
  BY DEF Call
<1>2. /\ at \in [Run -> {"target", "config", "create", "start", "poll", "delete", "report", "clean"}]
      /\ status \in [Job -> Statuses] /\ reports \subseteq Job
      /\ targets \subseteq Task /\ configs \subseteq Task
      /\ try \in [Run -> 1..MaxTries] /\ requested \in [Run -> 0..StuckLimit]
  BY DEF OpenVASInv, OpenVASTypeOK, Statuses
<1>3. doing[r] \in Task /\ TaskID(r) \in Job /\ TaskID(r) = <<doing[r], try[r]>> /\ WorkInv(r)
  BY <1>1, OwnScan DEF TaskID
<1> QED
  BY <1>1, <1>2, <1>3

LEMMA StepCreateTarget ==
    ASSUME OpenVASInv, NEW r \in Run, create_target(r)
    PROVE  OpenVASInv'
<1>1. /\ Call(r, "target", "config") /\ targets' = targets \cup {doing[r]}
      /\ UNCHANGED containerVars /\ UNCHANGED <<doing, configs, status, reports, try, requested>>
  BY DEF create_target, Scan, containerVars, workVars
<1>2. (\A k \in 1..MaxTries : k # try[r] => Gone(<<doing[r], k>>)') => WorkInv(r)'
  BY <1>1, CallFacts DEF WorkInv, Scan, TaskID, Gone
<1> QED
  BY <1>1, <1>2, CallFacts, CallKeeps

LEMMA StepCloneConfig ==
    ASSUME OpenVASInv, NEW r \in Run, clone_config(r)
    PROVE  OpenVASInv'
<1>1. /\ Call(r, "config", "create") /\ configs' = configs \cup {doing[r]}
      /\ UNCHANGED containerVars /\ UNCHANGED <<doing, targets, status, reports, try, requested>>
  BY DEF clone_config, Scan, containerVars, workVars
<1>2. (\A k \in 1..MaxTries : k # try[r] => Gone(<<doing[r], k>>)') => WorkInv(r)'
  BY <1>1, CallFacts DEF WorkInv, Scan, TaskID, Gone
<1> QED
  BY <1>1, <1>2, CallFacts, CallKeeps

LEMMA StepCreateTask ==
    ASSUME OpenVASInv, NEW r \in Run, create_task(r)
    PROVE  OpenVASInv'
<1>1. /\ Call(r, "create", "start") /\ status' = [status EXCEPT ![TaskID(r)] = "New"]
      /\ UNCHANGED containerVars /\ UNCHANGED <<doing, targets, configs, reports, try, requested>>
  BY DEF create_task, containerVars, workVars
<1>2. /\ status' \in [Job -> Statuses] /\ status'[TaskID(r)] = "New"
      /\ \A j \in Job \ {TaskID(r)} : status'[j] = status[j]
  BY <1>1, CallFacts DEF Statuses
<1>3. TaskID(r)' = TaskID(r) /\ try'[r] = try[r]
  BY <1>1 DEF TaskID
<1>4. (\A k \in 1..MaxTries : k # try[r] => Gone(<<doing[r], k>>)') => WorkInv(r)'
  BY <1>1, <1>2, <1>3, CallFacts DEF WorkInv, Scan
<1> QED
  BY <1>1, <1>2, <1>4, CallFacts, CallKeeps

LEMMA StepStartTask ==
    ASSUME OpenVASInv, NEW r \in Run, start_task(r)
    PROVE  OpenVASInv'
<1>1. /\ Call(r, "start", "poll") /\ status' = [status EXCEPT ![TaskID(r)] = "Requested"]
      /\ reports' = reports \cup {TaskID(r)}
      /\ UNCHANGED containerVars /\ UNCHANGED <<doing, targets, configs, try, requested>>
  BY DEF start_task, containerVars, workVars
<1>2. /\ status' \in [Job -> Statuses] /\ status'[TaskID(r)] = "Requested"
      /\ \A j \in Job \ {TaskID(r)} : status'[j] = status[j]
      /\ reports' \subseteq Job
  BY <1>1, CallFacts DEF Statuses
<1>3. TaskID(r)' = TaskID(r) /\ try'[r] = try[r]
  BY <1>1 DEF TaskID
<1>4. (\A k \in 1..MaxTries : k # try[r] => Gone(<<doing[r], k>>)') => WorkInv(r)'
  BY <1>1, <1>2, <1>3, CallFacts DEF WorkInv, Scan
<1>5. \A j \in Job \ {TaskID(r)} : j \in reports' <=> j \in reports
  BY <1>1
<1> QED
  BY <1>1, <1>2, <1>4, <1>5, CallFacts, CallKeeps

(* The polls, the report and the decision that the task is stuck.          *)
LEMMA StepPoll ==
    ASSUME OpenVASInv, NEW r \in Run,
           PollEnded(r) \/ PollRequested(r) \/ PollStuck(r) \/ parse_report(r)
    PROVE  OpenVASInv'
<1>1. PICK here, next :
        /\ Call(r, here, next)
        /\ \/ here = "poll" /\ next = "report" /\ status[TaskID(r)] \in EndStatus
           \/ here = "poll" /\ next = "poll"
           \/ here = "poll" /\ next = "delete" /\ try[r] < MaxTries
           \/ here = "report" /\ next = "clean"
  BY DEF PollEnded, PollRequested, PollStuck, parse_report
<1>2. UNCHANGED containerVars /\ UNCHANGED <<doing, targets, configs, status, reports, try>>
  BY DEF PollEnded, PollRequested, PollStuck, parse_report, managerVars, containerVars, workVars
<1>3. requested' \in [Run -> 0..StuckLimit]
  <2>1. CASE PollRequested(r)
    <3>1. requested[r] < StuckLimit /\ requested' = [requested EXCEPT ![r] = requested[r] + 1]
      BY <2>1 DEF PollRequested
    <3>2. requested \in [Run -> 0..StuckLimit] /\ StuckLimit \in Nat
      BY OpenVASAssumption DEF OpenVASInv, OpenVASTypeOK
    <3>3. requested[r] + 1 \in 0..StuckLimit
      BY <3>1, <3>2
    <3> QED
      BY <3>1, <3>2, <3>3
  <2>2. CASE ~PollRequested(r)
    BY <2>2, <1>1, CallFacts DEF PollEnded, PollStuck, parse_report
  <2> QED
    BY <2>1, <2>2
<1>4. TaskID(r)' = TaskID(r)
  BY <1>2 DEF TaskID
<1>5. (\A k \in 1..MaxTries : k # try[r] => Gone(<<doing[r], k>>)') => WorkInv(r)'
  BY <1>1, <1>2, <1>4, CallFacts DEF WorkInv, Scan
<1>6. next \in {"target", "config", "create", "start", "poll", "delete", "report", "clean"}
  BY <1>1
<1> QED
  BY <1>1, <1>2, <1>3, <1>5, <1>6, CallFacts, CallKeeps

(* The stuck task goes before the next is created.                         *)
LEMMA StepDeleteStuck ==
    ASSUME OpenVASInv, NEW r \in Run, delete_stuck(r)
    PROVE  OpenVASInv'
<1>1. /\ Call(r, "delete", "create") /\ status' = [status EXCEPT ![TaskID(r)] = "deleted"]
      /\ reports' = reports \ {TaskID(r)}
      /\ try' = [try EXCEPT ![r] = try[r] + 1] /\ requested' = [requested EXCEPT ![r] = 0]
      /\ UNCHANGED containerVars /\ UNCHANGED <<doing, targets, configs>>
  BY DEF delete_stuck, Delete, containerVars, workVars
<1>2. /\ status' \in [Job -> Statuses] /\ status'[TaskID(r)] = "deleted"
      /\ \A j \in Job \ {TaskID(r)} : status'[j] = status[j]
      /\ reports' \subseteq Job
  BY <1>1, CallFacts DEF Statuses
<1>3. try[r] \in 1..MaxTries /\ try[r] < MaxTries
  BY <1>1, CallFacts DEF OpenVASInv
<1>4. /\ try' \in [Run -> 1..MaxTries] /\ try'[r] = try[r] + 1
      /\ \A q \in Run \ {r} : try'[q] = try[q]
      /\ requested' \in [Run -> 0..StuckLimit]
  BY <1>1, <1>3, CallFacts, OpenVASAssumption
<1>5. ASSUME \A k \in 1..MaxTries : k # try[r] => Gone(<<doing[r], k>>)'
      PROVE  WorkInv(r)'
  <2> PICK n : n = try[r]
    OBVIOUS
  <2>1. Gone(<<doing[r], n>>)'
    BY <1>1, <1>2, CallFacts DEF Gone
  <2>2. \A k \in 1..MaxTries : Gone(<<doing[r], k>>)'
    BY <1>5, <2>1
  <2>3. TaskID(r)' = <<doing[r], try[r] + 1>> /\ try[r] + 1 \in 1..MaxTries
    BY <1>1, <1>3, <1>4 DEF TaskID
  <2> QED
    BY <1>1, <2>2, <2>3, CallFacts DEF WorkInv, Scan, Gone
<1>6. \A j \in Job \ {TaskID(r)} : j \in reports' <=> j \in reports
  BY <1>1
<1> QED
  BY <1>1, <1>2, <1>4, <1>5, <1>6, CallFacts, CallKeeps

(* The clean-up leaves nothing of the scan but its config.                 *)
LEMMA StepCleanUp ==
    ASSUME OpenVASInv, NEW r \in Run, CleanUp(r)
    PROVE  OpenVASInv'
<1>1. /\ Call(r, "clean", "target") /\ status' = [status EXCEPT ![TaskID(r)] = "deleted"]
      /\ reports' = reports \ {TaskID(r)} /\ targets' = targets \ {doing[r]}
      /\ WorkReturns(r) /\ UNCHANGED <<configs, try, requested>>
  BY DEF CleanUp, Delete, Scan
<1>2. /\ phase' = [phase EXCEPT ![r] = "done"] /\ UNCHANGED <<kind, docker, doing, broken>>
      /\ phase \in [Run -> {"work", "done"}]
  BY <1>1 DEF WorkReturns, masterVars, boxVars, containerHistory,
              OpenVASInv, ContainerInv, ContainerTypeOK
<1>3. /\ status' \in [Job -> Statuses] /\ status'[TaskID(r)] = "deleted"
      /\ \A j \in Job \ {TaskID(r)} : status'[j] = status[j] /\ (j \in reports' <=> j \in reports)
      /\ reports' \subseteq Job /\ targets' \subseteq Task
      /\ TaskID(r) \notin reports' /\ doing[r] \notin targets'
      /\ \A t \in Task \ {doing[r]} : t \in targets' <=> t \in targets
  BY <1>1, CallFacts DEF Statuses
<1>4. /\ at' \in [Run -> {"target", "config", "create", "start", "poll", "delete", "report", "clean"}]
      /\ at'[r] = "target" /\ phase'[r] = "done"
      /\ \A q \in Run \ {r} : phase'[q] = phase[q] /\ at'[q] = at[q] /\ try'[q] = try[q]
  BY <1>1, <1>2, CallFacts
<1>5. ContainerInv' /\ Stopped'
  BY <1>1, ContainerKept DEF OpenVASInv, ContainerAction
<1>6. /\ OneJobPerScan' /\ CleanedUp'
      /\ \A q \in Run \ {r} : phase'[q] = "work" => WorkInv(q)'
  BY <1>1, <1>2, <1>3, <1>4, CallFacts, OwnJobOnly
<1>7. OpenVASTypeOK'
  BY <1>1, <1>3, <1>4, <1>5, CallFacts DEF OpenVASTypeOK, ContainerInv, Statuses
<1>8. \A q \in Run : at'[q] = "delete" => try'[q] < MaxTries
  BY <1>4 DEF OpenVASInv
<1>9. kind' # "go"
  BY <1>1, <1>2, CallFacts
<1> QED
  BY <1>4, <1>5, <1>6, <1>7, <1>8, <1>9 DEF OpenVASInv

(* A scan begins with nothing at the manager: it has not begun before.     *)
LEMMA StepBegin ==
    ASSUME OpenVASInv, NEW r \in Run, Begin(r)
    PROVE  OpenVASInv'
<1>1. /\ BeginWork(r) /\ at' = [at EXCEPT ![r] = "target"]
      /\ try' = [try EXCEPT ![r] = 1] /\ requested' = [requested EXCEPT ![r] = 0]
      /\ UNCHANGED <<targets, configs, status, reports>>
  BY DEF Begin, managerVars
<1>2. PICK t \in queue[r] : doing' = [doing EXCEPT ![r] = t]
  BY <1>1 DEF BeginWork
<1>3. /\ doing[r] = NoTask /\ phase' = [phase EXCEPT ![r] = "work"]
      /\ UNCHANGED <<kind, docker, broken>> /\ Running(r)
  BY <1>1 DEF BeginWork, masterVars, boxVars, containerHistory
<1>4. /\ ContainerTypeOK /\ Exclusive
      /\ queue \in [Run -> SUBSET Task] /\ doing \in [Run -> Task \cup {NoTask}]
      /\ phase \in [Run -> {"work", "done"}]
      /\ \A q \in Run : doing[q] \notin queue[q] /\ (phase[q] = "work" => doing[q] # NoTask)
      /\ at \in [Run -> {"target", "config", "create", "start", "poll", "delete", "report", "clean"}]
      /\ try \in [Run -> 1..MaxTries] /\ requested \in [Run -> 0..StuckLimit]
  BY DEF OpenVASInv, OpenVASTypeOK, ContainerInv, ContainerTypeOK
<1>5. /\ t \in Task /\ t \in Tasks(r) /\ t \notin broken
      /\ \A q \in Run : phase[q] = "work" => doing[q] # t
  <2>1. t \in Task /\ t \in Tasks(r)
    BY <1>2, <1>4 DEF Tasks
  <2>2. ASSUME NEW q \in Run, phase[q] = "work" PROVE doing[q] # t
    <3>1. doing[q] \in Tasks(q)
      BY <1>4, <2>2 DEF Tasks
    <3>2. q # r
      BY <1>3, <1>4, <2>2
    <3> QED
      BY <1>4, <2>1, <3>1, <3>2 DEF Exclusive
  <2> QED
    BY <1>4, <2>1, <2>2 DEF Exclusive
<1>6. /\ doing'[r] = t /\ phase'[r] = "work" /\ at'[r] = "target" /\ try'[r] = 1
      /\ \A q \in Run \ {r} : /\ doing'[q] = doing[q] /\ phase'[q] = phase[q]
                              /\ at'[q] = at[q] /\ try'[q] = try[q]
      /\ at' \in [Run -> {"target", "config", "create", "start", "poll", "delete", "report", "clean"}]
      /\ try' \in [Run -> 1..MaxTries] /\ requested' \in [Run -> 0..StuckLimit]
  BY <1>1, <1>2, <1>3, <1>4, OpenVASAssumption
<1>7. t \notin targets /\ \A k \in 1..MaxTries : Gone(<<t, k>>)
  BY <1>5 DEF OpenVASInv, CleanedUp, Gone
<1>8. ContainerInv' /\ Stopped'
  BY <1>1, ContainerKept DEF OpenVASInv, ContainerAction
<1>9. OpenVASTypeOK'
  BY <1>1, <1>6, <1>8 DEF OpenVASInv, OpenVASTypeOK, ContainerInv
<1>10. OneJobPerScan'
  BY <1>1 DEF OpenVASInv, OneJobPerScan
<1>11. CleanedUp'
  <2>1. \A q \in Run : Running(q)' = Running(q)
    BY <1>3 DEF Running
  <2>2. phase[r] = "done"
    BY <1>3, <1>4
  <2>3. \A q \in Run : phase[q] = "work" => phase'[q] = "work" /\ doing'[q] = doing[q]
    BY <1>6, <2>2
  <2> QED
    BY <1>1, <1>3, <2>1, <2>3 DEF OpenVASInv, CleanedUp
<1>12. ASSUME NEW q \in Run, phase'[q] = "work" PROVE WorkInv(q)'
  <2>1. CASE q = r
    <3>1. TaskID(r)' = <<t, 1>> /\ 1 \in 1..MaxTries
      BY <1>6, OpenVASAssumption DEF TaskID
    <3>2. \A k \in 1..MaxTries : Gone(<<t, k>>)'
      BY <1>1, <1>7 DEF Gone
    <3> QED
      BY <1>1, <1>6, <1>7, <2>1, <3>1, <3>2 DEF WorkInv, Scan
  <2>2. CASE q # r
    <3>1. WorkInv(q) /\ TaskID(q)' = TaskID(q)
      BY <1>6, <1>12, <2>2 DEF OpenVASInv, TaskID
    <3> QED
      BY <1>1, <1>6, <2>2, <3>1 DEF WorkInv, Scan, Gone
  <2> QED
    BY <2>1, <2>2
<1>13. \A q \in Run : at'[q] = "delete" => try'[q] < MaxTries
  BY <1>6 DEF OpenVASInv
<1>14. kind' = "go" => \A q \in Run : at'[q] = "target"
  BY <1>3, <1>6 DEF OpenVASInv
<1> QED
  BY <1>8, <1>9, <1>10, <1>11, <1>12, <1>13, <1>14 DEF OpenVASInv

(* What goes on around the work functions: a scan goes on, is cut off, or  *)
(* is one of a Go scanner, which leaves the manager alone.                 *)
LEMMA AroundWork ==
    ASSUME OpenVASInv, UNCHANGED <<managerVars, localVars>>,
           \/ MasterStep \/ OperatorStep
           \/ \E r \in Run : ContainerStep(r) \/ GoWork(r) \/ WorkFails(r)
    PROVE  /\ kind' = kind /\ broken \subseteq broken'
           /\ \A q \in Run : phase'[q] = "work" => phase[q] = "work" /\ doing'[q] = doing[q]
           /\ \A q \in Run : Running(q) /\ phase[q] = "work" =>
                 \/ Running(q)' /\ phase'[q] = "work" /\ doing'[q] = doing[q]
                 \/ doing[q] \in broken'
                 \/ kind = "go"
<1>1. /\ ContainerTypeOK /\ run \in Run
      /\ docker \in [Run -> {"none", "running", "exited", "removed"}]
      /\ phase \in [Run -> {"work", "done"}] /\ doing \in [Run -> Task \cup {NoTask}]
      /\ \A q \in Run : doing[q] \notin queue[q] /\ (phase[q] = "work" => doing[q] # NoTask)
  BY DEF OpenVASInv, ContainerInv, ContainerTypeOK
<1>2. ASSUME UNCHANGED <<kind, doing, phase, broken>>, \A q \in Run : Running(q) /\ phase[q] = "work" => Running(q)'
      PROVE  /\ kind' = kind /\ broken \subseteq broken'
             /\ \A q \in Run : phase'[q] = "work" => phase[q] = "work" /\ doing'[q] = doing[q]
             /\ \A q \in Run : Running(q) /\ phase[q] = "work" =>
                   Running(q)' /\ phase'[q] = "work" /\ doing'[q] = doing[q]
  BY <1>2
<1>3. ASSUME NEW r \in Run, NEW state \in {"exited", "removed"}, Ends(r, state), kind' = kind
      PROVE  /\ kind' = kind /\ broken \subseteq broken'
             /\ \A q \in Run : phase'[q] = "work" => phase[q] = "work" /\ doing'[q] = doing[q]
             /\ \A q \in Run : Running(q) /\ phase[q] = "work" =>
                   \/ Running(q)' /\ phase'[q] = "work" /\ doing'[q] = doing[q]
                   \/ doing[q] \in broken'
  <2>1. phase[r] = "work" => doing[r] \in Tasks(r)
    BY <1>1 DEF Tasks
  <2> QED
    BY <1>1, <1>3, <2>1, EndsOne DEF Running
<1>4. CASE waitForRegister \/ waitForFinishTask \/ SendArtifact \/ SendArtifactRefused
           \/ MasterDies \/ Restart
  BY <1>2, <1>4 DEF waitForRegister, waitForFinishTask, TakeMessage, SendArtifact,
     SendArtifactRefused, MasterDies, Restart, boxVars, workVars, containerHistory, Running
<1>5. CASE RunContainer
  BY <1>1, <1>2, <1>5 DEF RunContainer, workVars, containerHistory, Running
<1>6. CASE StopContainer \/ \E r \in Run : StopScanners(r)
  BY <1>1, <1>3, <1>6 DEF StopContainer, StopScanners, masterVars
<1>7. CASE RemoveContainer
  <2>1. \A q \in Run : Running(q) => Running(q)'
    BY <1>1, <1>7 DEF RemoveContainer, OpenVASInv, Stopped, Running
  <2> QED
    BY <1>2, <1>7, <2>1 DEF RemoveContainer, workVars
<1>8. ASSUME NEW r \in Run, Bind(r)
      PROVE  UNCHANGED <<kind, doing, phase, broken>> /\ \A q \in Run : Running(q) /\ phase[q] = "work" => Running(q)'
  <2>1. /\ server[r] = "starting" /\ docker' \in {docker, [docker EXCEPT ![r] = "exited"]}
        /\ UNCHANGED <<kind, doing, phase, broken>>
    BY <1>8 DEF Bind, masterVars, workVars, containerHistory
  <2>2. phase[r] # "work"
    BY <1>1, <2>1 DEF OpenVASInv, ContainerInv, Exclusive, Listens, Tasks
  <2> QED
    BY <1>1, <2>1, <2>2 DEF Running
<1>9. CASE \E r \in Run : Register(r)
  BY <1>2, <1>3, <1>9 DEF Register, workVars, Running
<1>10. ASSUME NEW r \in Run, SendMsgFinishTask(r)
       PROVE  \/ Ends(r, "exited") /\ kind' = kind
              \/ /\ kind' = kind /\ broken \subseteq broken'
                 /\ \A q \in Run : phase'[q] = "work" => phase[q] = "work" /\ doing'[q] = doing[q]
                 /\ \A q \in Run : Running(q) /\ phase[q] = "work" =>
                       Running(q)' /\ phase'[q] = "work" /\ doing'[q] = doing[q]
  BY <1>1, <1>10 DEF SendMsgFinishTask, Running
<1>11. ASSUME NEW r \in Run, WorkFails(r)
       PROVE  \/ Ends(r, "exited") /\ kind' = kind
              \/ /\ kind' = kind /\ broken \subseteq broken'
                 /\ \A q \in Run : phase'[q] = "work" => phase[q] = "work" /\ doing'[q] = doing[q]
                 /\ \A q \in Run : Running(q) /\ phase[q] = "work" =>
                       \/ Running(q)' /\ phase'[q] = "work" /\ doing'[q] = doing[q]
                       \/ doing[q] \in broken'
  <2>1. CASE Ends(r, "exited")
    BY <1>11, <2>1 DEF WorkFails, masterVars
  <2>2. CASE kind # "go"
    BY <1>1, <1>11, <2>2 DEF WorkFails, masterVars, Running
  <2> QED
    BY <1>11, <2>1, <2>2 DEF WorkFails
<1>12. CASE \E r \in Run : GoWork(r)
  BY <1>1, <1>12 DEF GoWork, WorkReturns, masterVars, boxVars, containerHistory
<1> QED
  BY <1>2, <1>3, <1>4, <1>5, <1>6, <1>7, <1>8, <1>9, <1>10, <1>11, <1>12
  DEF MasterStep, OperatorStep, ContainerStep

LEMMA StepAround ==
    ASSUME OpenVASInv, UNCHANGED <<managerVars, localVars>>,
           \/ MasterStep \/ OperatorStep
           \/ \E r \in Run : ContainerStep(r) \/ GoWork(r) \/ WorkFails(r)
    PROVE  OpenVASInv'
<1>1. /\ kind' = kind /\ broken \subseteq broken'
      /\ \A q \in Run : phase'[q] = "work" => phase[q] = "work" /\ doing'[q] = doing[q]
      /\ \A q \in Run : Running(q) /\ phase[q] = "work" =>
            \/ Running(q)' /\ phase'[q] = "work" /\ doing'[q] = doing[q]
            \/ doing[q] \in broken'
            \/ kind = "go"
  BY AroundWork
<1>2. UNCHANGED <<targets, configs, status, reports, at, try, requested>>
  BY DEF managerVars, localVars
<1>3. ContainerInv' /\ Stopped'
  BY ContainerKept DEF OpenVASInv, ContainerAction, GoWork
<1>4. OpenVASTypeOK' /\ OneJobPerScan'
  BY <1>2, <1>3 DEF OpenVASInv, OpenVASTypeOK, ContainerInv, OneJobPerScan
<1>5. CleanedUp'
  <2> SUFFICES ASSUME NEW t \in Task, t \notin broken',
                      ~\E q \in Run : Running(q)' /\ doing'[q] = t /\ phase'[q] = "work"
               PROVE  /\ t \notin targets
                      /\ \A k \in 1..MaxTries : status[<<t, k>>] \in {"none", "deleted"}
                                                /\ <<t, k>> \notin reports
    BY <1>2 DEF CleanedUp
  <2>1. CASE \E q \in Run : Running(q) /\ doing[q] = t /\ phase[q] = "work"
    <3>1. PICK q \in Run : Running(q) /\ doing[q] = t /\ phase[q] = "work"
      BY <2>1
    <3>2. at[q] = "target"
      BY <1>1, <3>1 DEF OpenVASInv
    <3>3. WorkInv(q) /\ TaskID(q) = <<t, try[q]>>
      BY <3>1 DEF OpenVASInv, TaskID
    <3> QED
      BY <3>1, <3>2, <3>3 DEF WorkInv, Scan, Gone
  <2>2. CASE ~\E q \in Run : Running(q) /\ doing[q] = t /\ phase[q] = "work"
    BY <1>1, <2>2 DEF OpenVASInv, CleanedUp
  <2> QED
    BY <2>1, <2>2
<1>6. ASSUME NEW q \in Run, phase'[q] = "work" PROVE WorkInv(q)'
  <2>1. WorkInv(q) /\ TaskID(q)' = TaskID(q) /\ doing'[q] = doing[q]
    BY <1>1, <1>2, <1>6 DEF OpenVASInv, TaskID
  <2> QED
    BY <1>2, <2>1 DEF WorkInv, Scan, Gone
<1>7. \A q \in Run : (at'[q] = "delete" => try'[q] < MaxTries) /\ (kind' = "go" => at'[q] = "target")
  BY <1>1, <1>2 DEF OpenVASInv
<1> QED
  BY <1>3, <1>4, <1>5, <1>6, <1>7 DEF OpenVASInv

(* The manager goes on with what was requested, whoever requested it.      *)
LEMMA StepManager ==
    ASSUME OpenVASInv, NEW j \in Job, ManagerRuns(j) \/ ManagerEnds(j)
    PROVE  OpenVASInv'
<1>1. PICK old, new :
        /\ status[j] = old /\ status' = [status EXCEPT ![j] = new]
        /\ \/ old = "Requested" /\ new = "Running"
           \/ old = "Running" /\ new \in EndStatus
  BY DEF ManagerRuns, ManagerEnds
<1>2. UNCHANGED containerVars /\ UNCHANGED <<targets, configs, reports, at, try, requested>>
  BY DEF ManagerRuns, ManagerEnds, localVars
<1>3. UNCHANGED <<kind, docker, doing, phase, broken>>
  BY <1>2 DEF containerVars, masterVars, boxVars, workVars, containerHistory
<1>4. ContainerInv' /\ Stopped'
  BY <1>2, ContainersUntouched DEF OpenVASInv
<1>5. /\ status \in [Job -> Statuses] /\ status' \in [Job -> Statuses]
      /\ status'[j] = new /\ \A i \in Job \ {j} : status'[i] = status[i]
  BY <1>1 DEF OpenVASInv, OpenVASTypeOK, Statuses, EndStatus
<1>6. OpenVASTypeOK'
  BY <1>2, <1>4, <1>5 DEF OpenVASInv, OpenVASTypeOK, ContainerInv, Statuses
<1>7. \A i \in Job : /\ status'[i] \in {"Requested", "Running"} => status[i] \in {"Requested", "Running"}
                     /\ status[i] \notin {"Requested", "Running"} => status'[i] = status[i]
                     /\ status[i] \in {"Requested", "Running"} =>
                           status'[i] \in {"Requested", "Running"} \cup EndStatus
  BY <1>1, <1>5
<1>8. \A t \in Task, k \in 1..MaxTries : <<t, k>> \in Job
  BY DEF Job
<1>9. OneJobPerScan'
  BY <1>7, <1>8 DEF OpenVASInv, OneJobPerScan
<1>10. CleanedUp'
  <2>1. \A q \in Run : Running(q)' = Running(q)
    BY <1>3 DEF Running
  <2>2. \A t \in Task, k \in 1..MaxTries :
          status[<<t, k>>] \in {"none", "deleted"} => status'[<<t, k>>] \in {"none", "deleted"}
    BY <1>7, <1>8
  <2> QED
    BY <1>2, <1>3, <2>1, <2>2 DEF OpenVASInv, CleanedUp
<1>11. ASSUME NEW q \in Run, phase'[q] = "work" PROVE WorkInv(q)'
  <2>1. /\ WorkInv(q) /\ TaskID(q) \in Job /\ doing[q] \in Task /\ TaskID(q)' = TaskID(q)
    BY <1>2, <1>3, <1>11, OwnScan DEF TaskID
  <2>2. \A i \in Job : Gone(i) => Gone(i)'
    BY <1>2, <1>7 DEF Gone
  <2>3. \A k \in 1..MaxTries : k # try'[q] => Gone(<<doing[q], k>>)'
    BY <1>2, <1>3, <1>8, <2>1, <2>2 DEF WorkInv, Scan, Gone
  <2>4. status[TaskID(q)] \in EndStatus \cup {"New"} => status'[TaskID(q)] = status[TaskID(q)]
    BY <1>7, <2>1 DEF EndStatus
  <2>5. status[TaskID(q)] \in {"Requested", "Running"} \cup EndStatus
        => status'[TaskID(q)] \in {"Requested", "Running"} \cup EndStatus
    BY <1>7, <2>1, <2>4
  <2> QED
    BY <1>2, <1>3, <2>1, <2>2, <2>3, <2>4, <2>5 DEF WorkInv, Scan
<1>12. \A q \in Run : (at'[q] = "delete" => try'[q] < MaxTries) /\ (kind' = "go" => at'[q] = "target")
  BY <1>2, <1>3 DEF OpenVASInv
<1> QED
  BY <1>4, <1>6, <1>9, <1>10, <1>11, <1>12 DEF OpenVASInv

-----------------------------------------------------------------------------
(* The theorems.                                                           *)

LEMMA InitOpenVASInv == OpenVASInit => OpenVASInv
<1> SUFFICES ASSUME OpenVASInit PROVE OpenVASInv
  OBVIOUS
<1>1. ContainerInv /\ Stopped
  BY InitContainerInv DEF OpenVASInit
<1>2. OpenVASTypeOK
  BY <1>1, OpenVASAssumption DEF OpenVASInit, OpenVASTypeOK, ContainerInv
<1>3. \A t \in Task, k \in 1..MaxTries : status[<<t, k>>] = "none"
  BY DEF OpenVASInit, Job
<1>4. OneJobPerScan /\ CleanedUp
  BY <1>3 DEF OpenVASInit, OneJobPerScan, CleanedUp
<1>5. \A r \in Run : phase[r] # "work" /\ at[r] = "target"
  BY DEF OpenVASInit, ContainerInit
<1> QED
  BY <1>1, <1>2, <1>4, <1>5 DEF OpenVASInv

LEMMA NextOpenVASInv == OpenVASInv /\ [OpenVASNext]_openVASVars => OpenVASInv'
<1>1. CASE UNCHANGED openVASVars
  <2> SUFFICES ASSUME OpenVASInv PROVE OpenVASInv'
    OBVIOUS
  <2>1. UNCHANGED containerVars /\ UNCHANGED <<targets, configs, status, reports, at, try, requested>>
    BY <1>1 DEF openVASVars, managerVars, localVars
  <2>2. UNCHANGED <<kind, docker, doing, phase, broken>>
    BY <2>1 DEF containerVars, masterVars, boxVars, workVars, containerHistory
  <2>3. ContainerInv' /\ Stopped'
    BY <2>1, ContainersUntouched DEF OpenVASInv
  <2>4. OpenVASTypeOK' /\ OneJobPerScan' /\ CleanedUp'
    BY <2>1, <2>2, <2>3 DEF OpenVASInv, OpenVASTypeOK, ContainerInv, OneJobPerScan, CleanedUp, Running
  <2>5. \A q \in Run : WorkInv(q) => WorkInv(q)'
    BY <2>1, <2>2 DEF WorkInv, Scan, TaskID, Gone
  <2> QED
    BY <2>1, <2>2, <2>3, <2>4, <2>5 DEF OpenVASInv
<1>2. ASSUME OpenVASInv, OpenVASNext PROVE OpenVASInv'
  BY <1>2, StepAround, StepBegin, StepManager, StepCreateTarget, StepCloneConfig, StepCreateTask,
     StepStartTask, StepPoll, StepDeleteStuck, StepCleanUp
  DEF OpenVASNext, Work
<1> QED
  BY <1>1, <1>2

(* The inductive invariant of the instance, its containers and their scans.*)
THEOREM OpenVASInvHolds == OpenVASSpec => []OpenVASInv
  BY InitOpenVASInv, NextOpenVASInv, PTL DEF OpenVASSpec

(* A clean run is not refused, and what is left behind came from a process *)
(* that ended at once.                                                     *)
THEOREM CleanRunsServed == OpenVASSpec => []CleanRunsNotRefused
<1>1. OpenVASInv => CleanRunsNotRefused
  BY DEF OpenVASInv, ContainerInv
<1> QED
  BY <1>1, OpenVASInvHolds, PTL

THEOREM LeftoversExplained == OpenVASSpec => []LeftoversNeedDeath
<1>1. OpenVASInv => LeftoversNeedDeath
  BY DEF OpenVASInv, ContainerInv
<1> QED
  BY <1>1, OpenVASInvHolds, PTL

(* In a clean run an idle instance has no task under way, neither in its   *)
(* own container nor, of its own, in another.                              *)
THEOREM FinishIsHonest == OpenVASSpec => []FinishHonest
<1>1. OpenVASInv => FinishHonest
  <2> SUFFICES ASSUME OpenVASInv, run \in clean, instance = "idle", NEW r \in Run
               PROVE  Tasks(r) = {}
    BY DEF FinishHonest
  <2>1. Tasks(run) = {} /\ \A q \in Run \ {run} : ~Running(q)
    BY DEF OpenVASInv, ContainerInv, CleanRun, ItsTurn
  <2> QED
    BY <2>1 DEF OpenVASInv, ContainerInv, Exclusive, Listens
<1> QED
  BY <1>1, OpenVASInvHolds, PTL

(* A scan has one task requested or running at the manager.                *)
THEOREM OneJob == OpenVASSpec => []OneJobPerScan
<1>1. OpenVASInv => OneJobPerScan
  BY DEF OpenVASInv
<1> QED
  BY <1>1, OpenVASInvHolds, PTL

(* The report that is read is the one of the task that was started last,   *)
(* which has ended.                                                        *)
THEOREM RightReport == OpenVASSpec => []ReportOfEndedJob
<1>1. OpenVASInv => ReportOfEndedJob
  <2> SUFFICES ASSUME OpenVASInv, NEW r \in Run, phase[r] = "work", at[r] \in {"report", "clean"}
               PROVE  /\ status[TaskID(r)] \in EndStatus /\ TaskID(r) \in reports
                      /\ \A k \in 1..MaxTries :
                            status[<<Scan(r), k>>] \notin {"New", "Requested", "Running"}
    BY DEF ReportOfEndedJob
  <2>1. WorkInv(r) /\ TaskID(r) = <<Scan(r), try[r]>>
    BY OwnScan DEF TaskID, Scan
  <2>2. status[TaskID(r)] \in EndStatus /\ TaskID(r) \in reports
    BY <2>1 DEF WorkInv
  <2>3. ASSUME NEW k \in 1..MaxTries
        PROVE  status[<<Scan(r), k>>] \notin {"New", "Requested", "Running"}
    BY <2>1, <2>2 DEF WorkInv, Gone, EndStatus
  <2> QED
    BY <2>2, <2>3
<1> QED
  BY <1>1, OpenVASInvHolds, PTL

(* Targets, tasks and reports do not accumulate at the manager.            *)
THEOREM NothingAccumulates == OpenVASSpec => []CleanedUp
<1>1. OpenVASInv => CleanedUp
  BY DEF OpenVASInv
<1> QED
  BY <1>1, OpenVASInvHolds, PTL
=============================================================================
