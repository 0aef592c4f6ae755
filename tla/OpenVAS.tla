------------------------------- MODULE OpenVAS -------------------------------
(***************************************************************************)
(* The OpenVAS scanner (scanners/scanner_openvas/main.py): the work        *)
(* function of the Python containers of Container, which creates target,   *)
(* configuration and task at an external manager, starts the task, polls   *)
(* it, starts it anew when it is stuck, and cleans up.  The manager goes   *)
(* on whatever becomes of the containers.  A scan is its task of           *)
(* Container; its k-th task at the manager is <<scan, k>>.                 *)
(***************************************************************************)
EXTENDS Container

CONSTANTS
    StuckLimit,  \* polls that find a task requested before it is restarted
    MaxTries     \* bound: tasks of one scan at the manager

ASSUME OpenVASAssumption == StuckLimit \in Nat /\ MaxTries \in Nat \ {0}

Job == Task \X (1..MaxTries)
EndStatus == {"Done", "Stopped", "Interrupted"}

VARIABLES
    targets, configs,  \* the scans whose target, whose cloned config, exists
    status,            \* status[j]: a job at the manager
    reports,           \* the jobs with a report
    at,                \* at[r]: the next call of the work function
    try,               \* try[r]: task_id is the try[r]-th job of the scan
    requested          \* requested[r]: requested_count

managerVars == <<targets, configs, status, reports>>
localVars == <<at, try, requested>>
openVASVars == <<containerVars, managerVars, localVars>>

OpenVASInit ==
    /\ ContainerInit
    /\ targets = {} /\ configs = {} /\ reports = {}
    /\ status = [j \in Job |-> "none"]
    /\ at = [r \in Run |-> "target"] /\ try = [r \in Run |-> 1]
    /\ requested = [r \in Run |-> 0]

Scan(r) == doing[r]
TaskID(r) == <<doing[r], try[r]>>

Begin(r) ==
    /\ BeginWork(r)
    /\ at' = [at EXCEPT ![r] = "target"]
    /\ try' = [try EXCEPT ![r] = 1] /\ requested' = [requested EXCEPT ![r] = 0]
    /\ UNCHANGED managerVars

-----------------------------------------------------------------------------
(* The calls of the work function, in their order.                         *)
Call(r, here, next) ==
    /\ kind = "python" /\ Running(r) /\ phase[r] = "work"
    /\ at[r] = here
    /\ at' = [at EXCEPT ![r] = next]

create_target(r) ==
    /\ Call(r, "target", "config")
    /\ targets' = targets \cup {Scan(r)}
    /\ UNCHANGED <<containerVars, configs, status, reports, try, requested>>

(* clone_config, and the preferences that are set in the clone.            *)
clone_config(r) ==
    /\ Call(r, "config", "create")
    /\ configs' = configs \cup {Scan(r)}
    /\ UNCHANGED <<containerVars, targets, status, reports, try, requested>>

create_task(r) ==
    /\ Call(r, "create", "start")
    /\ status' = [status EXCEPT ![TaskID(r)] = "New"]
    /\ UNCHANGED <<containerVars, targets, configs, reports, try, requested>>

start_task(r) ==
    /\ Call(r, "start", "poll")
    /\ status' = [status EXCEPT ![TaskID(r)] = "Requested"]
    /\ reports' = reports \cup {TaskID(r)}
    /\ UNCHANGED <<containerVars, targets, configs, try, requested>>

(* Variant: an interrupted task is polled on.                              *)
PollEnded_NotInterrupted(r) ==
    /\ Call(r, "poll", "report")
    /\ status[TaskID(r)] \in {"Done", "Stopped"}
    /\ UNCHANGED <<containerVars, managerVars, try, requested>>

(* Variant: whatever is not requested any more has ended.                  *)
PollEnded_NotRequested(r) ==
    /\ Call(r, "poll", "report")
    /\ status[TaskID(r)] # "Requested"
    /\ UNCHANGED <<containerVars, managerVars, try, requested>>

PollEnded(r) ==
    /\ Call(r, "poll", "report")
    /\ status[TaskID(r)] \in EndStatus
    /\ UNCHANGED <<containerVars, managerVars, try, requested>>

(* Variant: the count is not compared.                                     *)
PollRequested_NoLimit(r) ==
    /\ Call(r, "poll", "poll")
    /\ status[TaskID(r)] = "Requested"
    /\ requested' = [requested EXCEPT ![r] = @ + 1]
    /\ UNCHANGED <<containerVars, managerVars, try>>

PollRequested(r) ==
    /\ Call(r, "poll", "poll")
    /\ status[TaskID(r)] = "Requested" /\ requested[r] < StuckLimit
    /\ requested' = [requested EXCEPT ![r] = @ + 1]
    /\ UNCHANGED <<containerVars, managerVars, try>>

Delete(j) ==
    /\ status' = [status EXCEPT ![j] = "deleted"]
    /\ reports' = reports \ {j}

(* Variant: the stuck task is not deleted.                                 *)
PollStuck_NotDeleted(r) ==
    /\ Call(r, "poll", "create")
    /\ status[TaskID(r)] = "Requested" /\ requested[r] = StuckLimit
    /\ try[r] < MaxTries
    /\ try' = [try EXCEPT ![r] = @ + 1] /\ requested' = [requested EXCEPT ![r] = 0]
    /\ UNCHANGED <<containerVars, managerVars>>

(* The task is stuck: it is deleted, and a new one created and started.    *)
(* The manager may have begun to run it since the poll.                    *)
PollStuck(r) ==
    /\ Call(r, "poll", "delete")
    /\ status[TaskID(r)] = "Requested" /\ requested[r] = StuckLimit
    /\ try[r] < MaxTries
    /\ UNCHANGED <<containerVars, managerVars, try, requested>>

delete_stuck(r) ==
    /\ Call(r, "delete", "create")
    /\ Delete(TaskID(r))
    /\ try' = [try EXCEPT ![r] = @ + 1] /\ requested' = [requested EXCEPT ![r] = 0]
    /\ UNCHANGED <<containerVars, targets, configs>>

(* The results of the task's last report are posted.                       *)
parse_report(r) ==
    /\ Call(r, "report", "clean")
    /\ UNCHANGED <<containerVars, managerVars, try, requested>>

(* Variant: the target goes first, and the manager keeps one in use.       *)
CleanUp_TargetFirst(r) ==
    /\ Call(r, "clean", "target")
    /\ Delete(TaskID(r))
    /\ WorkReturns(r)
    /\ UNCHANGED <<targets, configs, try, requested>>

(* Report, task and target are deleted, the cloned config is not.          *)
CleanUp(r) ==
    /\ Call(r, "clean", "target")
    /\ Delete(TaskID(r))
    /\ targets' = targets \ {Scan(r)}
    /\ WorkReturns(r)
    /\ UNCHANGED <<configs, try, requested>>

Work(r) ==
    \/ create_target(r) \/ clone_config(r) \/ create_task(r) \/ start_task(r)
    \/ PollEnded(r) \/ PollRequested(r) \/ PollStuck(r) \/ delete_stuck(r)
    \/ parse_report(r) \/ CleanUp(r)

-----------------------------------------------------------------------------
(* The manager.                                                            *)
ManagerRuns(j) ==
    /\ status[j] = "Requested"
    /\ status' = [status EXCEPT ![j] = "Running"]
    /\ UNCHANGED <<containerVars, targets, configs, reports, localVars>>

ManagerEnds(j) ==
    /\ status[j] = "Running"
    /\ \E s \in EndStatus : status' = [status EXCEPT ![j] = s]
    /\ UNCHANGED <<containerVars, targets, configs, reports, localVars>>

GoWork(r) == kind = "go" /\ WorkReturns(r)

OpenVASNext ==
    \/ (MasterStep \/ OperatorStep) /\ UNCHANGED <<managerVars, localVars>>
    \/ \E r \in Run :
          \/ (ContainerStep(r) \/ GoWork(r) \/ WorkFails(r)) /\ UNCHANGED <<managerVars, localVars>>
          \/ Begin(r) \/ Work(r)
    \/ \E j \in Job : ManagerRuns(j) \/ ManagerEnds(j)

(* Fair are the goroutines and threads, and the manager, which runs what   *)
(* is requested and ends what it runs.                                     *)
OpenVASSpec ==
    /\ OpenVASInit /\ [][OpenVASNext]_openVASVars
    /\ WF_openVASVars(MasterStep /\ UNCHANGED <<managerVars, localVars>>)
    /\ \A r \in Run :
          /\ WF_openVASVars((ContainerStep(r) \/ GoWork(r)) /\ UNCHANGED <<managerVars, localVars>>)
          /\ WF_openVASVars(Begin(r) \/ Work(r))
    /\ \A j \in Job : WF_openVASVars(ManagerRuns(j)) /\ WF_openVASVars(ManagerEnds(j))

-----------------------------------------------------------------------------
(* Types, and the work function is where the container is.                 *)
OpenVASTypeOK ==
    /\ ContainerTypeOK
    /\ targets \subseteq Task /\ configs \subseteq Task /\ reports \subseteq Job
    /\ status \in [Job -> {"none", "New", "Requested", "Running", "deleted"} \cup EndStatus]
    /\ try \in [Run -> 1..MaxTries] /\ requested \in [Run -> 0..StuckLimit]
    /\ at \in [Run -> {"target", "config", "create", "start", "poll", "delete", "report", "clean"}]

(* A restart does not leave the stuck task behind: a scan has one task     *)
(* requested or running at the manager, so that the time between requests  *)
(* that its config sets is kept.                                           *)
OneJobPerScan ==
    \A t \in Task, i, k \in 1..MaxTries :
        status[<<t, i>>] \in {"Requested", "Running"} /\ status[<<t, k>>] \in {"Requested", "Running"}
            => i = k

(* What is posted is the report of a task of this scan that has ended: the *)
(* task started last, also if the first was deleted while it began to run. *)
ReportOfEndedJob ==
    \A r \in Run : Running(r) /\ phase[r] = "work" /\ at[r] \in {"report", "clean"} /\ kind = "python" =>
        /\ status[TaskID(r)] \in EndStatus /\ TaskID(r) \in reports
        /\ \A k \in 1..MaxTries : status[<<Scan(r), k>>] \notin {"New", "Requested", "Running"}

(* Targets, tasks and reports at the manager belong to a scan in progress  *)
(* or to one whose work was cut off; only cloned configs accumulate.       *)
CleanedUp ==
    \A t \in Task :
        \/ t \in broken \/ \E r \in Run : Running(r) /\ doing[r] = t /\ phase[r] = "work"
        \/ /\ t \notin targets
           /\ \A k \in 1..MaxTries : status[<<t, k>>] \in {"none", "deleted"} /\ <<t, k>> \notin reports

(* Where the work function is in a container says what the manager has for *)
(* its scan: nothing but the job of the present try, and that from its     *)
(* creation to the clean-up.                                               *)
Gone(j) == status[j] \in {"none", "deleted"} /\ j \notin reports
WorkInv(r) ==
    /\ \A k \in 1..MaxTries : k # try[r] => Gone(<<Scan(r), k>>)
    /\ at[r] = "target" => Scan(r) \notin targets
    /\ at[r] \in {"target", "config", "create"} => Gone(TaskID(r))
    /\ at[r] = "start" => status[TaskID(r)] = "New"
    /\ at[r] \in {"poll", "delete"} =>
          /\ status[TaskID(r)] \in {"Requested", "Running"} \cup EndStatus
          /\ TaskID(r) \in reports
    /\ at[r] \in {"report", "clean"} =>
          status[TaskID(r)] \in EndStatus /\ TaskID(r) \in reports

(* The inductive invariant of the scans.                                    *)
OpenVASInv ==
    /\ OpenVASTypeOK /\ ContainerInv /\ Stopped /\ OneJobPerScan /\ CleanedUp
    /\ \A r \in Run : /\ phase[r] = "work" => WorkInv(r)
                      /\ at[r] = "delete" => try[r] < MaxTries
                      /\ kind = "go" => at[r] = "target"

(* In a clean run the instance does not wait for ever, for a registration  *)
(* or for the end of a task, unless the work of the run was cut off.       *)
Waiting == run \in clean /\ instance \in {"register", "wait"}
Answered ==
    \A r \in Run :
        Waiting /\ run = r ~> ~(Waiting /\ run = r) \/ \E t \in broken : t[1] = r
=============================================================================
