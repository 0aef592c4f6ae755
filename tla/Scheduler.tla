----------------------------- MODULE Scheduler -----------------------------
(***************************************************************************)
(* The scheduler's goroutine (internal/scheduler/scheduler.go) and the     *)
(* server's artifact channel (internal/master/server.go): Run's loop over  *)
(* the templates, the two channels and IsBusy, and the end of the program. *)
(* Every step on queues, limiter, storage and control messages is an       *)
(* action of Dispatch; this module says when the loop takes it.            *)
(***************************************************************************)
EXTENDS Dispatch

CONSTANTS
    TemplateOrder,  \* scannerTemplates: the templates in registration order
    ScopeContent,   \* what deriveArtifactsFromScope publishes, in order
    InputCap,       \* the buffer of artifactsInput (10000 in the code)
    MaxPosts,       \* bound on the artifacts the containers post
    Settle          \* timing: see Quiet

ASSUME SchedulerAssumption ==
    /\ TemplateOrder \in Seq(Template) /\ TemplateOrder # <<>>
    /\ IsInjective(TemplateOrder) /\ ToSet(TemplateOrder) = Template
    /\ ScopeContent \in Seq(Artifact)
    /\ \A n \in DOMAIN ScopeContent : WellFormed(ScopeContent[n])
    /\ InputCap \in Nat \ {0} /\ MaxPosts \in Nat
    /\ Len(ScopeContent) + MaxPosts <= MaxArtifacts
    /\ Settle \in {"never", "sleep", "always"}

VARIABLES
    loop,            \* where the goroutine is
    cursor,          \* the index of the loop over ScopeContent or templates
    noInput,         \* noInput of PublishCollectScannerWork
    loopBusy,        \* busy of Run
    shouldSleep,     \* should_sleep of Run
    remaining,       \* artifacts still to be taken in this drain
    artifactsInput,  \* the server's channel of artifacts
    posted,          \* history: the artifacts the handler has accepted
    uploaded,        \* the artifacts in the index, in order
    notIndexed       \* history: the artifacts the index has refused

loopVars == <<loop, cursor, noInput, loopBusy, shouldSleep, remaining>>
inputVars == <<artifactsInput, posted>>
uploadVars == <<uploaded, notIndexed>>
schedVars == <<dispatchVars, loopVars, inputVars, uploadVars>>

SchedInit ==
    /\ Init
    /\ loop = "scope" /\ cursor = 1
    /\ noInput = FALSE /\ loopBusy = FALSE /\ shouldSleep = TRUE
    /\ remaining = 0
    /\ artifactsInput = <<>> /\ posted = <<>>
    /\ uploaded = <<>> /\ notIndexed = {}

Current == TemplateOrder[cursor]

(* Every goroutine that can send an event or call SetBusy has done so.     *)
(* Nothing in the code ensures this.  Settle says what is assumed of the   *)
(* machine: "never" nothing, "sleep" that 100 milliseconds of sleep        *)
(* suffice, "always" that it is so whenever the scheduler asks IsBusy.     *)
Quiet ==
    /\ \A s \in Subscriber : inflight[s] = {} \/ Len(chan[s]) = ChannelCap
    /\ \A i \in Instance : pc[i] # "received"

-----------------------------------------------------------------------------
(* deriveArtifactsFromScope.                                               *)
PublishScope ==
    /\ loop = "scope" /\ cursor <= Len(ScopeContent)
    /\ PublishArtifact(ScopeContent[cursor])
    /\ cursor' = cursor + 1
    /\ UNCHANGED <<loop, noInput, loopBusy, shouldSleep, remaining, inputVars, uploadVars>>

(* The top of the loop.                                                    *)
StartLoop ==
    /\ \/ loop = "scope" /\ cursor > Len(ScopeContent)
       \/ /\ loop = "sleep"
          /\ Settle = "sleep" /\ shouldSleep => Quiet
    /\ loop' = "receive" /\ cursor' = 1
    /\ loopBusy' = FALSE /\ shouldSleep' = TRUE
    /\ UNCHANGED <<dispatchVars, noInput, remaining, inputVars, uploadVars>>

-----------------------------------------------------------------------------
(* PublishCollectScannerWork of the current template.                      *)

CollectReceive ==
    /\ loop = "receive"
    /\ \/ Receive(Current) /\ noInput' = FALSE
       \/ chan[Current] = <<>> /\ noInput' = TRUE /\ UNCHANGED dispatchVars
    /\ loop' = "send"
    /\ UNCHANGED <<cursor, loopBusy, shouldSleep, remaining, inputVars, uploadVars>>

CollectHandOff ==
    /\ loop = "send"
    /\ \E i \in Instance : HandOff(Current, i)
    /\ loop' = "receive" /\ loopBusy' = TRUE
    /\ UNCHANGED <<cursor, noInput, shouldSleep, remaining, inputVars, uploadVars>>

(* Nothing was sent: another round if something was received.              *)
CollectNoOutput ==
    /\ loop = "send"
    /\ \/ PopAndReturn(Current)
       \/ Poppable(Current) = {} /\ UNCHANGED dispatchVars
    /\ IF ~noInput
       THEN loop' = "receive" /\ loopBusy' = TRUE /\ UNCHANGED cursor
       ELSE /\ UNCHANGED loopBusy
            /\ IF cursor < Len(TemplateOrder)
               THEN loop' = "receive" /\ cursor' = cursor + 1
               ELSE loop' = "drain" /\ cursor' = 1
    /\ UNCHANGED <<noInput, shouldSleep, remaining, inputVars, uploadVars>>

-----------------------------------------------------------------------------
(* The two channels of the server.                                         *)

StartDrain ==
    /\ loop = "drain"
    /\ remaining' = Len(artifactsInput)
    /\ loop' = IF artifactsInput = <<>> THEN "ctrl" ELSE "draining"
    /\ loopBusy' = (loopBusy \/ artifactsInput # <<>>)
    /\ shouldSleep' = (shouldSleep /\ artifactsInput = <<>>)
    /\ UNCHANGED <<dispatchVars, cursor, noInput, inputVars, uploadVars>>

(* Variant: remaining is not counted down.                                 *)
DrainOne_NoCount ==
    /\ loop = "draining" /\ artifactsInput # <<>>
    /\ PublishArtifact(Head(artifactsInput))
    /\ artifactsInput' = Tail(artifactsInput)
    /\ loop' = IF remaining = 1 THEN "ctrl" ELSE "draining"
    /\ UNCHANGED <<cursor, noInput, loopBusy, shouldSleep, remaining, posted, uploadVars>>

DrainOne ==
    /\ loop = "draining" /\ remaining > 0
    /\ PublishArtifact(Head(artifactsInput))
    /\ artifactsInput' = Tail(artifactsInput)
    /\ remaining' = remaining - 1
    /\ loop' = IF remaining = 1 THEN "ctrl" ELSE "draining"
    /\ UNCHANGED <<cursor, noInput, loopBusy, shouldSleep, posted, uploadVars>>

(* Variant: an iteration that forwards a message does not count as busy.   *)
ReceiveCtrl_NotBusy ==
    /\ loop = "ctrl"
    /\ HandleScannerInstanceMsg \/ (ctrlMsgs = <<>> /\ UNCHANGED dispatchVars)
    /\ loop' = "isBusy"
    /\ UNCHANGED <<cursor, noInput, loopBusy, shouldSleep, remaining, inputVars, uploadVars>>

ReceiveCtrl ==
    /\ loop = "ctrl"
    /\ \/ /\ HandleScannerInstanceMsg
          /\ loopBusy' = TRUE /\ shouldSleep' = FALSE
       \/ /\ ctrlMsgs = <<>>
          /\ UNCHANGED <<dispatchVars, loopBusy, shouldSleep>>
    /\ loop' = "isBusy"
    /\ UNCHANGED <<cursor, noInput, remaining, inputVars, uploadVars>>

-----------------------------------------------------------------------------
(* IsBusy and the end of an iteration.                                     *)

TemplateIsBusy(t) ==
    \/ buffer[t] # <<>> \/ chan[t] # <<>>
    \/ \E i \in InstancesOf(t) : busy[i]

(* The bus is asked first, then the templates one after the other.         *)
CheckBus ==
    /\ loop = "isBusy"
    /\ Settle = "always" => Quiet
    /\ IF loopBusy \/ AreEventsInBus
       THEN loop' = "sleep" /\ UNCHANGED cursor
       ELSE loop' = "isTemplateBusy" /\ cursor' = 1
    /\ UNCHANGED <<dispatchVars, noInput, loopBusy, shouldSleep, remaining, inputVars, uploadVars>>

CheckTemplate ==
    /\ loop = "isTemplateBusy"
    /\ IF TemplateIsBusy(Current) THEN loop' = "sleep" /\ UNCHANGED cursor
       ELSE IF cursor < Len(TemplateOrder) THEN cursor' = cursor + 1 /\ UNCHANGED loop
       ELSE loop' = "upload" /\ cursor' = 1
    /\ UNCHANGED <<dispatchVars, noInput, loopBusy, shouldSleep, remaining, inputVars, uploadVars>>

(* UploadArtifactsToElastic: log.Fatal if the index cannot be created.     *)
CreateIndex ==
    /\ loop = "upload"
    /\ loop' \in {"indexing", "failed"}
    /\ cursor' = 1
    /\ UNCHANGED <<dispatchVars, noInput, loopBusy, shouldSleep, remaining, inputVars, uploadVars>>

(* Variant: the first artifact that is refused ends the upload.            *)
IndexArtifact_StopsAtError ==
    /\ loop = "indexing" /\ cursor <= Len(artifacts)
    /\ \/ /\ uploaded' = Append(uploaded, artifacts[cursor])
          /\ cursor' = cursor + 1
          /\ UNCHANGED <<loop, notIndexed>>
       \/ /\ notIndexed' = notIndexed \cup {artifacts[cursor]}
          /\ loop' = "close" /\ cursor' = 1
          /\ UNCHANGED uploaded
    /\ UNCHANGED <<dispatchVars, noInput, loopBusy, shouldSleep, remaining, inputVars>>

(* An error is logged, and the loop goes on.                               *)
IndexArtifact ==
    /\ loop = "indexing" /\ cursor <= Len(artifacts)
    /\ \/ uploaded' = Append(uploaded, artifacts[cursor]) /\ UNCHANGED notIndexed
       \/ notIndexed' = notIndexed \cup {artifacts[cursor]} /\ UNCHANGED uploaded
    /\ cursor' = cursor + 1
    /\ UNCHANGED <<dispatchVars, loop, noInput, loopBusy, shouldSleep, remaining, inputVars>>

FinishUpload ==
    /\ loop = "indexing" /\ cursor > Len(artifacts)
    /\ loop' = "close" /\ cursor' = 1
    /\ UNCHANGED <<dispatchVars, noInput, loopBusy, shouldSleep, remaining, inputVars, uploadVars>>

-----------------------------------------------------------------------------
(* Close: template after template, close(scannerDataInput) and then wait   *)
(* until the goroutine of every instance has returned.                     *)

Closed(t) ==
    /\ loop = "close"
    /\ \E n \in 1..cursor : TemplateOrder[n] = t

InstanceExit(i) ==
    /\ pc[i] = "idle" /\ Closed(TemplateOf[i])
    /\ pc' = [pc EXCEPT ![i] = "exited"]
    /\ slave' = [slave EXCEPT ![i] = "dead"]
    /\ UNCHANGED <<storageVars, queueVars, job, claim, busy, done, ctrlVars, tasks, fatal>>
    /\ UNCHANGED <<loopVars, inputVars, uploadVars>>

CloseTemplate ==
    /\ loop = "close"
    /\ \A i \in InstancesOf(Current) : pc[i] = "exited"
    /\ IF cursor < Len(TemplateOrder)
       THEN cursor' = cursor + 1 /\ UNCHANGED loop
       ELSE loop' = "exit" /\ UNCHANGED cursor
    /\ UNCHANGED <<dispatchVars, noInput, loopBusy, shouldSleep, remaining, inputVars, uploadVars>>

-----------------------------------------------------------------------------
(* The other goroutines and the containers.                                *)

(* The server's handler answers 200 once the artifact is in the channel.   *)
postArtifact(a) ==
    /\ Len(artifactsInput) < InputCap
    /\ posted' = Append(posted, a)
    /\ artifactsInput' = Append(artifactsInput, a)

(* A container posts a result of its task.                                 *)
SlavePost(i, a) ==
    /\ slave[i] = "up" /\ tasks[i] # <<>>
    /\ Len(posted) < MaxPosts
    /\ postArtifact(a)
    /\ UNCHANGED <<dispatchVars, loopVars, uploadVars>>

Others(A) == A /\ UNCHANGED <<loopVars, inputVars, uploadVars>>

SchedulerStep ==
    \/ PublishScope \/ StartLoop
    \/ CollectReceive \/ CollectHandOff \/ CollectNoOutput
    \/ StartDrain \/ DrainOne \/ ReceiveCtrl
    \/ CheckBus \/ CheckTemplate
    \/ CreateIndex \/ IndexArtifact \/ FinishUpload \/ CloseTemplate

Delivery(s, e) == Others(DeliverEvent(s, e))
InstanceStep(i) == Others(Run(i)) \/ InstanceExit(i)
ContainerStep(i) == Others(SlaveRegister(i) \/ SlaveFinishTask(i))

(* After os.Exit, a log.Fatal or a panic nothing runs.                     *)
Alive == fatal = "none" /\ loop \notin {"exit", "failed"}

SchedNext ==
    /\ Alive
    /\ \/ SchedulerStep
       \/ \E s \in Subscriber, e \in Pointer : Delivery(s, e)
       \/ \E i \in Instance : InstanceStep(i) \/ ContainerStep(i)
       \/ \E i \in Instance, a \in Content : SlavePost(i, a)

SchedSpec == SchedInit /\ [][SchedNext]_schedVars

(* The hand-off is fair in the strong sense: an instance that waits in its *)
(* receive is met by one of the non-blocking sends of the loop.            *)
SchedFairness ==
    /\ WF_schedVars(Alive /\ SchedulerStep)
    /\ SF_schedVars(Alive /\ CollectHandOff)
    /\ \A s \in Subscriber, e \in Pointer : WF_schedVars(Alive /\ Delivery(s, e))
    /\ \A i \in Instance : WF_schedVars(Alive /\ InstanceStep(i))
    /\ \A i \in Instance : WF_schedVars(Alive /\ ContainerStep(i))

SchedFairSpec == SchedSpec /\ SchedFairness

-----------------------------------------------------------------------------
(* Properties.                                                             *)

SchedTypeOK ==
    /\ TypeOK
    /\ loop \in {"scope", "receive", "send", "drain", "draining", "ctrl", "isBusy",
                 "isTemplateBusy", "sleep", "upload", "indexing", "failed", "close", "exit"}
    /\ cursor \in Nat \ {0} /\ remaining \in 0..Len(artifactsInput)
    /\ {noInput, loopBusy, shouldSleep} \subseteq BOOLEAN
    /\ Len(artifactsInput) <= InputCap /\ Len(posted) <= MaxPosts
    /\ ToSet(uploaded) \cup notIndexed \subseteq ToSet(artifacts)

(* What keeps the loop honest, when IsBusy is asked in a settled state.     *)
(* From the moment the artifact channel was seen empty, an iteration in     *)
(* which no message was forwarded finds in it only results of containers    *)
(* whose instances still wait, hence are busy; and while the templates are  *)
(* asked one after the other, those that were asked stay at rest.           *)
Rests(t) == buffer[t] = <<>> /\ \A i \in InstancesOf(t) : pc[i] \in {"idle", "exited"}
BusEmpty == \A s \in Subscriber : inflight[s] = {} /\ chan[s] = <<>>
Awaits(i) == pc[i] = "wait" /\ ctrlIn[i] = <<>>
ResultsExpected == artifactsInput = <<>> \/ \E i \in Instance : Awaits(i)
Finished == loop \in {"upload", "indexing", "failed", "close", "exit"}
LoopInv ==
    /\ loop = "draining" => loopBusy
    /\ loop \in {"ctrl", "isBusy"} => loopBusy \/ ResultsExpected
    /\ loop = "isTemplateBusy" =>
          /\ ResultsExpected /\ BusEmpty /\ \A i \in Instance : pc[i] # "received"
          /\ \A n \in 1..(cursor - 1) : Rests(TemplateOrder[n])
    /\ Finished => BusEmpty /\ (\A t \in Template : Rests(t)) /\ artifactsInput = <<>>

(* The loop stays within its list of templates, and what the handler has    *)
(* accepted is well formed.  With the two above: the inductive invariant.   *)
WithinLists ==
    /\ loop \in {"receive", "send", "isTemplateBusy", "close"} => cursor \in DOMAIN TemplateOrder
    /\ loop \notin {"indexing", "close", "exit"} => uploaded = <<>> /\ notIndexed = {}
    /\ artifactsInput \in Seq(Content) /\ posted \in Seq(Content)
    /\ uploaded \in Seq(Artifact)
SchedInv == SchedTypeOK /\ DispatchInv /\ WithinLists /\ (Settle = "always" => LoopInv)

(* scheduler.go:96-100: when the scheduler uploads and says "Finished!",   *)
(* nothing is left to do: every artifact has been scanned by every template*)
(* that wants it or is out of scope, no container works, and no result     *)
(* waits to be taken from the server's channel.                            *)
FinishedMeansDone ==
    Finished =>
        /\ \A t \in Template : Offered(t) \subseteq done[t] \cup dropped[t]
        /\ \A i \in Instance : tasks[i] = <<>>
        /\ artifactsInput = <<>>

(* results_handler.go:31-38 and the end of Run: when the scheduler closes  *)
(* the templates, every result the server has accepted with status 200 is  *)
(* in the index or was refused by it, as itself or as the duplicate of an  *)
(* artifact that is: one failure costs one artifact.                       *)
UploadComplete ==
    loop \in {"close", "exit"} =>
        \A a \in ToSet(posted) :
            \E b \in ToSet(uploaded) \cup notIndexed : a = b \/ Duplicates(b, a)

(* Its inductive form: what was accepted waits in the channel or is stored *)
(* like that, as long as merges leave a site in every URL, and the upload  *)
(* has passed what lies before its cursor.                                 *)
Kept(a) == \E b \in ToSet(artifacts) : a = b \/ Duplicates(b, a)
Passed(b) == b \in ToSet(uploaded) \cup notIndexed
UploadInv ==
    /\ StoredURLNamesSite => \A a \in ToSet(posted) : a \in ToSet(artifactsInput) \/ Kept(a)
    /\ \A n \in DOMAIN artifacts :
          loop \in {"close", "exit"} \/ (loop = "indexing" /\ n < cursor) => Passed(artifacts[n])

(* The scan ends, or the index could not be created: the loop comes to rest*)
(* and Close, which waits for the instances (scanner_template.go:174,      *)
(* "wait for scanners to finish"), returns.                                *)
Terminates == <>(loop \in {"exit", "failed"})
=============================================================================
