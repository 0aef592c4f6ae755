------------------------------ MODULE Dispatch ------------------------------
(***************************************************************************)
(* How artifacts reach the scanners: the templates                         *)
(* (internal/scheduler/scanner_template.go) with their queues, the scanner *)
(* instances (scanner_instance.go) and the containers behind them          *)
(* (pkg/slave/server.go).                                                  *)
(*                                                                         *)
(* Goroutines: the scheduler's, which runs Receive, HandOff, PopAndReturn, *)
(* AddArtifact and HandleScannerInstanceMsg; one per instance, whose loop  *)
(* is pc; the publishers' (EventBus); and the containers.  This module     *)
(* lets the scheduler's operations happen in any order; the module         *)
(* Scheduler adds the order of its loop.                                   *)
(***************************************************************************)
EXTENDS RateLimiter, Storage, SequencesExt

CONSTANTS
    Template,       \* scanner templates; each is a subscriber of the bus
    Instance,       \* scanner instances
    TemplateOf,     \* the template of an instance
    RateLimitType,  \* the rate_limit_type of a template
    IgnoreScope,    \* the templates with ignore_scope
    ScopeDomains,   \* the domains that IsDomainInScope accepts
    ScopeIPs,       \* the addresses that IsIPInScope accepts
    Resolve,        \* DNS: the address of a domain, or None
    Content,        \* the artifacts that scope and scanners may submit
    CtrlCap,        \* the buffer of a control channel (100 in the code)
    Crashable       \* the instances whose container may die in a task

ASSUME DispatchAssumption ==
    /\ Template \subseteq Subscriber
    /\ TemplateOf \in [Instance -> Template]
    /\ RateLimitType \in [Template -> RateLimitTypes]
    /\ Resolve \in [Domain -> IP \cup {None}]
    /\ CtrlCap \in Nat \ {0}
    /\ \A a \in Content : WellFormed(a)

VARIABLES
    limiter,   \* the rate limiter's maps
    buffer,    \* buffer[t]: ArtifactBuffer, the queue of template t
    dropped,   \* history: what t received and found out of scope
    pc,        \* pc[i]: where the goroutine of instance i is in Run
    job,       \* job[i]: the artifact of the current iteration, or Nil
    claim,     \* history: the key allocated when job[i] was popped
    busy,      \* busy[i]: the flag Busy
    ctrlMsgs,  \* the server's channel of control messages
    ctrlIn,    \* ctrlIn[i]: scannerCtrlInput of instance i
    slave,     \* the state of i's container
    tasks,     \* tasks[i]: the artifacts posted to i's container, unfinished
    done,      \* history: what the instances of t have finished
    fatal      \* the log.Fatal or panic that ended the process, or "none"

queueVars == <<limiter, buffer, dropped>>
instanceVars == <<pc, job, claim, busy, done>>
ctrlVars == <<ctrlMsgs, ctrlIn>>
slaveVars == <<slave, tasks>>
storageVars == <<artifacts, inflight, chan>>
dispatchVars == <<storageVars, queueVars, instanceVars, ctrlVars, slaveVars, fatal>>

QueueKey(t, e) == LimitKey(RateLimitType[t], artifacts[e])

CtrlMsg == [instance : Instance, msg : {"register", "finish_task"}]

(* The templates and instances start when the server starts, before the    *)
(* scheduler runs.                                                         *)
TemplateInit ==
    /\ limiter = NewLimiter
    /\ buffer = [t \in Template |-> <<>>]
    /\ dropped = [t \in Template |-> {}]

InstanceInit ==
    /\ pc = [i \in Instance |-> "register"]
    /\ job = [i \in Instance |-> Nil]
    /\ claim = [i \in Instance |-> NoKey]
    /\ busy = [i \in Instance |-> TRUE]
    /\ done = [t \in Template |-> {}]
    /\ ctrlIn = [i \in Instance |-> <<>>]

ServerInit ==
    /\ ctrlMsgs = <<>>
    /\ slave = [i \in Instance |-> "booting"]
    /\ tasks = [i \in Instance |-> <<>>]
    /\ fatal = "none"

Init == StorageInit /\ BusInit /\ TemplateInit /\ InstanceInit /\ ServerInit

-----------------------------------------------------------------------------
(* The scheduler's goroutine.                                              *)

PublishArtifact(a) ==
    /\ AddArtifact(a)
    /\ UNCHANGED <<queueVars, instanceVars, ctrlVars, slaveVars, fatal>>

DeliverEvent(s, e) ==
    /\ Deliver(s, e)
    /\ UNCHANGED <<artifacts, queueVars, instanceVars, ctrlVars, slaveVars, fatal>>

(* IsArtifactInScope's possible answers.  A lookup may fail at any time,   *)
(* and its error counts as "not in scope".                                 *)
ScopeVerdicts(a) ==
    LET domain == GetDomainFromArtifact(a)
        ip == GetIPFromArtifact(a)
    IN  IF domain \in ScopeDomains \/ ip \in ScopeIPs THEN {TRUE}
        ELSE IF ip = None /\ domain # None
        THEN {Resolve[domain] \in ScopeIPs, FALSE}
        ELSE {FALSE}

(* The first select of PublishCollectScannerWork.                          *)
Receive(t) ==
    /\ chan[t] # <<>>
    /\ chan' = [chan EXCEPT ![t] = Tail(chan[t])]
    /\ LET e == Head(chan[t]) IN
       \E inScope \in ScopeVerdicts(artifacts[e]) :
          IF t \in IgnoreScope \/ inScope
          THEN /\ buffer' = [buffer EXCEPT ![t] = Append(buffer[t], e)]
               /\ UNCHANGED dropped
          ELSE /\ dropped' = [dropped EXCEPT ![t] = dropped[t] \cup {e}]
               /\ UNCHANGED buffer
    /\ UNCHANGED <<artifacts, inflight, limiter, instanceVars, ctrlVars, slaveVars, fatal>>

(* Variant: the head of the queue is popped whatever the limiter says.     *)
Poppable_Unlimited(t) == IF buffer[t] = <<>> THEN {} ELSE {1}

(* Variant: only the head of the queue is tried.                           *)
Poppable_HeadOnly(t) ==
    {p \in {1} \cap DOMAIN buffer[t] : ~Allocated(limiter, QueueKey(t, buffer[t][p]))}

(* siphonIf asks for one key after the other, and another goroutine may   *)
(* free one it has passed: any position with a free key may be the first   *)
(* found, save behind an artifact that needs none.                         *)
Poppable(t) ==
    {p \in DOMAIN buffer[t] :
        /\ ~Allocated(limiter, QueueKey(t, buffer[t][p]))
        /\ \A q \in 1..(p - 1) : QueueKey(t, buffer[t][q]) # NoKey}

PopFatal(k) ==
    IF k.map = "domains" /\ VserverPanics(limiter, k.name) THEN "vserver" ELSE fatal

(* Pop succeeds and an instance is blocked in its receive.                 *)
HandOff(t, i) ==
    /\ TemplateOf[i] = t
    /\ pc[i] = "idle"
    /\ \E p \in Poppable(t) :
         LET e == buffer[t][p] IN
         /\ limiter' = Allocate(limiter, QueueKey(t, e))
         /\ buffer' = [buffer EXCEPT ![t] = RemoveAt(buffer[t], p)]
         /\ job' = [job EXCEPT ![i] = e]
         /\ claim' = [claim EXCEPT ![i] = QueueKey(t, e)]
         /\ fatal' = PopFatal(QueueKey(t, e))
    /\ pc' = [pc EXCEPT ![i] = "received"]
    /\ UNCHANGED <<storageVars, dropped, busy, done, ctrlVars, slaveVars>>

(* Pop succeeds, no instance is blocked in its receive (one that is idle   *)
(* may not have got there yet), and ReversePop puts the artifact back at   *)
(* the front of the queue.                                                 *)
PopAndReturn(t) ==
    /\ \E p \in Poppable(t) :
         LET e == buffer[t][p] IN
         /\ limiter' = Release(Allocate(limiter, QueueKey(t, e)), QueueKey(t, e))
         /\ buffer' = [buffer EXCEPT ![t] = <<e>> \o RemoveAt(buffer[t], p)]
         /\ fatal' = PopFatal(QueueKey(t, e))
    /\ UNCHANGED <<storageVars, dropped, instanceVars, ctrlVars, slaveVars>>

(* Variant: a message goes to any instance of the template.                *)
HandleScannerInstanceMsg_AnyInstance ==
    /\ ctrlMsgs # <<>>
    /\ \E i \in Instance :
         /\ TemplateOf[i] = TemplateOf[Head(ctrlMsgs).instance]
         /\ Len(ctrlIn[i]) < CtrlCap
         /\ ctrlIn' = [ctrlIn EXCEPT ![i] = Append(@, Head(ctrlMsgs).msg)]
    /\ ctrlMsgs' = Tail(ctrlMsgs)
    /\ UNCHANGED <<storageVars, queueVars, instanceVars, slaveVars, fatal>>

(* Run's receive from scannerCtrlMsgs, with the template's                 *)
(* HandleScannerInstanceMsg, which blocks on a full instance channel.      *)
HandleScannerInstanceMsg ==
    /\ ctrlMsgs # <<>>
    /\ LET m == Head(ctrlMsgs) IN
       /\ Len(ctrlIn[m.instance]) < CtrlCap
       /\ ctrlIn' = [ctrlIn EXCEPT ![m.instance] = Append(@, m.msg)]
    /\ ctrlMsgs' = Tail(ctrlMsgs)
    /\ UNCHANGED <<storageVars, queueVars, instanceVars, slaveVars, fatal>>

-----------------------------------------------------------------------------
(* The goroutine of an instance.  The checks of waitForRegister and        *)
(* waitForFinishTask are conjunctions whose first conjunct is false for    *)
(* every message that is routed to the instance: any message passes.       *)

(* Variant: the flag is not reset.                                         *)
BusyAfterUnset_StillBusy(i) == busy

BusyAfterUnset(i) == [busy EXCEPT ![i] = FALSE]

WaitForRegister(i) ==
    /\ pc[i] = "register"
    /\ ctrlIn[i] # <<>>
    /\ ctrlIn' = [ctrlIn EXCEPT ![i] = Tail(@)]
    /\ busy' = BusyAfterUnset(i)
    /\ fatal' = IF busy[i] THEN fatal ELSE "busy already unset"
    /\ pc' = [pc EXCEPT ![i] = "idle"]
    /\ UNCHANGED <<storageVars, queueVars, job, claim, done, ctrlMsgs, slaveVars>>

SetBusy(i) ==
    /\ pc[i] = "received"
    /\ busy' = [busy EXCEPT ![i] = TRUE]
    /\ fatal' = IF busy[i] THEN "busy already set" ELSE fatal
    /\ pc' = [pc EXCEPT ![i] = "send"]
    /\ UNCHANGED <<storageVars, queueVars, job, claim, done, ctrlVars, slaveVars>>

(* The container gets a copy of the artifact as it is now.                 *)
SendArtifact(i) ==
    /\ pc[i] = "send"
    /\ tasks' = [tasks EXCEPT ![i] = Append(@, artifacts[job[i]])]
    /\ fatal' = IF slave[i] = "up" THEN fatal ELSE "post failed"
    /\ pc' = [pc EXCEPT ![i] = "wait"]
    /\ UNCHANGED <<storageVars, queueVars, job, claim, busy, done, ctrlVars, slave>>

(* waitForFinishTask and FreeRateLimitAllocation, which computes the key   *)
(* again from the artifact as it is now.                                   *)
WaitForFinishTask(i) ==
    LET t == TemplateOf[i] IN
    /\ pc[i] = "wait"
    /\ ctrlIn[i] # <<>>
    /\ ctrlIn' = [ctrlIn EXCEPT ![i] = Tail(@)]
    /\ limiter' = FreeRateLimitAllocation(limiter, RateLimitType[t], artifacts[job[i]])
    /\ done' = [done EXCEPT ![t] = @ \cup {job[i]}]
    /\ job' = [job EXCEPT ![i] = Nil]
    /\ claim' = [claim EXCEPT ![i] = NoKey]
    /\ pc' = [pc EXCEPT ![i] = "unset"]
    /\ UNCHANGED <<storageVars, buffer, dropped, busy, ctrlMsgs, slaveVars, fatal>>

UnsetBusy(i) ==
    /\ pc[i] = "unset"
    /\ busy' = BusyAfterUnset(i)
    /\ fatal' = IF busy[i] THEN fatal ELSE "busy already unset"
    /\ pc' = [pc EXCEPT ![i] = "idle"]
    /\ UNCHANGED <<storageVars, queueVars, job, claim, done, ctrlVars, slaveVars>>

-----------------------------------------------------------------------------
(* The container of an instance.                                           *)

(* The server's handler answers 200 once the message is in the channel; a  *)
(* full channel blocks the container that sent it.                         *)
receiveCtrlMsg(m) ==
    /\ Len(ctrlMsgs) < CtrlCap
    /\ ctrlMsgs' = Append(ctrlMsgs, m)

sendCtrlMsg(i, msg) == receiveCtrlMsg([instance |-> i, msg |-> msg])

(* Variant: a container registers a second time.                           *)
SlaveRegister_Twice(i) ==
    /\ slave[i] = "booting"
    /\ Len(ctrlMsgs) + 1 < CtrlCap
    /\ slave' = [slave EXCEPT ![i] = "up"]
    /\ ctrlMsgs' = ctrlMsgs \o [n \in 1..2 |-> [instance |-> i, msg |-> "register"]]
    /\ UNCHANGED <<storageVars, queueVars, instanceVars, ctrlIn, tasks, fatal>>

SlaveRegister(i) ==
    /\ slave[i] = "booting"
    /\ slave' = [slave EXCEPT ![i] = "up"]
    /\ sendCtrlMsg(i, "register")
    /\ UNCHANGED <<storageVars, queueVars, instanceVars, ctrlIn, tasks, fatal>>

(* A task ends; workFuncMutex lets waiting tasks run in any order.         *)
SlaveFinishTask(i) ==
    /\ slave[i] = "up"
    /\ \E k \in DOMAIN tasks[i] : tasks' = [tasks EXCEPT ![i] = RemoveAt(@, k)]
    /\ sendCtrlMsg(i, "finish_task")
    /\ UNCHANGED <<storageVars, queueVars, instanceVars, ctrlIn, slave, fatal>>

(* A panic in workFunc ends the container; its tasks end with it.          *)
SlaveCrash(i) ==
    /\ i \in Crashable
    /\ slave[i] = "up"
    /\ tasks[i] # <<>>
    /\ slave' = [slave EXCEPT ![i] = "dead"]
    /\ tasks' = [tasks EXCEPT ![i] = <<>>]
    /\ UNCHANGED <<storageVars, queueVars, instanceVars, ctrlVars, fatal>>

-----------------------------------------------------------------------------
Run(i) ==
    \/ WaitForRegister(i)
    \/ SetBusy(i)
    \/ SendArtifact(i)
    \/ WaitForFinishTask(i)
    \/ UnsetBusy(i)

Next ==
    /\ fatal = "none"
    /\ \/ \E a \in Content : PublishArtifact(a)
       \/ \E s \in Subscriber, e \in Pointer : DeliverEvent(s, e)
       \/ \E t \in Template : Receive(t) \/ PopAndReturn(t)
       \/ \E t \in Template, i \in Instance : HandOff(t, i)
       \/ HandleScannerInstanceMsg
       \/ \E i \in Instance : Run(i)
       \/ \E i \in Instance : SlaveRegister(i) \/ SlaveFinishTask(i) \/ SlaveCrash(i)

Spec == Init /\ [][Next]_dispatchVars

(* Go runs every goroutine that can run, the scheduler's loop comes back   *)
(* to every template and channel, and a container finishes its tasks.      *)
(* Nothing promises a submission or a crash.                               *)
Fairness ==
    /\ \A s \in Subscriber, e \in Pointer : WF_dispatchVars(DeliverEvent(s, e) /\ fatal = "none")
    /\ \A t \in Template : WF_dispatchVars(Receive(t) /\ fatal = "none")
    /\ \A t \in Template : WF_dispatchVars(fatal = "none" /\ \E i \in Instance : HandOff(t, i))
    /\ WF_dispatchVars(HandleScannerInstanceMsg /\ fatal = "none")
    /\ \A i \in Instance : WF_dispatchVars(Run(i) /\ fatal = "none")
    /\ \A i \in Instance : WF_dispatchVars(SlaveRegister(i) /\ fatal = "none")
    /\ \A i \in Instance : WF_dispatchVars(SlaveFinishTask(i) /\ fatal = "none")

FairSpec == Spec /\ Fairness

-----------------------------------------------------------------------------
(* Properties.                                                             *)

InstancesOf(t) == {i \in Instance : TemplateOf[i] = t}

(* The values the variables range over.  A queue, channel or flag that      *)
(* leaves them holds something its Go type could not.                      *)
TypeOK ==
    /\ artifacts \in Seq(Artifact) /\ Len(artifacts) <= MaxArtifacts
    /\ inflight \in [Subscriber -> SUBSET DOMAIN artifacts]
    /\ chan \in [Subscriber -> Seq(DOMAIN artifacts)]
    /\ limiter \in Limiter
    /\ buffer \in [Template -> Seq(DOMAIN artifacts)]
    /\ dropped \in [Template -> SUBSET DOMAIN artifacts]
    /\ pc \in [Instance -> {"register", "idle", "received", "send", "wait", "unset", "exited"}]
    /\ job \in [Instance -> DOMAIN artifacts \cup {Nil}]
    /\ claim \in [Instance -> LimiterKey]
    /\ busy \in [Instance -> BOOLEAN]
    /\ ctrlMsgs \in Seq(CtrlMsg)
    /\ ctrlIn \in [Instance -> Seq({"register", "finish_task"})]
    /\ slave \in [Instance -> {"booting", "up", "dead"}]
    /\ tasks \in [Instance -> Seq(Artifact)]
    /\ done \in [Template -> SUBSET DOMAIN artifacts]
    /\ fatal \in {"none", "vserver", "busy already set", "busy already unset", "post failed"}

(* No two instances, of whatever templates, work under the same key of the *)
(* rate limiter: what SetDomainInUse and SetIPInUse answer false for.      *)
ClaimsExclusive ==
    \A i, j \in Instance : i # j /\ claim[i] = claim[j] => claim[i] = NoKey

(* The key an instance was handed its artifact under stays allocated until *)
(* that instance frees it: neither the release of another instance, nor    *)
(* ReversePop, nor a merge in the storage takes it away.                   *)
ClaimsAllocated ==
    \A i \in Instance : claim[i] # NoKey => Allocated(limiter, claim[i])

(* The inductive strengthening of the two.  An instance has an artifact in *)
(* hand exactly in the three states between receive and free; its claim is *)
(* the key the artifact has now, unless a merge has taken the site out of  *)
(* the artifact's URL; and merges keep stored artifacts well typed.        *)
Occupied ==
    \A i \in Instance : pc[i] \in {"received", "send", "wait"} <=> job[i] # Nil
ClaimsMatch ==
    \A i \in Instance :
        /\ job[i] = Nil => claim[i] = NoKey
        /\ job[i] # Nil => QueueKey(TemplateOf[i], job[i]) \in {claim[i], NoKey}
StoredWellTyped == \A e \in DOMAIN artifacts : WellTyped(artifacts[e])
IndInv ==
    /\ TypeOK /\ StoredWellTyped /\ Occupied
    /\ ClaimsMatch /\ ClaimsExclusive /\ ClaimsAllocated

(* What a container scans now, its key is allocated: FreeRateLimitAlloca-  *)
(* tion is never called on a message that is not the end of the scan, and  *)
(* the copy in the container is under the key its artifact was popped for. *)
ScanHoldsKey ==
    \A i \in Instance : \A n \in DOMAIN tasks[i] :
        LET k == LimitKey(RateLimitType[TemplateOf[i]], tasks[i][n])
        IN  k # NoKey => Allocated(limiter, k) /\ claim[i] = k

(* The conversation of an instance with its container: at most one message  *)
(* is on its way, it answers what the instance waits for, and the container *)
(* has a task exactly while the instance waits for that task's end, unless  *)
(* it has died over it.                                                     *)
Travels(i) == \E n \in DOMAIN ctrlMsgs : ctrlMsgs[n].instance = i
Told(i) == ctrlIn[i] # <<>> \/ Travels(i)
OneMessage ==
    /\ \A m, n \in DOMAIN ctrlMsgs : ctrlMsgs[m].instance = ctrlMsgs[n].instance => m = n
    /\ \A i \in Instance : ctrlIn[i] # <<>> => Len(ctrlIn[i]) = 1 /\ ~Travels(i)
Turn(i) ==
    \/ pc[i] = "register" /\ slave[i] = "booting" /\ tasks[i] = <<>> /\ ~Told(i)
    \/ pc[i] \in {"register", "wait"} /\ slave[i] = "up" /\ tasks[i] = <<>> /\ Told(i)
    \/ pc[i] = "wait" /\ slave[i] = "up" /\ Len(tasks[i]) = 1 /\ ~Told(i)
    \/ pc[i] = "wait" /\ slave[i] = "dead" /\ tasks[i] = <<>> /\ ~Told(i)
    \/ pc[i] \notin {"register", "wait", "exited"} /\ slave[i] = "up" /\ tasks[i] = <<>> /\ ~Told(i)
    \/ pc[i] = "exited" /\ slave[i] = "dead" /\ tasks[i] = <<>> /\ ~Told(i)
Conversation ==
    \A i \in Instance :
        /\ Turn(i)
        /\ busy[i] <=> pc[i] \in {"register", "send", "wait", "unset"}

(* The copy in a container has the key its artifact was popped for, or none.*)
CopiesMatch ==
    \A i \in Instance : \A n \in DOMAIN tasks[i] :
        LimitKey(RateLimitType[TemplateOf[i]], tasks[i][n]) \in {claim[i], NoKey}
ProtocolInv ==
    OneMessage /\ Conversation /\ CopiesMatch /\ fatal \in {"none", "vserver"}

(* A container has one task at a time; workFuncMutex never has a waiter.   *)
OneTaskPerContainer == \A i \in Instance : Len(tasks[i]) <= 1

(* Nothing stays allocated that no instance works under.  An artifact whose*)
(* key is leaked stays in its queue, and the scan never ends.              *)
NoLeakedKey ==
    \A k \in LimiterKey : Allocated(limiter, k) => \E i \in Instance : claim[i] = k

(* Every stored artifact a template subscribes to is in exactly one place: *)
(* on its way, queued, dropped as out of scope, in one instance's hands, or*)
(* done.  Publishing, siphonIf and ReversePop lose none and double none.   *)
Offered(t) == {e \in DOMAIN artifacts : artifacts[e].type \in Inputs[t]}
WaitingFor(t) == inflight[t] \cup ToSet(chan[t]) \cup ToSet(buffer[t])
HeldBy(t) == {i \in InstancesOf(t) : job[i] # Nil}
ExactlyOnce ==
    \A t \in Template :
        /\ Offered(t) = WaitingFor(t) \cup dropped[t] \cup done[t]
                        \cup {job[i] : i \in HeldBy(t)}
        /\ Cardinality(Offered(t)) =
              Cardinality(inflight[t]) + Len(chan[t]) + Len(buffer[t])
              + Cardinality(dropped[t]) + Cardinality(HeldBy(t)) + Cardinality(done[t])

(* The same without counting: the places of a template are a partition of  *)
(* what it is offered, and no queue or channel holds an artifact twice.    *)
Places(t) ==
    [inflight |-> inflight[t], chan |-> ToSet(chan[t]), buffer |-> ToSet(buffer[t]),
     dropped |-> dropped[t], held |-> {job[i] : i \in HeldBy(t)}, done |-> done[t]]
Partitioned(U, P) ==
    /\ U = UNION {P[n] : n \in DOMAIN P}
    /\ \A m, n \in DOMAIN P : m # n => P[m] \cap P[n] = {}
Placed(t) ==
    /\ Partitioned(Offered(t), Places(t))
    /\ IsInjective(chan[t]) /\ IsInjective(buffer[t])
    /\ \A i, j \in HeldBy(t) : job[i] = job[j] => i = j
PlacesInv == \A t \in Template : Placed(t)

(* The inductive invariant of the dispatch.                                 *)
DispatchInv == IndInv /\ ProtocolInv /\ PlacesInv

(* The process is not ended by an assertion of SetBusy and UnsetBusy, by a *)
(* post to a container that does not run, or by the panic about virtual    *)
(* servers.                                                                *)
NoFatal == fatal = "none"

(* No two stored artifacts are duplicates in the sense of deduplicate,     *)
(* whatever merges have changed them since they were stored.               *)
NoStoredDuplicates ==
    \A j, k \in DOMAIN artifacts : j < k => ~Duplicates(artifacts[j], artifacts[k])

(* A merge never moves a stored artifact from one key to another: the key  *)
(* that FreeRateLimitAllocation computes is the one Pop computed, or none. *)
KeyStable ==
    [][\A type \in RateLimitTypes, e \in DOMAIN artifacts :
          LimitKey(type, artifacts'[e]) \in {LimitKey(type, artifacts[e]), NoKey}]_dispatchVars

(* Every artifact a template subscribes to is, in the end, scanned by it   *)
(* or dropped as out of scope.  Only a dead container stands in the way:   *)
(* of the artifact it was scanning, of the artifacts with the same key, and*)
(* of a template that has no other container.                              *)
Dead(i) == slave[i] = "dead"
Blocked(t, e) ==
    \/ \A i \in InstancesOf(t) : Dead(i)
    \/ \E i \in Instance :
          /\ Dead(i)
          /\ \/ job[i] = e
             \/ claim[i] # NoKey /\ e \in DOMAIN artifacts /\ claim[i] = QueueKey(t, e)
Served ==
    \A t \in Template, e \in Pointer :
        (e \in DOMAIN artifacts /\ e \in Offered(t))
            ~> (e \in done[t] \cup dropped[t] \/ Blocked(t, e))

(* The dispatch implements the pool: an artifact waits for a template while*)
(* it is in flight, in the channel or in the queue.                        *)
Pool == INSTANCE WorkPool WITH
    Worker <- Instance,
    Assignment <- Template \X Pointer,
    Claim <- LimiterKey,
    NoClaim <- NoKey,
    waiting <- {x \in Template \X Pointer : x[2] \in WaitingFor(x[1])},
    running <- [i \in Instance |-> IF job[i] = Nil THEN {} ELSE {<<TemplateOf[i], job[i]>>}],
    held <- claim,
    finished <- {x \in Template \X Pointer : x[2] \in done[x[1]] \cup dropped[x[1]]}

(* The dispatch is such a pool.                                            *)
ImplementsPool == Pool!Spec

-----------------------------------------------------------------------------
(* What comments and assertions of the code say, and the code does not do. *)

(* data/rate_limit.go:5, "domain falls back to IP if no domain is          *)
(* available": an address is limited as an address, hence never worked on  *)
(* under both of its possible keys.                                        *)
IPClaimedOnce ==
    \A ip \in IP, i, j \in Instance : ~(claim[i] = IPKey(ip) /\ claim[j] = DomainKey(ip))

(* data/artifact.go:25, Location is the "url/ip of site": the URL of a     *)
(* stored artifact still names a site.                                     *)
StoredURLNamesSite ==
    \A e \in DOMAIN artifacts : artifacts[e].url # None => artifacts[e].url.host # None

(* What keeps keys from leaking: each rate-limited template subscribes only*)
(* to types whose keys are freed.  It is so in the repository's templates. *)
InputsFreed ==
    \A t \in Template :
        \/ RateLimitType[t] = "disabled"
        \/ \A name \in Inputs[t] : IsRateLimitedArtifact([type |-> name])

(* The inductive form of NoLeakedKey: as long as every URL names a site, an*)
(* instance frees the key it was given.                                    *)
FreesItsKey ==
    \A i \in Instance : job[i] # Nil =>
        FreeKey(RateLimitType[TemplateOf[i]], artifacts[job[i]]) = claim[i]
LeakInv == StoredURLNamesSite => NoLeakedKey /\ FreesItsKey
=============================================================================
