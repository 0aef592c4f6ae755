-------------------------- MODULE SchedulerProofs --------------------------
(***************************************************************************)
(* Proofs about the scheduler's loop: the invariant of the dispatch is kept*)
(* by the loop and by Close, and "Finished!" means that all is done.       *)
(***************************************************************************)
EXTENDS Scheduler, PlacesProofs

-----------------------------------------------------------------------------
(* The dispatch under the loop.                                            *)

(* A step of the program is one of the dispatch, a submission from the     *)
(* scope or the channel, or the end of an instance.                        *)
LEMMA DispatchStep ==
    ASSUME SchedInv, SchedNext
    PROVE  \/ [Next]_dispatchVars
           \/ \E a : WellFormed(a) /\ PublishArtifact(a)
           \/ \E i \in Instance : InstanceExit(i)
<1>1. CASE PublishScope
  <2>1. cursor \in DOMAIN ScopeContent
    BY <1>1, SchedulerAssumption DEF PublishScope, SchedInv, SchedTypeOK
  <2> QED
    BY <1>1, <2>1, SchedulerAssumption DEF PublishScope
<1>2. CASE DrainOne
  <2>1. Head(artifactsInput) \in Content
    BY <1>2 DEF DrainOne, SchedInv, SchedTypeOK, WithinLists
  <2> QED
    BY <1>2, <2>1, DispatchAssumption DEF DrainOne
<1>3. CASE \E i \in Instance : InstanceExit(i)
  BY <1>3
<1>4. ASSUME Next \/ UNCHANGED dispatchVars PROVE [Next]_dispatchVars
  BY <1>4
<1>5. fatal = "none"
  BY DEF SchedNext, Alive
<1>6. Current \in Template \/ loop \notin {"receive", "send"}
  BY SchedulerAssumption DEF SchedInv, WithinLists, Current
<1>7. CASE CollectReceive
  BY <1>5, <1>6, <1>7 DEF CollectReceive, Next
<1>8. CASE CollectHandOff
  BY <1>5, <1>6, <1>8 DEF CollectHandOff, Next
<1>9. CASE CollectNoOutput
  BY <1>5, <1>6, <1>9 DEF CollectNoOutput, Next
<1>10. CASE ReceiveCtrl
  BY <1>5, <1>10 DEF ReceiveCtrl, Next
<1>11. CASE StartLoop \/ StartDrain \/ CheckBus \/ CheckTemplate \/ CreateIndex
            \/ IndexArtifact \/ FinishUpload \/ CloseTemplate
  BY <1>11 DEF StartLoop, StartDrain, CheckBus, CheckTemplate, CreateIndex,
               IndexArtifact, FinishUpload, CloseTemplate
<1>12. CASE \E s \in Subscriber, e \in Pointer : Delivery(s, e)
  BY <1>5, <1>12 DEF Delivery, Others, Next
<1>13. CASE \E i \in Instance : Others(Run(i)) \/ ContainerStep(i)
  BY <1>5, <1>13 DEF ContainerStep, Others, Next
<1>14. CASE \E i \in Instance, a \in Content : SlavePost(i, a)
  BY <1>14 DEF SlavePost
<1> QED
  BY <1>1, <1>2, <1>3, <1>7, <1>8, <1>9, <1>10, <1>11, <1>12, <1>13, <1>14
  DEF SchedNext, SchedulerStep, InstanceStep

(* An idle instance ends, and its container with it: neither had work.     *)
LEMMA ExitKeepsDispatch ==
    ASSUME DispatchInv, NEW i \in Instance, InstanceExit(i)
    PROVE  DispatchInv'
<1>1. /\ pc[i] = "idle" /\ pc' = [pc EXCEPT ![i] = "exited"]
      /\ slave' = [slave EXCEPT ![i] = "dead"]
      /\ UNCHANGED <<storageVars, queueVars, job, claim, busy, done, ctrlVars, tasks, fatal>>
  BY DEF InstanceExit
<1>2. /\ pc \in [Instance -> {"register", "idle", "received", "send", "wait", "unset", "exited"}]
      /\ slave \in [Instance -> {"booting", "up", "dead"}]
  BY DEF DispatchInv, IndInv, TypeOK
<1>3. /\ pc'[i] = "exited" /\ slave'[i] = "dead"
      /\ \A j \in Instance \ {i} : pc'[j] = pc[j] /\ slave'[j] = slave[j]
  BY <1>1, <1>2
<1>4. IndInv'
  <2>1. /\ pc' \in [Instance -> {"register", "idle", "received", "send", "wait", "unset", "exited"}]
        /\ slave' \in [Instance -> {"booting", "up", "dead"}]
    BY <1>1, <1>2
  <2>2. TypeOK'
    BY <1>1, <2>1 DEF DispatchInv, IndInv, TypeOK, storageVars, queueVars, ctrlVars
  <2>3. Occupied'
    BY <1>1, <1>3 DEF DispatchInv, IndInv, Occupied
  <2> QED
    BY <1>1, <2>2, <2>3, ClaimsUntouched DEF DispatchInv, storageVars, queueVars
<1>5. ProtocolInv'
  <2>1. UNCHANGED <<ctrlMsgs, ctrlIn, busy, claim, tasks, fatal>>
    BY <1>1 DEF ctrlVars
  <2>2. \A j : Travels(j)' = Travels(j) /\ Told(j)' = Told(j)
    BY <2>1 DEF Travels, Told
  <2>3. OneMessage' /\ CopiesMatch'
    BY <2>1, <2>2 DEF DispatchInv, ProtocolInv, OneMessage, CopiesMatch
  <2>4. Conversation'
    BY <1>1, <1>3, <2>1, <2>2 DEF DispatchInv, ProtocolInv, Conversation, Turn
  <2> QED
    BY <2>1, <2>3, <2>4 DEF DispatchInv, ProtocolInv
<1>6. PlacesInv'
  <2> SUFFICES ASSUME NEW t \in Template PROVE Placed(t)'
    BY DEF PlacesInv
  <2>1. UNCHANGED <<artifacts, inflight, chan, buffer, dropped, done, job>>
    BY <1>1 DEF storageVars, queueVars
  <2> QED
    BY <2>1, PlacedUntouched DEF DispatchInv, PlacesInv, Offered
<1> QED
  BY <1>4, <1>5, <1>6 DEF DispatchInv

(* The invariant of the dispatch holds throughout the program.             *)
LEMMA SchedDispatchInv ==
    ASSUME SchedInv, SchedNext
    PROVE  DispatchInv'
<1>1. DispatchInv
  BY DEF SchedInv
<1>2. CASE [Next]_dispatchVars
  BY <1>1, <1>2, NextIndInv, NextProtocolInv, NextPlacesInv DEF DispatchInv
<1>3. ASSUME NEW a, WellFormed(a), PublishArtifact(a) PROVE DispatchInv'
  <2>1. IndInv'
    BY <1>1, <1>3, StepPublishArtifact DEF DispatchInv
  <2>2. ProtocolInv'
    BY <1>1, <1>3, ConversationUntouched
    DEF DispatchInv, ProtocolInv, PublishArtifact, instanceVars
  <2>3. PlacesInv'
    BY <1>1, <1>3, PlacesPublish DEF DispatchInv, PlacesInv
  <2> QED
    BY <2>1, <2>2, <2>3 DEF DispatchInv
<1> QED
  BY <1>1, <1>2, <1>3, DispatchStep, ExitKeepsDispatch

-----------------------------------------------------------------------------
(* The loop's own variables.                                               *)

(* A list grows at its end and is emptied at its head.                     *)
LEMMA AppendedSet ==
    ASSUME NEW S, NEW s \in Seq(S), NEW x \in S
    PROVE  ToSet(Append(s, x)) = ToSet(s) \cup {x}
<1> DEFINE r == Append(s, x)
<1>1. /\ DOMAIN r = DOMAIN s \cup {Len(s) + 1} /\ r[Len(s) + 1] = x
      /\ \A n \in DOMAIN s : r[n] = s[n] /\ n # Len(s) + 1
  OBVIOUS
<1> HIDE DEF r
<1> QED
  BY <1>1 DEF ToSet, r

(* Only a submission changes what is stored.                               *)
LEMMA OnlyDrainStores ==
    ASSUME SchedNext, ~PublishScope, ~DrainOne
    PROVE  UNCHANGED artifacts
<1>1. CASE CollectReceive \/ CollectHandOff \/ CollectNoOutput \/ ReceiveCtrl
  BY <1>1 DEF CollectReceive, CollectHandOff, CollectNoOutput, ReceiveCtrl,
     Receive, HandOff, PopAndReturn, HandleScannerInstanceMsg, dispatchVars, storageVars
<1>2. CASE StartLoop \/ StartDrain \/ CheckBus \/ CheckTemplate \/ CreateIndex
            \/ IndexArtifact \/ FinishUpload \/ CloseTemplate
  BY <1>2 DEF StartLoop, StartDrain, CheckBus, CheckTemplate, CreateIndex,
     IndexArtifact, FinishUpload, CloseTemplate, dispatchVars, storageVars
<1>3. CASE \E s \in Subscriber, e \in Pointer : Delivery(s, e)
  BY <1>3 DEF Delivery, Others, DeliverEvent
<1>4. CASE \E i \in Instance : InstanceStep(i) \/ ContainerStep(i)
  BY <1>4 DEF InstanceStep, ContainerStep, InstanceExit, Others, Run, WaitForRegister, SetBusy,
     SendArtifact, WaitForFinishTask, UnsetBusy, SlaveRegister, SlaveFinishTask, storageVars
<1>5. CASE \E i \in Instance, a \in Content : SlavePost(i, a)
  BY <1>5 DEF SlavePost, dispatchVars, storageVars
<1> QED
  BY <1>1, <1>2, <1>3, <1>4, <1>5 DEF SchedNext, SchedulerStep

(* What the invariant says of the loop, the channel and the index.         *)
LEMMA LoopTypes ==
    ASSUME SchedInv
    PROVE  /\ cursor \in Nat \ {0} /\ remaining \in 0..Len(artifactsInput)
           /\ artifactsInput \in Seq(Content) /\ posted \in Seq(Content)
           /\ uploaded \in Seq(Artifact) /\ artifacts \in Seq(Artifact)
           /\ Len(artifactsInput) \in Nat /\ Len(TemplateOrder) \in Nat \ {0}
           /\ DOMAIN TemplateOrder = 1..Len(TemplateOrder)
<1>1. /\ cursor \in Nat \ {0} /\ remaining \in 0..Len(artifactsInput)
      /\ artifactsInput \in Seq(Content) /\ posted \in Seq(Content)
      /\ uploaded \in Seq(Artifact)
  BY DEF SchedInv, SchedTypeOK, WithinLists
<1>2. artifacts \in Seq(Artifact)
  BY DEF SchedInv, SchedTypeOK, TypeOK
<1>3. TemplateOrder \in Seq(Template) /\ TemplateOrder # <<>>
  BY SchedulerAssumption
<1>4. /\ Len(TemplateOrder) \in Nat \ {0} /\ DOMAIN TemplateOrder = 1..Len(TemplateOrder)
  BY <1>3
<1>5. Len(artifactsInput) \in Nat
  BY <1>1
<1> QED
  BY <1>1, <1>2, <1>4, <1>5

(* The loop, its cursor and its flags.                                     *)
LEMMA LoopStays ==
    ASSUME SchedInv, SchedNext
    PROVE  /\ loop' \in {"scope", "receive", "send", "drain", "draining", "ctrl", "isBusy",
                 "isTemplateBusy", "sleep", "upload", "indexing", "failed", "close", "exit"}
           /\ cursor' \in Nat \ {0} /\ {noInput, loopBusy, shouldSleep}' \subseteq BOOLEAN
           /\ loop' \in {"receive", "send", "isTemplateBusy", "close"}
                 => cursor' \in DOMAIN TemplateOrder
<1>1. /\ loop \in {"scope", "receive", "send", "drain", "draining", "ctrl", "isBusy",
                 "isTemplateBusy", "sleep", "upload", "indexing", "failed", "close", "exit"}
      /\ {noInput, loopBusy, shouldSleep} \subseteq BOOLEAN
      /\ loop \in {"receive", "send", "isTemplateBusy", "close"} => cursor \in DOMAIN TemplateOrder
  BY DEF SchedInv, SchedTypeOK, WithinLists
<1>2. /\ cursor \in Nat \ {0} /\ Len(TemplateOrder) \in Nat \ {0}
      /\ DOMAIN TemplateOrder = 1..Len(TemplateOrder)
  BY LoopTypes
<1>3. cursor + 1 \in Nat \ {0} /\ 1 \in DOMAIN TemplateOrder /\ 1 \in Nat \ {0}
      /\ (cursor < Len(TemplateOrder) => cursor + 1 \in DOMAIN TemplateOrder)
  BY <1>2
<1>4. CASE UNCHANGED <<loop, cursor, noInput, loopBusy, shouldSleep>>
  BY <1>1, <1>2, <1>4
<1>5. CASE PublishScope
  BY <1>1, <1>3, <1>5 DEF PublishScope
<1>6. CASE StartLoop \/ CollectReceive \/ CollectHandOff \/ CollectNoOutput
  BY <1>1, <1>2, <1>3, <1>6 DEF StartLoop, CollectReceive, CollectHandOff, CollectNoOutput
<1>7. CASE StartDrain \/ DrainOne \/ ReceiveCtrl
  BY <1>1, <1>2, <1>3, <1>7 DEF StartDrain, DrainOne, ReceiveCtrl
<1>8. CASE CheckBus \/ CheckTemplate
  BY <1>1, <1>2, <1>3, <1>8 DEF CheckBus, CheckTemplate
<1>9. CASE CreateIndex \/ IndexArtifact \/ FinishUpload \/ CloseTemplate
  BY <1>1, <1>2, <1>3, <1>9 DEF CreateIndex, IndexArtifact, FinishUpload, CloseTemplate
<1> QED
  BY <1>4, <1>5, <1>6, <1>7, <1>8, <1>9
  DEF SchedNext, SchedulerStep, InstanceStep, ContainerStep, Delivery, SlavePost,
      InstanceExit, Others, loopVars

(* The server's channel is filled at its end and emptied at its head.      *)
LEMMA ChannelStays ==
    ASSUME SchedInv, SchedNext
    PROVE  /\ artifactsInput' \in Seq(Content) /\ posted' \in Seq(Content)
           /\ remaining' \in 0..Len(artifactsInput')
           /\ Len(artifactsInput') <= InputCap /\ Len(posted') <= MaxPosts
<1>1. /\ artifactsInput \in Seq(Content) /\ posted \in Seq(Content)
      /\ remaining \in 0..Len(artifactsInput)
      /\ Len(artifactsInput) <= InputCap /\ Len(posted) <= MaxPosts
      /\ InputCap \in Nat /\ MaxPosts \in Nat
  BY SchedulerAssumption DEF SchedInv, SchedTypeOK, WithinLists
<1>2. CASE UNCHANGED <<artifactsInput, posted, remaining>>
  BY <1>1, <1>2
<1>3. CASE StartDrain
  BY <1>1, <1>3 DEF StartDrain, inputVars
<1>4. CASE DrainOne
  <2>1. /\ remaining > 0 /\ artifactsInput' = Tail(artifactsInput)
        /\ remaining' = remaining - 1 /\ posted' = posted
    BY <1>4 DEF DrainOne
  <2>2. artifactsInput # <<>>
    BY <1>1, <2>1
  <2>3. Tail(artifactsInput) \in Seq(Content) /\ Len(Tail(artifactsInput)) = Len(artifactsInput) - 1
    BY <1>1, <2>2
  <2> QED
    BY <1>1, <2>1, <2>3
<1>5. ASSUME NEW i \in Instance, NEW a \in Content, SlavePost(i, a)
      PROVE  /\ artifactsInput' \in Seq(Content) /\ posted' \in Seq(Content)
             /\ remaining' \in 0..Len(artifactsInput')
             /\ Len(artifactsInput') <= InputCap /\ Len(posted') <= MaxPosts
  <2>1. /\ artifactsInput' = Append(artifactsInput, a) /\ posted' = Append(posted, a)
        /\ Len(artifactsInput) < InputCap /\ Len(posted) < MaxPosts /\ UNCHANGED remaining
    BY <1>5 DEF SlavePost, postArtifact, loopVars
  <2>2. /\ Len(Append(artifactsInput, a)) = Len(artifactsInput) + 1
        /\ Len(Append(posted, a)) = Len(posted) + 1
        /\ Append(artifactsInput, a) \in Seq(Content) /\ Append(posted, a) \in Seq(Content)
    BY <1>1
  <2> QED
    BY <1>1, <2>1, <2>2
<1>6. CASE PublishScope \/ StartLoop \/ CollectReceive \/ CollectHandOff \/ CollectNoOutput
           \/ ReceiveCtrl \/ CheckBus \/ CheckTemplate
           \/ CreateIndex \/ IndexArtifact \/ FinishUpload \/ CloseTemplate
  BY <1>2, <1>6 DEF PublishScope, StartLoop, CollectReceive, CollectHandOff, CollectNoOutput,
     ReceiveCtrl, CheckBus, CheckTemplate, CreateIndex, IndexArtifact, FinishUpload,
     CloseTemplate, inputVars
<1> QED
  BY <1>2, <1>3, <1>4, <1>5, <1>6
  DEF SchedNext, SchedulerStep, InstanceStep, ContainerStep, Delivery,
      InstanceExit, Others, loopVars, inputVars

(* The index has nothing but stored artifacts, and nothing before the      *)
(* upload.                                                                 *)
LEMMA IndexStays ==
    ASSUME SchedInv, SchedNext
    PROVE  /\ uploaded' \in Seq(Artifact)
           /\ ToSet(uploaded') \cup notIndexed' \subseteq ToSet(artifacts')
           /\ loop' \notin {"indexing", "close", "exit"} => uploaded' = <<>> /\ notIndexed' = {}
<1>1. /\ uploaded \in Seq(Artifact) /\ artifacts \in Seq(Artifact)
      /\ ToSet(uploaded) \cup notIndexed \subseteq ToSet(artifacts)
      /\ loop \notin {"indexing", "close", "exit"} => uploaded = <<>> /\ notIndexed = {}
      /\ cursor \in Nat \ {0}
  BY DEF SchedInv, SchedTypeOK, TypeOK, WithinLists
<1>2. ToSet(<<>>) = {}
  BY DEF ToSet
<1>3. CASE PublishScope \/ DrainOne
  <2>1. /\ loop \in {"scope", "draining"} /\ loop' \in {"scope", "draining", "ctrl"}
        /\ UNCHANGED <<uploaded, notIndexed>>
    BY <1>3 DEF PublishScope, DrainOne, uploadVars
  <2> QED
    BY <1>1, <1>2, <2>1
<1>4. CASE IndexArtifact
  <2>1. UNCHANGED artifacts /\ loop' = loop /\ loop = "indexing"
        /\ cursor <= Len(artifacts)
    BY <1>4 DEF IndexArtifact, dispatchVars, storageVars
  <2>2. artifacts[cursor] \in Artifact /\ artifacts[cursor] \in ToSet(artifacts)
    BY <1>1, <2>1 DEF ToSet
  <2>3. CASE uploaded' = Append(uploaded, artifacts[cursor]) /\ UNCHANGED notIndexed
    <3>1. /\ Append(uploaded, artifacts[cursor]) \in Seq(Artifact)
          /\ ToSet(Append(uploaded, artifacts[cursor])) = ToSet(uploaded) \cup {artifacts[cursor]}
      BY <1>1, <2>2, AppendedSet
    <3> QED
      BY <1>1, <2>1, <2>2, <2>3, <3>1
  <2>4. CASE notIndexed' = notIndexed \cup {artifacts[cursor]} /\ UNCHANGED uploaded
    BY <1>1, <2>1, <2>2, <2>4
  <2> QED
    BY <1>4, <2>3, <2>4 DEF IndexArtifact
<1>5. CASE ~PublishScope /\ ~DrainOne /\ ~IndexArtifact
  <2>1. UNCHANGED <<uploaded, notIndexed, artifacts>>
    BY <1>5, OnlyDrainStores DEF SchedNext, SchedulerStep, StartLoop, CollectReceive,
       CollectHandOff, CollectNoOutput, StartDrain, ReceiveCtrl, CheckBus, CheckTemplate,
       CreateIndex, FinishUpload, CloseTemplate, InstanceStep, ContainerStep, Delivery,
       InstanceExit, SlavePost, Others, uploadVars
  <2>2. loop \in {"indexing", "close", "exit"} => loop' \in {"indexing", "close", "exit"}
    BY <1>5 DEF SchedNext, SchedulerStep, StartLoop, CollectReceive,
       CollectHandOff, CollectNoOutput, StartDrain, ReceiveCtrl, CheckBus, CheckTemplate,
       CreateIndex, FinishUpload, CloseTemplate, InstanceStep, ContainerStep, Delivery,
       InstanceExit, SlavePost, Others, loopVars
  <2> QED
    BY <1>1, <2>1, <2>2
<1> QED
  BY <1>3, <1>4, <1>5

-----------------------------------------------------------------------------
(* The end of the loop.                                                    *)

(* A step of another goroutine that neither wakes a template at rest nor   *)
(* takes a message from an instance that waits for one.                    *)
LEMMA LoopFrame ==
    ASSUME SchedInv, LoopInv, UNCHANGED <<loop, cursor, loopBusy, artifactsInput, buffer>>,
           BusEmpty => BusEmpty',
           \A i \in Instance : Awaits(i) => Awaits(i)',
           \A i \in Instance : pc[i] \in {"idle", "exited"} => pc'[i] \in {"idle", "exited"},
           \A i \in Instance : pc'[i] = "received" => pc[i] = "received"
    PROVE  LoopInv'
<1>1. \A t : Rests(t) => Rests(t)'
  BY DEF Rests, InstancesOf
<1>2. ResultsExpected => ResultsExpected'
  BY DEF ResultsExpected
<1> QED
  BY <1>1, <1>2 DEF LoopInv, Finished

(* The steps of the instances and of the containers.                       *)
LEMMA OthersKeepLoop ==
    ASSUME SchedInv, LoopInv, SchedNext, ~SchedulerStep
    PROVE  LoopInv'
<1>1. /\ \A i \in Instance : Turn(i)
      /\ pc \in [Instance -> {"register", "idle", "received", "send", "wait", "unset", "exited"}]
      /\ ctrlIn \in [Instance -> Seq({"register", "finish_task"})]
      /\ TemplateOf \in [Instance -> Template]
  BY DispatchAssumption
  DEF SchedInv, DispatchInv, IndInv, TypeOK, ProtocolInv, Conversation
<1>2. ASSUME NEW s \in Subscriber, NEW e \in Pointer, Delivery(s, e) PROVE LoopInv'
  <2>1. UNCHANGED <<loop, cursor, loopBusy, artifactsInput, buffer, pc, ctrlIn>>
    BY <1>2 DEF Delivery, Others, DeliverEvent, loopVars, inputVars, queueVars, instanceVars, ctrlVars
  <2>2. ~BusEmpty
    BY <1>2 DEF Delivery, Others, DeliverEvent, Deliver, BusEmpty
  <2> QED
    BY <2>1, <2>2, LoopFrame DEF Awaits
<1>3. ASSUME NEW i \in Instance, Others(Run(i)) PROVE LoopInv'
  <2>1. UNCHANGED <<loop, cursor, loopBusy, artifactsInput, buffer, inflight, chan>>
    BY <1>3 DEF Others, Run, WaitForRegister, SetBusy, SendArtifact, WaitForFinishTask,
       UnsetBusy, loopVars, inputVars, queueVars, storageVars
  <2>2. /\ pc[i] \in {"register", "received", "send", "wait", "unset"}
        /\ pc[i] = "wait" => ctrlIn[i] # <<>>
        /\ pc'[i] # "received"
        /\ \A j \in Instance \ {i} : pc'[j] = pc[j] /\ ctrlIn'[j] = ctrlIn[j]
    BY <1>1, <1>3 DEF Others, Run, WaitForRegister, SetBusy, SendArtifact,
       WaitForFinishTask, UnsetBusy, ctrlVars
  <2> QED
    BY <2>1, <2>2, LoopFrame DEF Awaits, BusEmpty
<1>4. ASSUME NEW i \in Instance, InstanceExit(i) PROVE LoopInv'
  <2>1. UNCHANGED <<loop, cursor, loopBusy, artifactsInput, buffer, inflight, chan, ctrlIn>>
    BY <1>4 DEF InstanceExit, loopVars, inputVars, queueVars, storageVars, ctrlVars
  <2>2. /\ pc[i] = "idle" /\ pc'[i] = "exited"
        /\ \A j \in Instance \ {i} : pc'[j] = pc[j]
    BY <1>1, <1>4 DEF InstanceExit
  <2> QED
    BY <2>1, <2>2, LoopFrame DEF Awaits, BusEmpty
<1>5. ASSUME NEW i \in Instance, ContainerStep(i) PROVE LoopInv'
  <2>1. UNCHANGED <<loop, cursor, loopBusy, artifactsInput, buffer, inflight, chan, pc, ctrlIn>>
    BY <1>5 DEF ContainerStep, Others, SlaveRegister, SlaveFinishTask, loopVars, inputVars,
       queueVars, storageVars, instanceVars
  <2> QED
    BY <2>1, LoopFrame DEF Awaits, BusEmpty
<1>6. ASSUME NEW i \in Instance, NEW a \in Content, SlavePost(i, a) PROVE LoopInv'
  <2>1. UNCHANGED <<loop, cursor, loopBusy, buffer, inflight, chan, pc, ctrlIn>>
    BY <1>6 DEF SlavePost, dispatchVars, storageVars, queueVars, instanceVars, ctrlVars, loopVars
  <2>2. Awaits(i) /\ Awaits(i)'
    BY <1>1, <1>6, <2>1 DEF SlavePost, Turn, Told, Awaits
  <2>3. ~Rests(TemplateOf[i]) /\ TemplateOf[i] \in Template
    BY <1>1, <2>2 DEF Awaits, Rests, InstancesOf
  <2>4. /\ ResultsExpected' /\ ~Finished
        /\ BusEmpty' = BusEmpty /\ \A t : Rests(t)' = Rests(t)
    BY <2>1, <2>2, <2>3 DEF LoopInv, ResultsExpected, BusEmpty, Rests, InstancesOf
  <2> QED
    BY <2>1, <2>4 DEF LoopInv, Finished
<1> QED
  BY <1>2, <1>3, <1>4, <1>5, <1>6 DEF SchedNext, InstanceStep

(* A template that IsBusy passes over rests, once no instance is between   *)
(* its receive and SetBusy.                                                *)
LEMMA NotBusyRests ==
    ASSUME SchedInv, NEW t \in Template, ~TemplateIsBusy(t),
           \A i \in Instance : pc[i] # "received"
    PROVE  Rests(t)
<1>1. \A i \in Instance : busy[i] <=> pc[i] \in {"register", "send", "wait", "unset"}
  BY DEF SchedInv, DispatchInv, ProtocolInv, Conversation
<1>2. pc \in [Instance -> {"register", "idle", "received", "send", "wait", "unset", "exited"}]
  BY DEF SchedInv, DispatchInv, IndInv, TypeOK
<1> QED
  BY <1>1, <1>2 DEF TemplateIsBusy, Rests, InstancesOf

(* The scheduler's steps.  When the last template has been asked, the      *)
(* artifact channel is empty: what it held would be the result of a        *)
(* container whose instance would not be at rest.                          *)
LEMMA SchedulerKeepsLoop ==
    ASSUME SchedInv, LoopInv, SchedulerStep, Settle = "always"
    PROVE  LoopInv'
<1>1. /\ cursor \in Nat \ {0} /\ Len(TemplateOrder) \in Nat \ {0}
      /\ DOMAIN TemplateOrder = 1..Len(TemplateOrder)
  BY LoopTypes
<1>2. CASE PublishScope \/ StartLoop \/ CollectReceive \/ CollectHandOff \/ CollectNoOutput
  BY <1>2 DEF PublishScope, StartLoop, CollectReceive, CollectHandOff, CollectNoOutput,
              LoopInv, Finished
<1>3. CASE StartDrain
  <2>1. \/ loop' = "draining" /\ loopBusy' = TRUE
        \/ loop' = "ctrl" /\ artifactsInput' = <<>>
    BY <1>3 DEF StartDrain, inputVars
  <2> QED
    BY <2>1 DEF LoopInv, Finished, ResultsExpected
<1>4. CASE DrainOne
  BY <1>4 DEF DrainOne, LoopInv, Finished
<1>5. CASE ReceiveCtrl
  <2>1. loop = "ctrl" /\ loop' = "isBusy" /\ UNCHANGED artifactsInput
    BY <1>5 DEF ReceiveCtrl, inputVars
  <2>2. CASE loopBusy' = TRUE
    BY <2>1, <2>2 DEF LoopInv, Finished
  <2>3. CASE UNCHANGED <<dispatchVars, loopBusy>>
    <3>1. ResultsExpected' = ResultsExpected
      BY <2>1, <2>3 DEF ResultsExpected, Awaits, dispatchVars, instanceVars, ctrlVars
    <3> QED
      BY <2>1, <2>3, <3>1 DEF LoopInv, Finished
  <2> QED
    BY <1>5, <2>2, <2>3 DEF ReceiveCtrl
<1>6. ASSUME UNCHANGED <<dispatchVars, artifactsInput>>
      PROVE  /\ BusEmpty' = BusEmpty /\ \A t : Rests(t)' = Rests(t)
             /\ ResultsExpected' = ResultsExpected /\ pc' = pc
  BY <1>6 DEF BusEmpty, Rests, InstancesOf, ResultsExpected, Awaits, dispatchVars,
              storageVars, queueVars, instanceVars, ctrlVars
<1>7. CASE CheckBus
  <2>1. UNCHANGED <<dispatchVars, artifactsInput>> /\ loop = "isBusy" /\ Quiet
    BY <1>7 DEF CheckBus, inputVars
  <2>2. CASE loop' = "sleep"
    BY <2>2 DEF LoopInv, Finished
  <2>3. CASE ~loopBusy /\ ~AreEventsInBus /\ loop' = "isTemplateBusy" /\ cursor' = 1
    <3>1. \A s \in Subscriber : chan[s] = <<>> /\ (inflight[s] = {} \/ Len(chan[s]) = ChannelCap)
      BY <2>1, <2>3 DEF Quiet, AreEventsInBus
    <3>2. Len(<<>>) = 0 /\ ChannelCap # 0
      BY BusAssumption
    <3>3. BusEmpty /\ \A i \in Instance : pc[i] # "received"
      BY <2>1, <3>1, <3>2 DEF BusEmpty, Quiet
    <3>4. 1..(cursor' - 1) = {}
      BY <2>3
    <3> QED
      BY <1>6, <2>1, <2>3, <3>3, <3>4 DEF LoopInv, Finished
  <2> QED
    BY <1>7, <2>2, <2>3 DEF CheckBus
<1>8. CASE CheckTemplate
  <2>1. /\ UNCHANGED <<dispatchVars, artifactsInput>> /\ loop = "isTemplateBusy"
        /\ ResultsExpected /\ BusEmpty /\ \A i \in Instance : pc[i] # "received"
        /\ \A n \in 1..(cursor - 1) : Rests(TemplateOrder[n])
        /\ cursor \in 1..Len(TemplateOrder) /\ Current \in Template
    BY <1>1, <1>8, SchedulerAssumption
    DEF CheckTemplate, inputVars, LoopInv, SchedInv, WithinLists, Current
  <2>2. CASE loop' = "sleep"
    BY <2>2 DEF LoopInv, Finished
  <2>3. CASE ~TemplateIsBusy(Current)
    <3>1. \A n \in 1..cursor : Rests(TemplateOrder[n])
      <4>1. Rests(TemplateOrder[cursor])
        BY <2>1, <2>3, NotBusyRests DEF Current
      <4>2. \A n \in 1..cursor : n \in 1..(cursor - 1) \/ n = cursor
        BY <1>1
      <4> QED
        BY <2>1, <4>1, <4>2
    <3>2. CASE cursor' = cursor + 1 /\ UNCHANGED loop
      <4>1. 1..(cursor' - 1) = 1..cursor
        BY <1>1, <3>2
      <4> QED
        BY <1>6, <2>1, <3>1, <3>2, <4>1 DEF LoopInv, Finished
    <3>3. CASE cursor >= Len(TemplateOrder) /\ loop' = "upload"
      <4>1. \A t \in Template : Rests(t)
        <5> SUFFICES ASSUME NEW t \in Template PROVE Rests(t)
          OBVIOUS
        <5>1. PICK n \in DOMAIN TemplateOrder : TemplateOrder[n] = t
          BY SchedulerAssumption DEF ToSet
        <5>2. n \in 1..cursor
          BY <1>1, <3>3, <5>1
        <5> QED
          BY <3>1, <5>1, <5>2
      <4>2. \A i \in Instance : ~Awaits(i)
        BY <4>1, DispatchAssumption DEF Awaits, Rests, InstancesOf
      <4>3. artifactsInput = <<>>
        BY <2>1, <4>2 DEF ResultsExpected
      <4> QED
        BY <1>6, <2>1, <3>3, <4>1, <4>3 DEF LoopInv
    <3> QED
      BY <1>1, <1>8, <2>3, <3>2, <3>3 DEF CheckTemplate
  <2> QED
    BY <1>8, <2>2, <2>3 DEF CheckTemplate
<1>9. CASE CreateIndex \/ IndexArtifact \/ FinishUpload \/ CloseTemplate
  <2>1. UNCHANGED <<dispatchVars, artifactsInput>> /\ Finished /\ Finished'
    BY <1>9 DEF CreateIndex, IndexArtifact, FinishUpload, CloseTemplate, inputVars, Finished
  <2> QED
    BY <1>6, <2>1 DEF LoopInv, Finished
<1> QED
  BY <1>2, <1>3, <1>4, <1>5, <1>7, <1>8, <1>9 DEF SchedulerStep

-----------------------------------------------------------------------------
(* The invariant of the program.                                           *)
THEOREM NextSchedInv == SchedInv /\ [SchedNext]_schedVars => SchedInv'
<1> SUFFICES ASSUME SchedInv, [SchedNext]_schedVars PROVE SchedInv'
  OBVIOUS
<1>1. CASE SchedNext
  <2>1. DispatchInv'
    BY <1>1, SchedDispatchInv
  <2>2. TypeOK'
    BY <2>1 DEF DispatchInv, IndInv
  <2>3. SchedTypeOK'
    BY <1>1, <2>2, LoopStays, ChannelStays, IndexStays DEF SchedTypeOK
  <2>4. WithinLists'
    BY <1>1, LoopStays, ChannelStays, IndexStays DEF WithinLists
  <2>5. Settle = "always" => LoopInv'
    BY <1>1, OthersKeepLoop, SchedulerKeepsLoop DEF SchedInv
  <2> QED
    BY <2>1, <2>3, <2>4, <2>5 DEF SchedInv
<1>2. CASE UNCHANGED schedVars
  <2>1. [Next]_dispatchVars
    BY <1>2 DEF schedVars
  <2>2. DispatchInv'
    BY <2>1, NextIndInv, NextProtocolInv, NextPlacesInv DEF SchedInv, DispatchInv
  <2>3. TypeOK'
    BY <2>2 DEF DispatchInv, IndInv
  <2>4. UNCHANGED <<loop, cursor, noInput, loopBusy, shouldSleep, remaining, artifactsInput,
                    posted, uploaded, notIndexed, artifacts, inflight, chan, buffer, pc, ctrlIn>>
    BY <1>2 DEF schedVars, loopVars, inputVars, uploadVars, dispatchVars, storageVars,
                queueVars, instanceVars, ctrlVars
  <2>5. SchedTypeOK' /\ WithinLists'
    BY <2>3, <2>4 DEF SchedInv, SchedTypeOK, WithinLists
  <2>6. LoopInv => LoopInv'
    BY <2>4, LoopFrame DEF BusEmpty, Awaits
  <2> QED
    BY <2>2, <2>5, <2>6 DEF SchedInv
<1> QED
  BY <1>1, <1>2

(* At the start the loop has the scope before it.                          *)
LEMMA InitSchedInv == SchedInit => SchedInv
<1> SUFFICES ASSUME SchedInit PROVE SchedInv
  OBVIOUS
<1>1. DispatchInv
  BY InitIndInv, InitProtocolInv, InitPlacesInv DEF SchedInit, DispatchInv
<1>2. TypeOK
  BY <1>1 DEF DispatchInv, IndInv
<1>3. <<>> \in Seq(Content) /\ <<>> \in Seq(Artifact) /\ Len(<<>>) = 0 /\ ToSet(<<>>) = {}
  BY DEF ToSet
<1>4. remaining \in 0..Len(artifactsInput) /\ Len(artifactsInput) <= InputCap
      /\ Len(posted) <= MaxPosts
  BY <1>3, SchedulerAssumption DEF SchedInit
<1>5. ToSet(uploaded) \cup notIndexed \subseteq ToSet(artifacts)
  BY <1>3 DEF SchedInit
<1>6. loop = "scope" /\ cursor \in Nat \ {0}
  BY DEF SchedInit
<1> noInput \in BOOLEAN /\ loopBusy \in BOOLEAN /\ shouldSleep \in BOOLEAN
  BY Zenon DEF SchedInit
<1>7. SchedTypeOK
  BY <1>2, <1>4, <1>5, <1>6 DEF SchedTypeOK
<1>8. WithinLists
  BY <1>3, <1>6 DEF SchedInit, WithinLists
<1>9. LoopInv
  BY <1>6 DEF LoopInv, Finished
<1> QED
  BY <1>1, <1>7, <1>8, <1>9 DEF SchedInv

(* The inductive invariant of the program holds.                           *)
THEOREM SchedInvHolds == SchedSpec => []SchedInv
  BY InitSchedInv, NextSchedInv, PTL DEF SchedSpec

(* Types of the whole program, and: only stored artifacts are uploaded.    *)
THEOREM SchedTypeCorrect == SchedSpec => []SchedTypeOK
<1>1. SchedInv => SchedTypeOK
  BY DEF SchedInv
<1> QED
  BY <1>1, SchedInvHolds, PTL

(* If publishers and instances have settled whenever IsBusy is asked, the  *)
(* program uploads and says "Finished!" only when all is done: no artifact *)
(* waits, no container works, no result is in the channel.                 *)
THEOREM FinishedIsDone ==
    ASSUME Settle = "always"
    PROVE  SchedSpec => []FinishedMeansDone
<1>1. ASSUME SchedInv PROVE FinishedMeansDone
  <2> SUFFICES ASSUME Finished PROVE /\ \A t \in Template : Offered(t) \subseteq done[t] \cup dropped[t]
                                     /\ \A i \in Instance : tasks[i] = <<>>
                                     /\ artifactsInput = <<>>
    BY DEF FinishedMeansDone
  <2>1. BusEmpty /\ (\A t \in Template : Rests(t)) /\ artifactsInput = <<>>
    BY <1>1 DEF SchedInv, LoopInv
  <2>2. ASSUME NEW t \in Template PROVE Offered(t) \subseteq done[t] \cup dropped[t]
    <3>1. /\ inflight[t] = {} /\ chan[t] = <<>> /\ buffer[t] = <<>>
          /\ \A i \in InstancesOf(t) : pc[i] \in {"idle", "exited"}
      BY <2>1, DispatchAssumption DEF BusEmpty, Rests
    <3>2. HeldBy(t) = {}
      BY <1>1, <3>1 DEF HeldBy, InstancesOf, SchedInv, DispatchInv, IndInv, Occupied
    <3>3. ToSet(<<>>) = {}
      BY DEF ToSet
    <3>4. Offered(t) = UNION {Places(t)[n] : n \in DOMAIN Places(t)}
      BY <1>1 DEF SchedInv, DispatchInv, PlacesInv, Placed, Partitioned
    <3>5. \A n \in DOMAIN Places(t) : Places(t)[n] \subseteq done[t] \cup dropped[t]
      BY <3>1, <3>2, <3>3, PlaceNames
    <3> QED
      BY <3>4, <3>5
  <2>3. ASSUME NEW i \in Instance PROVE tasks[i] = <<>>
    <3>1. pc[i] \in {"idle", "exited"}
      BY <2>1, DispatchAssumption DEF Rests, InstancesOf
    <3>2. Turn(i)
      BY <1>1 DEF SchedInv, DispatchInv, ProtocolInv, Conversation
    <3> QED
      BY <3>1, <3>2 DEF Turn
  <2> QED
    BY <2>1, <2>2, <2>3
<1> QED
  BY <1>1, SchedInvHolds, PTL

-----------------------------------------------------------------------------
(* The upload.                                                             *)

(* A merge that leaves a site in the URL leaves a duplicate of whatever the*)
(* artifact was, or was the stored duplicate of.                           *)
LEMMA MergeKeeps ==
    ASSUME NEW a, NEW b, NEW c, WellTyped(a), WellTyped(b), Duplicates(b, a),
           Merge(b, a).url # None => Merge(b, a).url.host # None,
           c = b \/ Duplicates(b, c)
    PROVE  c = Merge(b, a) \/ Duplicates(Merge(b, a), c)
<1> DEFINE m == Merge(b, a)
<1>1. CASE a.type # "technology"
  BY <1>1 DEF Merge
<1>2. CASE a.type = "technology"
  <2>1. /\ b.type = "technology" /\ GetDomainFromArtifact(b) # None
        /\ HostOf(b.url) = HostOf(a.url) /\ HostOf(b.url) # None
    BY <1>2 DEF Duplicates, GetDomainFromArtifact
  <2>2. a.url \in URL /\ b.url \in URL /\ b \in Artifact
    BY <2>1 DEF HostOf, WellTyped, Artifact
  <2>3. unifyURL(b.url, a.url) \in URL /\ HostOf(unifyURL(b.url, a.url)) \in {HostOf(b.url), None}
    BY <2>1, <2>2, URLAssumption DEF unifyURL, HostOf, URL
  <2>4. /\ m.type = b.type /\ m.value = b.value
        /\ m.url \in {b.url, unifyURL(b.url, a.url)}
    BY <1>2, <2>2 DEF Merge, Artifact
  <2>5. m.url \in URL /\ HostOf(m.url) \in {HostOf(b.url), None}
    BY <2>2, <2>3, <2>4
  <2>6. HostOf(m.url) = HostOf(b.url)
    BY <2>5, URLAssumption DEF HostOf
  <2>7. GetDomainFromArtifact(m) = GetDomainFromArtifact(b)
    BY <2>1, <2>4, <2>6 DEF GetDomainFromArtifact
  <2> HIDE DEF m
  <2>8. CASE c = b
    BY <2>1, <2>4, <2>7, <2>8 DEF Duplicates, m
  <2>9. CASE Duplicates(b, c)
    BY <2>1, <2>4, <2>7, <2>9 DEF Duplicates, m
  <2> QED
    BY <2>8, <2>9 DEF m
<1> QED
  BY <1>1, <1>2

(* A submission keeps what is kept, and then its artifact is kept too.     *)
LEMMA SubmissionKeeps ==
    ASSUME IndInv, NEW a, WellFormed(a), AddArtifact(a), StoredURLNamesSite'
    PROVE  Kept(a)' /\ \A c : Kept(c) => Kept(c)'
<1>1. artifacts \in Seq(Artifact) /\ StoredWellTyped /\ WellTyped(a)
  BY DEF IndInv, TypeOK, WellFormed
<1>2. CASE DropDuplicate(a)
  <2>1. PICK k \in DOMAIN artifacts :
          /\ Duplicates(artifacts[k], a)
          /\ artifacts' = [artifacts EXCEPT ![k] = Merge(artifacts[k], a)]
    BY <1>2 DEF DropDuplicate
  <2>2. /\ DOMAIN artifacts' = DOMAIN artifacts
        /\ artifacts'[k] = Merge(artifacts[k], a)
        /\ \A e \in DOMAIN artifacts \ {k} : artifacts'[e] = artifacts[e]
    BY <1>1, <2>1
  <2>3. /\ WellTyped(artifacts[k])
        /\ artifacts'[k].url # None => artifacts'[k].url.host # None
    BY <1>1, <2>2 DEF StoredURLNamesSite, StoredWellTyped
  <2>4. ASSUME NEW c, NEW e \in DOMAIN artifacts, c = artifacts[e] \/ Duplicates(artifacts[e], c)
        PROVE  Kept(c)'
    <3>1. c = artifacts'[e] \/ Duplicates(artifacts'[e], c)
      BY <1>1, <2>1, <2>2, <2>3, <2>4, MergeKeeps
    <3>2. artifacts'[e] \in ToSet(artifacts')
      BY <2>2 DEF ToSet
    <3> QED
      BY <3>1, <3>2 DEF Kept
  <2> QED
    BY <2>1, <2>4 DEF Kept, ToSet
<1>3. CASE StoreNew(a)
  <2>1. ToSet(artifacts') = ToSet(artifacts) \cup {a}
    BY <1>1, <1>3, AppendedSet DEF StoreNew, WellTyped
  <2> QED
    BY <2>1 DEF Kept
<1> QED
  BY <1>2, <1>3 DEF AddArtifact

(* What was accepted stays in the channel or is stored.                    *)
LEMMA AcceptedKept ==
    ASSUME SchedInv, UploadInv, SchedNext, StoredURLNamesSite'
    PROVE  \A a \in ToSet(posted') : a \in ToSet(artifactsInput') \/ Kept(a)'
<1>1. /\ artifactsInput \in Seq(Content) /\ posted \in Seq(Content) /\ IndInv
      /\ remaining \in 0..Len(artifactsInput)
  BY LoopTypes DEF SchedInv, DispatchInv
<1>2. CASE PublishScope
  <2>1. /\ WellFormed(ScopeContent[cursor]) /\ AddArtifact(ScopeContent[cursor])
        /\ UNCHANGED <<artifactsInput, posted>>
    BY <1>2, LoopTypes, SchedulerAssumption DEF PublishScope, PublishArtifact, inputVars
  <2>2. StoredURLNamesSite /\ \A c : Kept(c) => Kept(c)'
    BY <1>1, <2>1, StoreOfSites, SubmissionKeeps
  <2> QED
    BY <2>1, <2>2 DEF UploadInv
<1>3. CASE DrainOne
  <2>1. PICK a : a = Head(artifactsInput)
    OBVIOUS
  <2>2. /\ artifactsInput # <<>> /\ a \in Content
    BY <1>1, <1>3, <2>1 DEF DrainOne
  <2>3. /\ WellFormed(a) /\ AddArtifact(a) /\ UNCHANGED posted
        /\ artifactsInput' = Tail(artifactsInput)
    BY <1>3, <2>1, <2>2, DispatchAssumption DEF DrainOne, PublishArtifact
  <2>4. StoredURLNamesSite /\ Kept(a)' /\ \A c : Kept(c) => Kept(c)'
    BY <1>1, <2>3, StoreOfSites, SubmissionKeeps
  <2>5. \A n \in DOMAIN artifactsInput : n = 1 \/ artifactsInput[n] \in ToSet(Tail(artifactsInput))
    <3> DEFINE r == Tail(artifactsInput)
    <3>1. \A n \in DOMAIN artifactsInput \ {1} :
            n - 1 \in DOMAIN r /\ artifactsInput[n] = r[n - 1]
      BY <1>1, <2>2
    <3> HIDE DEF r
    <3>2. \A n \in DOMAIN artifactsInput \ {1} : artifactsInput[n] \in ToSet(r)
      BY <3>1 DEF ToSet
    <3> QED
      BY <3>2 DEF r
  <2>6. ToSet(artifactsInput) \subseteq {a} \cup ToSet(artifactsInput')
    BY <1>1, <2>1, <2>2, <2>3, <2>5 DEF ToSet
  <2> QED
    BY <2>3, <2>4, <2>6 DEF UploadInv
<1>4. CASE ~PublishScope /\ ~DrainOne
  <2>1. UNCHANGED artifacts
    BY <1>4, OnlyDrainStores
  <2>2. StoredURLNamesSite /\ \A c : Kept(c) => Kept(c)'
    BY <2>1 DEF StoredURLNamesSite, Kept
  <2>3. ASSUME NEW i \in Instance, NEW a \in Content, SlavePost(i, a)
        PROVE  /\ ToSet(posted') = ToSet(posted) \cup {a}
               /\ ToSet(artifactsInput') = ToSet(artifactsInput) \cup {a}
    BY <1>1, <2>3, AppendedSet DEF SlavePost, postArtifact
  <2>4. \/ UNCHANGED <<artifactsInput, posted>>
        \/ \E i \in Instance, a \in Content : SlavePost(i, a)
    <3>1. CASE StartLoop \/ CollectReceive \/ CollectHandOff \/ CollectNoOutput
               \/ StartDrain \/ ReceiveCtrl \/ CheckBus \/ CheckTemplate
      BY <3>1 DEF StartLoop, CollectReceive, CollectHandOff, CollectNoOutput,
                  StartDrain, ReceiveCtrl, CheckBus, CheckTemplate, inputVars
    <3>2. CASE CreateIndex \/ IndexArtifact \/ FinishUpload \/ CloseTemplate
      BY <3>2 DEF CreateIndex, IndexArtifact, FinishUpload, CloseTemplate, inputVars
    <3>3. CASE \/ \E s \in Subscriber, e \in Pointer : Delivery(s, e)
               \/ \E i \in Instance : InstanceStep(i) \/ ContainerStep(i)
      BY <3>3 DEF Delivery, InstanceStep, ContainerStep, InstanceExit, Others, inputVars
    <3> QED
      BY <1>4, <3>1, <3>2, <3>3 DEF SchedNext, SchedulerStep
  <2> QED
    BY <2>2, <2>3, <2>4 DEF UploadInv
<1> QED
  BY <1>2, <1>3, <1>4

(* The upload passes one stored artifact after the other, and nothing is   *)
(* stored meanwhile.                                                       *)
LEMMA UploadPasses ==
    ASSUME SchedInv, UploadInv, SchedNext, NEW n \in DOMAIN artifacts',
           loop' \in {"close", "exit"} \/ (loop' = "indexing" /\ n < cursor')
    PROVE  Passed(artifacts[n])'
<1>1. /\ uploaded \in Seq(Artifact) /\ artifacts \in Seq(Artifact) /\ cursor \in Nat \ {0}
  BY LoopTypes
<1>2. ~PublishScope /\ ~DrainOne
  BY DEF PublishScope, DrainOne
<1>3. UNCHANGED artifacts
  BY <1>2, OnlyDrainStores
<1>4. n \in Nat /\ n <= Len(artifacts) /\ n >= 1
  BY <1>1, <1>3
<1>5. CASE IndexArtifact
  <2>1. /\ loop = "indexing" /\ cursor' = cursor + 1 /\ loop' = loop
        /\ cursor <= Len(artifacts)
        /\ \/ uploaded' = Append(uploaded, artifacts[cursor]) /\ UNCHANGED notIndexed
           \/ notIndexed' = notIndexed \cup {artifacts[cursor]} /\ UNCHANGED uploaded
    BY <1>5 DEF IndexArtifact
  <2>2. artifacts[cursor] \in Artifact
    BY <1>1, <2>1
  <2>3. /\ ToSet(uploaded) \cup notIndexed \subseteq ToSet(uploaded') \cup notIndexed'
        /\ artifacts[cursor] \in ToSet(uploaded') \cup notIndexed'
    <3>1. ToSet(Append(uploaded, artifacts[cursor])) = ToSet(uploaded) \cup {artifacts[cursor]}
      BY <1>1, <2>2, AppendedSet
    <3>2. CASE uploaded' = Append(uploaded, artifacts[cursor]) /\ UNCHANGED notIndexed
      BY <3>1, <3>2
    <3>3. CASE notIndexed' = notIndexed \cup {artifacts[cursor]} /\ UNCHANGED uploaded
      BY <3>3
    <3> QED
      BY <2>1, <3>2, <3>3
  <2>4. n < cursor \/ n = cursor
    BY <1>1, <1>4, <2>1
  <2> QED
    BY <1>3, <2>1, <2>3, <2>4 DEF UploadInv, Passed
<1>6. CASE CreateIndex
  BY <1>4, <1>6 DEF CreateIndex
<1>7. CASE FinishUpload
  <2>1. loop = "indexing" /\ n < cursor /\ UNCHANGED <<uploaded, notIndexed>>
    BY <1>1, <1>4, <1>7 DEF FinishUpload, uploadVars
  <2> QED
    BY <1>3, <2>1 DEF UploadInv, Passed
<1>8. CASE CloseTemplate
  <2>1. loop = "close" /\ UNCHANGED <<uploaded, notIndexed>>
    BY <1>8 DEF CloseTemplate, uploadVars
  <2> QED
    BY <1>3, <2>1 DEF UploadInv, Passed
<1>9. CASE StartLoop \/ CollectReceive \/ CollectHandOff \/ CollectNoOutput
           \/ StartDrain \/ ReceiveCtrl \/ CheckBus \/ CheckTemplate
  BY <1>9 DEF StartLoop, CollectReceive, CollectHandOff, CollectNoOutput,
              StartDrain, ReceiveCtrl, CheckBus, CheckTemplate
<1>10. CASE \/ \E s \in Subscriber, e \in Pointer : Delivery(s, e)
            \/ \E i \in Instance : InstanceStep(i) \/ ContainerStep(i)
            \/ \E i \in Instance, a \in Content : SlavePost(i, a)
  <2>1. UNCHANGED <<loop, cursor, uploaded, notIndexed>>
    BY <1>10 DEF Delivery, InstanceStep, ContainerStep, InstanceExit, SlavePost, Others,
                 loopVars, uploadVars
  <2> QED
    BY <1>3, <2>1 DEF UploadInv, Passed
<1> QED
  BY <1>2, <1>5, <1>6, <1>7, <1>8, <1>9, <1>10 DEF SchedNext, SchedulerStep

(* If the machine has settled whenever IsBusy is asked, and merges leave a *)
(* site in every URL, no result that was answered 200 is missing when the  *)
(* templates are closed, whatever the index refuses.                       *)
THEOREM UploadIsComplete ==
    ASSUME Settle = "always"
    PROVE  SchedSpec => [](StoredURLNamesSite => UploadComplete)
<1>1. SchedInit => UploadInv
  <2> SUFFICES ASSUME SchedInit PROVE UploadInv
    OBVIOUS
  <2>1. loop = "scope" /\ ToSet(posted) = {}
    BY DEF SchedInit, ToSet
  <2> QED
    BY <2>1 DEF UploadInv
<1>2. SchedInv /\ UploadInv /\ [SchedNext]_schedVars => UploadInv'
  <2>1. ASSUME UploadInv, UNCHANGED schedVars PROVE UploadInv'
    <3>1. UNCHANGED <<artifacts, loop, cursor, artifactsInput, posted, uploaded, notIndexed>>
      BY <2>1 DEF schedVars, loopVars, inputVars, uploadVars, dispatchVars, storageVars
    <3> QED
      BY <2>1, <3>1 DEF UploadInv, StoredURLNamesSite, Kept, Passed
  <2>2. ASSUME SchedInv, UploadInv, SchedNext PROVE UploadInv'
    BY <2>2, AcceptedKept, UploadPasses DEF UploadInv
  <2> QED
    BY <2>1, <2>2
<1>3. SchedInv /\ UploadInv => (StoredURLNamesSite => UploadComplete)
  <2> SUFFICES ASSUME SchedInv, UploadInv, StoredURLNamesSite, loop \in {"close", "exit"},
                      NEW a \in ToSet(posted)
               PROVE  \E b \in ToSet(uploaded) \cup notIndexed : a = b \/ Duplicates(b, a)
    BY DEF UploadComplete
  <2>1. ToSet(artifactsInput) = {}
    BY DEF SchedInv, LoopInv, Finished, ToSet
  <2>2. PICK b \in ToSet(artifacts) : a = b \/ Duplicates(b, a)
    BY <2>1 DEF UploadInv, Kept
  <2>3. b \in ToSet(uploaded) \cup notIndexed
    BY DEF UploadInv, Passed, ToSet
  <2> QED
    BY <2>2, <2>3
<1> QED
  BY <1>1, <1>2, <1>3, SchedInvHolds, PTL DEF SchedSpec
=============================================================================
