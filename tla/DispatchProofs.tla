--------------------------- MODULE DispatchProofs ---------------------------
(***************************************************************************)
(* Proofs about Dispatch, for every set of templates, instances and        *)
(* artifacts, every rate limit configuration and every bound: the keys, and*)
(* the conversation of instances, scheduler and containers, that is who    *)
(* waits for whom, with which flag, and for which key.                     *)
(***************************************************************************)
EXTENDS Dispatch, SequenceTheorems, TLAPS

(* The key of a well-typed artifact is a key of the limiter.               *)
LEMMA LimitKeyType ==
    ASSUME NEW type \in RateLimitTypes, NEW a, WellTyped(a)
    PROVE  /\ LimitKey(type, a) \in LimiterKey
           /\ GetDomainFromArtifact(a) \in Name \cup {None}
           /\ GetIPFromArtifact(a) \in IP \cup {None}
<1>1. HostOf(a.url) \in Name \cup {None}
  BY DEF WellTyped, Artifact, HostOf, URL
<1>2. GetDomainFromArtifact(a) \in Name \cup {None}
  BY <1>1 DEF WellTyped, Artifact, GetDomainFromArtifact, Name
<1>3. GetIPFromArtifact(a) \in IP \cup {None}
  BY <1>1 DEF WellTyped, Artifact, GetIPFromArtifact, ValueIP
<1> QED
  BY <1>2, <1>3 DEF LimitKey, LimiterKey

(* A merge keeps a stored artifact well typed, and leaves it the key it had*)
(* or none: the common prefix of two URLs of one site names it or nothing. *)
LEMMA MergeKeepsKey ==
    ASSUME NEW a, NEW b, WellTyped(a), WellTyped(b), Duplicates(b, a)
    PROVE  /\ WellTyped(Merge(b, a))
           /\ Merge(b, a).type = b.type
           /\ \A type \in RateLimitTypes :
                 LimitKey(type, Merge(b, a)) \in {LimitKey(type, b), NoKey}
<1> DEFINE m == Merge(b, a)
<1>1. CASE a.type # "technology"
  BY <1>1 DEF Merge
<1>2. CASE a.type = "technology"
  <2>1. /\ b.type = "technology" /\ b.ip = None
        /\ HostOf(b.url) = HostOf(a.url) /\ HostOf(b.url) # None
    BY <1>2 DEF Duplicates, GetDomainFromArtifact, WellTyped
  <2>2. /\ a.url \in URL /\ b.url \in URL
        /\ a.version \in Version \cup {None} /\ b.version \in Version \cup {None}
    BY <2>1 DEF HostOf, WellTyped, Artifact
  <2>3. /\ unifyURL(b.url, a.url) \in URL \cup {None}
        /\ HostOf(unifyURL(b.url, a.url)) \in {HostOf(b.url), None}
    BY <2>1, <2>2 DEF unifyURL, HostOf, URL
  <2>4. /\ m.type = b.type /\ m.value = b.value /\ m.ip = b.ip
        /\ m.url \in {b.url, unifyURL(b.url, a.url)}
        /\ m.version \in {a.version, b.version}
        /\ m \in Artifact
    <3>1. b \in Artifact
      BY DEF WellTyped
    <3>2. \A u \in URL \cup {None}, v \in Version \cup {None} :
            [b EXCEPT !.url = u, !.version = v] \in Artifact
      BY <3>1 DEF Artifact
    <3>3. \E u \in {b.url, unifyURL(b.url, a.url)}, v \in {a.version, b.version} :
            m = [b EXCEPT !.url = u, !.version = v]
      BY <1>2, <3>1 DEF Merge, Artifact
    <3> QED
      BY <2>2, <2>3, <3>1, <3>2, <3>3 DEF Artifact
  <2>5. HostOf(m.url) \in {HostOf(b.url), None}
    BY <2>3, <2>4
  <2>6. WellTyped(m)
    BY <2>1, <2>4 DEF WellTyped
  <2>7. /\ GetDomainFromArtifact(b) = HostOf(b.url)
        /\ GetDomainFromArtifact(m) = HostOf(m.url)
    BY <2>1, <2>4 DEF GetDomainFromArtifact
  <2>8. /\ GetIPFromArtifact(b) = IF HostOf(b.url) \in IP THEN HostOf(b.url) ELSE None
        /\ GetIPFromArtifact(m) = IF HostOf(m.url) \in IP THEN HostOf(m.url) ELSE None
    BY <2>1, <2>4 DEF GetIPFromArtifact, ValueIP
  <2>9. ASSUME NEW type \in RateLimitTypes
        PROVE  LimitKey(type, m) \in {LimitKey(type, b), NoKey}
    BY <2>5, <2>7, <2>8, NameAssumption DEF LimitKey, Name
  <2> QED
    BY <2>4, <2>6, <2>9
<1> QED
  BY <1>1, <1>2

(* What Allocate and Release do to the allocation of another key.          *)
LEMMA AllocateRelease ==
    ASSUME NEW l \in Limiter, NEW k \in LimiterKey
    PROVE  /\ Allocate(l, k) \in Limiter
           /\ Release(l, k) \in Limiter
           /\ k # NoKey => Allocated(Allocate(l, k), k)
           /\ \A j \in LimiterKey : Allocated(l, j) => Allocated(Allocate(l, k), j)
           /\ \A j \in LimiterKey \ {k} : Allocated(l, j) => Allocated(Release(l, k), j)
           /\ ~Allocated(l, NoKey)
<1>1. CASE k = NoKey
  BY <1>1 DEF NoKey, Allocate, Release, Allocated
<1>2. ASSUME NEW d \in Name, k = DomainKey(d)
      PROVE  /\ Allocate(l, k) \in Limiter
             /\ Allocate(l, k).domains = l.domains \cup {d}
             /\ Allocate(l, k).ips = l.ips
             /\ Release(l, k) \in Limiter
             /\ Release(l, k).domains = l.domains \ {d}
             /\ Release(l, k).ips = l.ips
  BY <1>2 DEF DomainKey, Allocate, Release, SetDomainInUse, setVserverInUse,
              ReleaseDomain, Limiter
<1>3. ASSUME NEW ip \in IP, k = IPKey(ip)
      PROVE  /\ Allocate(l, k) \in Limiter
             /\ Allocate(l, k).domains = l.domains
             /\ Allocate(l, k).ips = l.ips \cup {ip}
             /\ Release(l, k) \in Limiter
             /\ Release(l, k).domains = l.domains
             /\ Release(l, k).ips = l.ips \ {ip}
  BY <1>3 DEF IPKey, Allocate, Release, SetIPInUse, ReleaseIP, Limiter
<1>4. CASE \E d \in Name : k = DomainKey(d)
  BY <1>2, <1>4 DEF DomainKey, IPKey, NoKey, LimiterKey, Allocated
<1>5. CASE \E ip \in IP : k = IPKey(ip)
  BY <1>3, <1>5 DEF DomainKey, IPKey, NoKey, LimiterKey, Allocated
<1> QED
  BY <1>1, <1>4, <1>5 DEF LimiterKey

(* A larger set has the sequences of a smaller one.                        *)
LEMMA SeqSubset ==
    ASSUME NEW S, NEW T, S \subseteq T
    PROVE  Seq(S) \subseteq Seq(T)
  OBVIOUS

(* Appending an element of the set.                                        *)
LEMMA AppendType ==
    ASSUME NEW S, NEW s \in Seq(S), NEW x \in S
    PROVE  Append(s, x) \in Seq(S)
  OBVIOUS

(* Taking the head of a non-empty sequence.                                *)
LEMMA HeadTailType ==
    ASSUME NEW S, NEW s \in Seq(S), s # <<>>
    PROVE  Head(s) \in S /\ Tail(s) \in Seq(S)
  OBVIOUS

(* Removing one position, as siphonIf does.                                *)
LEMMA RemoveAtType ==
    ASSUME NEW S, NEW s \in Seq(S), NEW p \in DOMAIN s
    PROVE  RemoveAt(s, p) \in Seq(S)
<1>1. p \in 1..Len(s)
  OBVIOUS
<1>2. /\ SubSeq(s, 1, p - 1) \in Seq(S)
      /\ SubSeq(s, p + 1, Len(s)) \in Seq(S)
  BY <1>1, SubSeqProperties
<1> QED
  BY <1>2, ConcatProperties DEF RemoveAt

-----------------------------------------------------------------------------
(* When the program starts nothing is stored, allocated or handed out.     *)
THEOREM InitIndInv == Init => IndInv
<1> SUFFICES ASSUME Init PROVE IndInv
  OBVIOUS
<1>1. NewLimiter \in Limiter
  BY DEF NewLimiter, Limiter
<1>2. NoKey \in LimiterKey
  BY DEF LimiterKey
<1>3. TypeOK
  BY <1>1, <1>2, StorageAssumption
  DEF Init, TemplateInit, InstanceInit, ServerInit,
      StorageInit, BusInit, TypeOK, Nil
<1>4. Occupied /\ ClaimsMatch /\ ClaimsExclusive /\ ClaimsAllocated
  BY DEF Init, TemplateInit, InstanceInit, ServerInit,
         Occupied, ClaimsMatch, ClaimsExclusive, ClaimsAllocated
<1>5. StoredWellTyped
  BY DEF Init, StorageInit, StoredWellTyped
<1> QED
  BY <1>3, <1>4, <1>5 DEF IndInv

(* The storage's part of AddArtifact: pointers stay valid, a stored        *)
(* artifact keeps its key or loses it, and what is stored is well typed.   *)
LEMMA AddArtifactStep ==
    ASSUME IndInv, NEW a, WellFormed(a), AddArtifact(a)
    PROVE  /\ artifacts' \in Seq(Artifact) /\ Len(artifacts') <= MaxArtifacts
           /\ DOMAIN artifacts \subseteq DOMAIN artifacts'
           /\ StoredWellTyped'
           /\ inflight' \in [Subscriber -> SUBSET DOMAIN artifacts']
           /\ chan' = chan
           /\ \A e \in DOMAIN artifacts, type \in RateLimitTypes :
                 LimitKey(type, artifacts'[e]) \in {LimitKey(type, artifacts[e]), NoKey}
<1>1. WellTyped(a) /\ a \in Artifact
  BY DispatchAssumption DEF WellFormed, WellTyped
<1>2. /\ artifacts \in Seq(Artifact) /\ Len(artifacts) <= MaxArtifacts
      /\ inflight \in [Subscriber -> SUBSET DOMAIN artifacts]
      /\ StoredWellTyped
  BY DEF IndInv, TypeOK
<1>3. CASE DropDuplicate(a)
  <2>1. PICK k \in DOMAIN artifacts :
          /\ Duplicates(artifacts[k], a)
          /\ artifacts' = [artifacts EXCEPT ![k] = Merge(artifacts[k], a)]
          /\ UNCHANGED busVars
    BY <1>3 DEF DropDuplicate
  <2>2. /\ WellTyped(Merge(artifacts[k], a))
        /\ Merge(artifacts[k], a) \in Artifact
        /\ \A type \in RateLimitTypes :
              LimitKey(type, Merge(artifacts[k], a)) \in {LimitKey(type, artifacts[k]), NoKey}
    BY <1>1, <1>2, <2>1, MergeKeepsKey DEF StoredWellTyped, WellTyped
  <2>3. /\ artifacts' \in Seq(Artifact) /\ Len(artifacts') = Len(artifacts)
        /\ DOMAIN artifacts' = DOMAIN artifacts
        /\ artifacts'[k] = Merge(artifacts[k], a)
        /\ \A e \in DOMAIN artifacts \ {k} : artifacts'[e] = artifacts[e]
    BY <1>2, <2>1, <2>2
  <2>4. StoredWellTyped'
    BY <1>2, <2>2, <2>3 DEF StoredWellTyped
  <2> QED
    BY <1>2, <2>1, <2>2, <2>3, <2>4 DEF busVars
<1>4. CASE StoreNew(a)
  <2>1. /\ artifacts' = Append(artifacts, a) /\ Len(artifacts) < MaxArtifacts
        /\ Publish(a.type, Len(artifacts) + 1)
    BY <1>4 DEF StoreNew
  <2>2. /\ artifacts' \in Seq(Artifact) /\ Len(artifacts') = Len(artifacts) + 1
        /\ DOMAIN artifacts' = 1..(Len(artifacts) + 1)
        /\ DOMAIN artifacts = 1..Len(artifacts)
        /\ artifacts'[Len(artifacts) + 1] = a
        /\ \A e \in DOMAIN artifacts : artifacts'[e] = artifacts[e]
    BY <1>1, <1>2, <2>1
  <2>3. StoredWellTyped'
    BY <1>1, <1>2, <2>2 DEF StoredWellTyped
  <2>4. inflight' \in [Subscriber -> SUBSET DOMAIN artifacts']
    BY <1>2, <2>1, <2>2 DEF Publish
  <2>5. Len(artifacts') <= MaxArtifacts
    BY <1>2, <2>1, <2>2, StorageAssumption
  <2> QED
    BY <2>1, <2>2, <2>3, <2>4, <2>5 DEF Publish
<1> QED
  BY <1>3, <1>4 DEF AddArtifact

(* The absent pointer is the index of no stored artifact.                  *)
LEMMA NilIsNoPointer == IndInv => Nil \notin DOMAIN artifacts
<1> SUFFICES ASSUME IndInv PROVE Nil \notin DOMAIN artifacts
  OBVIOUS
<1>1. artifacts \in Seq(Artifact)
  BY DEF IndInv, TypeOK
<1> QED
  BY <1>1 DEF Nil

(* A state change that leaves the storage, the limiter and the instances'  *)
(* artifacts and claims alone disturbs no conjunct but the types.          *)
LEMMA ClaimsUntouched ==
    ASSUME IndInv, TypeOK', UNCHANGED <<artifacts, limiter, job, claim>>, Occupied'
    PROVE  IndInv'
  BY DEF IndInv, StoredWellTyped, ClaimsMatch, ClaimsExclusive, ClaimsAllocated, QueueKey

(* The scheduler stores an artifact or merges it into a stored one.        *)
LEMMA StepPublishArtifact ==
    ASSUME IndInv, NEW a, WellFormed(a), PublishArtifact(a)
    PROVE  IndInv'
<1>1. /\ AddArtifact(a)
      /\ UNCHANGED <<queueVars, instanceVars, ctrlVars, slaveVars, fatal>>
  BY DEF PublishArtifact
<1>2. /\ artifacts' \in Seq(Artifact) /\ Len(artifacts') <= MaxArtifacts
      /\ DOMAIN artifacts \subseteq DOMAIN artifacts'
      /\ StoredWellTyped'
      /\ inflight' \in [Subscriber -> SUBSET DOMAIN artifacts']
      /\ chan' = chan
      /\ \A e \in DOMAIN artifacts, type \in RateLimitTypes :
            LimitKey(type, artifacts'[e]) \in {LimitKey(type, artifacts[e]), NoKey}
  BY <1>1, AddArtifactStep
<1>3. Seq(DOMAIN artifacts) \subseteq Seq(DOMAIN artifacts')
  BY <1>2, SeqSubset
<1>4. TypeOK'
  BY <1>1, <1>2, <1>3 DEF IndInv, TypeOK, queueVars, instanceVars, ctrlVars, slaveVars
<1>5. Occupied' /\ ClaimsExclusive' /\ ClaimsAllocated'
  BY <1>1 DEF IndInv, Occupied, ClaimsExclusive, ClaimsAllocated, Allocated, queueVars, instanceVars
<1>6. ClaimsMatch'
  <2> SUFFICES ASSUME NEW i \in Instance
               PROVE  /\ job[i] = Nil => claim[i] = NoKey
                      /\ job[i] # Nil =>
                            LimitKey(RateLimitType[TemplateOf[i]], artifacts'[job[i]])
                                \in {claim[i], NoKey}
    BY <1>1 DEF ClaimsMatch, QueueKey, instanceVars
  <2>1. /\ job[i] \in DOMAIN artifacts \cup {Nil}
        /\ RateLimitType[TemplateOf[i]] \in RateLimitTypes
    BY DispatchAssumption DEF IndInv, TypeOK
  <2>2. /\ job[i] = Nil => claim[i] = NoKey
        /\ job[i] # Nil => LimitKey(RateLimitType[TemplateOf[i]], artifacts[job[i]])
                               \in {claim[i], NoKey}
    BY DEF IndInv, ClaimsMatch, QueueKey
  <2> QED
    BY <1>2, <2>1, <2>2
<1> QED
  BY <1>2, <1>4, <1>5, <1>6 DEF IndInv

(* A publisher's send succeeds.                                            *)
LEMMA StepDeliverEvent ==
    ASSUME IndInv, NEW s \in Subscriber, NEW e \in Pointer, DeliverEvent(s, e)
    PROVE  IndInv'
<1>1. TypeOK'
  <2>1. e \in DOMAIN artifacts
    BY DEF IndInv, TypeOK, DeliverEvent, Deliver
  <2>2. chan[s] \in Seq(DOMAIN artifacts)
    BY DEF IndInv, TypeOK
  <2>3. Append(chan[s], e) \in Seq(DOMAIN artifacts)
    BY <2>1, <2>2, AppendType
  <2> QED
    BY <2>3 DEF IndInv, TypeOK, DeliverEvent, Deliver, queueVars, instanceVars, ctrlVars, slaveVars
<1> QED
  BY <1>1, ClaimsUntouched DEF DeliverEvent, queueVars, instanceVars, IndInv, Occupied

(* A template takes an event and queues the artifact or drops it.          *)
LEMMA StepReceive ==
    ASSUME IndInv, NEW t \in Template, Receive(t)
    PROVE  IndInv'
<1> DEFINE e == Head(chan[t])
<1>1. t \in Subscriber
  BY DispatchAssumption
<1>2. /\ chan[t] \in Seq(DOMAIN artifacts) /\ chan[t] # <<>>
      /\ e \in DOMAIN artifacts /\ Tail(chan[t]) \in Seq(DOMAIN artifacts)
  <2>1. chan[t] \in Seq(DOMAIN artifacts) /\ chan[t] # <<>>
    BY <1>1 DEF IndInv, TypeOK, Receive
  <2> QED
    BY <2>1, HeadTailType
<1>3. chan' \in [Subscriber -> Seq(DOMAIN artifacts)]
  BY <1>1, <1>2 DEF IndInv, TypeOK, Receive
<1>4. /\ buffer' \in [Template -> Seq(DOMAIN artifacts)]
      /\ dropped' \in [Template -> SUBSET DOMAIN artifacts]
  <2>1. Append(buffer[t], e) \in Seq(DOMAIN artifacts)
    <3>1. buffer[t] \in Seq(DOMAIN artifacts)
      BY DEF IndInv, TypeOK
    <3> QED
      BY <1>2, <3>1, AppendType
  <2>2. \/ buffer' = [buffer EXCEPT ![t] = Append(buffer[t], e)] /\ UNCHANGED dropped
        \/ dropped' = [dropped EXCEPT ![t] = dropped[t] \cup {e}] /\ UNCHANGED buffer
    BY DEF Receive
  <2> QED
    BY <1>2, <2>1, <2>2 DEF IndInv, TypeOK
<1>5. TypeOK'
  BY <1>3, <1>4 DEF IndInv, TypeOK, Receive, instanceVars, ctrlVars, slaveVars
<1> QED
  BY <1>5, ClaimsUntouched DEF Receive, instanceVars, IndInv, Occupied

(* What Pop takes from the queue.                                          *)
LEMMA PoppedArtifact ==
    ASSUME IndInv, NEW t \in Template, NEW p \in Poppable(t)
    PROVE  /\ p \in DOMAIN buffer[t]
           /\ buffer[t][p] \in DOMAIN artifacts
           /\ RemoveAt(buffer[t], p) \in Seq(DOMAIN artifacts)
           /\ QueueKey(t, buffer[t][p]) \in LimiterKey
           /\ ~Allocated(limiter, QueueKey(t, buffer[t][p]))
           /\ PopFatal(QueueKey(t, buffer[t][p])) \in {"vserver", fatal}
<1>1. /\ p \in DOMAIN buffer[t] /\ buffer[t] \in Seq(DOMAIN artifacts)
      /\ ~Allocated(limiter, QueueKey(t, buffer[t][p]))
  BY DEF Poppable, IndInv, TypeOK
<1>2. buffer[t][p] \in DOMAIN artifacts
  BY <1>1
<1>3. RemoveAt(buffer[t], p) \in Seq(DOMAIN artifacts)
  BY <1>1, RemoveAtType
<1>4. WellTyped(artifacts[buffer[t][p]]) /\ RateLimitType[t] \in RateLimitTypes
  BY <1>2, DispatchAssumption DEF IndInv, StoredWellTyped
<1>5. QueueKey(t, buffer[t][p]) \in LimiterKey
  BY <1>4, LimitKeyType DEF QueueKey
<1> QED
  BY <1>1, <1>2, <1>3, <1>5 DEF PopFatal

(* Pop allocates a key that was free, hence the claim of no instance, and  *)
(* an idle instance takes the artifact with it.                            *)
LEMMA StepHandOff ==
    ASSUME IndInv, NEW t \in Template, NEW i \in Instance, HandOff(t, i)
    PROVE  IndInv'
<1>1. PICK p \in Poppable(t) :
        /\ limiter' = Allocate(limiter, QueueKey(t, buffer[t][p]))
        /\ buffer' = [buffer EXCEPT ![t] = RemoveAt(buffer[t], p)]
        /\ job' = [job EXCEPT ![i] = buffer[t][p]]
        /\ claim' = [claim EXCEPT ![i] = QueueKey(t, buffer[t][p])]
        /\ fatal' = PopFatal(QueueKey(t, buffer[t][p]))
  BY DEF HandOff
<1> DEFINE e == buffer[t][p]
           k == QueueKey(t, e)
<1>2. /\ TemplateOf[i] = t /\ pc[i] = "idle" /\ job[i] = Nil /\ claim[i] = NoKey
      /\ pc' = [pc EXCEPT ![i] = "received"]
      /\ UNCHANGED <<storageVars, dropped, busy, done, ctrlVars, slaveVars>>
  BY DEF HandOff, IndInv, Occupied, ClaimsMatch
<1>3. /\ e \in DOMAIN artifacts /\ RemoveAt(buffer[t], p) \in Seq(DOMAIN artifacts)
      /\ k \in LimiterKey /\ ~Allocated(limiter, k)
      /\ PopFatal(k) \in {"vserver", fatal}
  BY PoppedArtifact
<1>4. /\ limiter \in Limiter /\ Allocate(limiter, k) \in Limiter
      /\ k # NoKey => Allocated(Allocate(limiter, k), k)
      /\ \A j \in LimiterKey : Allocated(limiter, j) => Allocated(Allocate(limiter, k), j)
  BY <1>3, AllocateRelease DEF IndInv, TypeOK
<1>5. /\ pc \in [Instance -> {"register", "idle", "received", "send", "wait", "unset", "exited"}]
      /\ job \in [Instance -> DOMAIN artifacts \cup {Nil}]
      /\ claim \in [Instance -> LimiterKey]
      /\ artifacts' = artifacts
  BY <1>2 DEF IndInv, TypeOK, storageVars
<1>6. TypeOK'
  <2>1. /\ buffer' \in [Template -> Seq(DOMAIN artifacts)] /\ limiter' \in Limiter
        /\ job' \in [Instance -> DOMAIN artifacts \cup {Nil}]
        /\ claim' \in [Instance -> LimiterKey]
    BY <1>1, <1>3, <1>4, <1>5 DEF IndInv, TypeOK
  <2>2. /\ fatal' \in {"none", "vserver", "busy already set", "busy already unset", "post failed"}
        /\ pc' \in [Instance -> {"register", "idle", "received", "send", "wait", "unset", "exited"}]
    BY <1>1, <1>2, <1>3, <1>5 DEF IndInv, TypeOK
  <2> QED
    BY <1>2, <2>1, <2>2 DEF IndInv, TypeOK, storageVars, ctrlVars, slaveVars
<1>7. Occupied'
  <2>1. e # Nil
    BY <1>3, NilIsNoPointer
  <2> QED
    BY <1>1, <1>2, <1>5, <2>1 DEF IndInv, Occupied
<1>8. ClaimsMatch'
  <2>1. \A u, x : QueueKey(u, x)' = QueueKey(u, x)
    BY <1>5 DEF QueueKey
  <2>2. \A j \in Instance \ {i} : job'[j] = job[j] /\ claim'[j] = claim[j]
    BY <1>1, <1>5
  <2>3. job'[i] = e /\ claim'[i] = k /\ e # Nil
    BY <1>1, <1>3, <1>5, NilIsNoPointer
  <2> QED
    BY <1>2, <2>1, <2>2, <2>3 DEF IndInv, ClaimsMatch
<1>9. ClaimsAllocated'
  BY <1>1, <1>4, <1>5 DEF IndInv, ClaimsAllocated
<1>10. ClaimsExclusive'
  <2>1. \A j \in Instance : claim[j] = k => k = NoKey
    BY <1>3 DEF IndInv, ClaimsAllocated
  <2> QED
    BY <1>1, <1>5, <2>1 DEF IndInv, ClaimsExclusive
<1>11. StoredWellTyped'
  BY <1>5 DEF IndInv, StoredWellTyped
<1> QED
  BY <1>6, <1>7, <1>8, <1>9, <1>10, <1>11 DEF IndInv

(* Pop and ReversePop together change no allocation: the key was free.     *)
LEMMA StepPopAndReturn ==
    ASSUME IndInv, NEW t \in Template, PopAndReturn(t)
    PROVE  IndInv'
<1>1. PICK p \in Poppable(t) :
        /\ limiter' = Release(Allocate(limiter, QueueKey(t, buffer[t][p])),
                              QueueKey(t, buffer[t][p]))
        /\ buffer' = [buffer EXCEPT ![t] = <<buffer[t][p]>> \o RemoveAt(buffer[t], p)]
        /\ fatal' = PopFatal(QueueKey(t, buffer[t][p]))
  BY DEF PopAndReturn
<1> DEFINE e == buffer[t][p]
           k == QueueKey(t, e)
           l == Allocate(limiter, k)
<1>2. UNCHANGED <<storageVars, dropped, instanceVars, ctrlVars, slaveVars>>
  BY DEF PopAndReturn
<1>3. /\ e \in DOMAIN artifacts /\ RemoveAt(buffer[t], p) \in Seq(DOMAIN artifacts)
      /\ k \in LimiterKey /\ ~Allocated(limiter, k)
      /\ PopFatal(k) \in {"vserver", fatal}
  BY PoppedArtifact
<1>4. /\ l \in Limiter
      /\ \A j \in LimiterKey : Allocated(limiter, j) => Allocated(l, j)
  BY <1>3, AllocateRelease DEF IndInv, TypeOK
<1>5. /\ Release(l, k) \in Limiter
      /\ \A j \in LimiterKey \ {k} : Allocated(l, j) => Allocated(Release(l, k), j)
  BY <1>3, <1>4, AllocateRelease
<1>6. \A j \in LimiterKey : Allocated(limiter, j) => Allocated(limiter', j)
  BY <1>1, <1>3, <1>4, <1>5
<1>7. TypeOK'
  <2>1. <<e>> \o RemoveAt(buffer[t], p) \in Seq(DOMAIN artifacts)
    <3>1. <<e>> \in Seq(DOMAIN artifacts)
      BY <1>3
    <3> QED
      BY <1>3, <3>1, ConcatProperties
  <2>2. /\ buffer' \in [Template -> Seq(DOMAIN artifacts)]
        /\ limiter' \in Limiter
        /\ fatal' \in {"none", "vserver", "busy already set", "busy already unset", "post failed"}
    BY <1>1, <1>3, <1>5, <2>1 DEF IndInv, TypeOK
  <2> QED
    BY <1>2, <2>2 DEF IndInv, TypeOK, storageVars, instanceVars, ctrlVars, slaveVars
<1>8. ClaimsAllocated'
  BY <1>2, <1>6 DEF IndInv, TypeOK, ClaimsAllocated, instanceVars
<1>9. StoredWellTyped' /\ Occupied' /\ ClaimsMatch' /\ ClaimsExclusive'
  BY <1>2 DEF IndInv, StoredWellTyped, Occupied, ClaimsMatch, ClaimsExclusive,
              QueueKey, storageVars, instanceVars
<1> QED
  BY <1>7, <1>8, <1>9 DEF IndInv

(* The scheduler forwards a control message.                               *)
LEMMA StepHandleScannerInstanceMsg ==
    ASSUME IndInv, HandleScannerInstanceMsg
    PROVE  IndInv'
<1> DEFINE m == Head(ctrlMsgs)
<1>1. /\ ctrlMsgs \in Seq(CtrlMsg) /\ ctrlMsgs # <<>>
      /\ ctrlIn \in [Instance -> Seq({"register", "finish_task"})]
      /\ ctrlIn' = [ctrlIn EXCEPT ![m.instance] = Append(@, m.msg)]
      /\ ctrlMsgs' = Tail(ctrlMsgs)
  BY DEF IndInv, TypeOK, HandleScannerInstanceMsg
<1>2. m \in CtrlMsg /\ Tail(ctrlMsgs) \in Seq(CtrlMsg)
  BY <1>1, HeadTailType
<1>3. m.instance \in Instance /\ m.msg \in {"register", "finish_task"}
  BY <1>2 DEF CtrlMsg
<1>4. Append(ctrlIn[m.instance], m.msg) \in Seq({"register", "finish_task"})
  BY <1>1, <1>3, AppendType
<1>5. /\ ctrlIn' \in [Instance -> Seq({"register", "finish_task"})]
      /\ ctrlMsgs' \in Seq(CtrlMsg)
  BY <1>1, <1>2, <1>3, <1>4
<1>6. UNCHANGED <<storageVars, queueVars, instanceVars, slaveVars, fatal>>
  BY DEF HandleScannerInstanceMsg
<1>7. TypeOK'
  BY <1>5, <1>6 DEF IndInv, TypeOK, storageVars, queueVars, instanceVars, slaveVars
<1> QED
  BY <1>6, <1>7, ClaimsUntouched DEF storageVars, queueVars, instanceVars, IndInv, Occupied

(* Consuming a control message.                                            *)
LEMMA ReadCtrl ==
    ASSUME IndInv, NEW i \in Instance, ctrlIn[i] # <<>>
    PROVE  [ctrlIn EXCEPT ![i] = Tail(@)] \in [Instance -> Seq({"register", "finish_task"})]
<1>1. ctrlIn \in [Instance -> Seq({"register", "finish_task"})]
  BY DEF IndInv, TypeOK
<1>2. Tail(ctrlIn[i]) \in Seq({"register", "finish_task"})
  BY <1>1, HeadTailType
<1> QED
  BY <1>1, <1>2

(* An instance has read its first message and becomes idle.                *)
LEMMA StepWaitForRegister ==
    ASSUME IndInv, NEW i \in Instance, WaitForRegister(i)
    PROVE  IndInv'
<1>1. TypeOK'
  BY ReadCtrl DEF IndInv, TypeOK, WaitForRegister, BusyAfterUnset,
                  storageVars, queueVars, slaveVars
<1>2. Occupied'
  BY DEF IndInv, TypeOK, Occupied, WaitForRegister
<1> QED
  BY <1>1, <1>2, ClaimsUntouched DEF WaitForRegister, storageVars, queueVars

(* An instance that has received an artifact sets its flag.                *)
LEMMA StepSetBusy ==
    ASSUME IndInv, NEW i \in Instance, SetBusy(i)
    PROVE  IndInv'
<1>1. TypeOK'
  BY DEF IndInv, TypeOK, SetBusy, storageVars, queueVars, ctrlVars, slaveVars
<1>2. Occupied'
  BY DEF IndInv, TypeOK, Occupied, SetBusy
<1> QED
  BY <1>1, <1>2, ClaimsUntouched DEF SetBusy, storageVars, queueVars

(* An instance that has freed its key resets its flag.                     *)
LEMMA StepUnsetBusy ==
    ASSUME IndInv, NEW i \in Instance, UnsetBusy(i)
    PROVE  IndInv'
<1>1. TypeOK'
  BY DEF IndInv, TypeOK, UnsetBusy, BusyAfterUnset, storageVars, queueVars, ctrlVars, slaveVars
<1>2. Occupied'
  BY DEF IndInv, TypeOK, Occupied, UnsetBusy
<1> QED
  BY <1>1, <1>2, ClaimsUntouched DEF UnsetBusy, storageVars, queueVars

(* An instance posts its artifact to the container.                        *)
LEMMA StepSendArtifact ==
    ASSUME IndInv, NEW i \in Instance, SendArtifact(i)
    PROVE  IndInv'
<1>1. job[i] \in DOMAIN artifacts
  BY DEF IndInv, TypeOK, Occupied, SendArtifact
<1>2. artifacts[job[i]] \in Artifact
  BY <1>1 DEF IndInv, StoredWellTyped, WellTyped
<1>3. tasks[i] \in Seq(Artifact)
  BY DEF IndInv, TypeOK
<1>4. Append(tasks[i], artifacts[job[i]]) \in Seq(Artifact)
  BY <1>2, <1>3, AppendType
<1>5. TypeOK'
  BY <1>4 DEF IndInv, TypeOK, SendArtifact, storageVars, queueVars, ctrlVars
<1>6. Occupied'
  BY DEF IndInv, TypeOK, Occupied, SendArtifact
<1> QED
  BY <1>5, <1>6, ClaimsUntouched DEF SendArtifact, storageVars, queueVars

(* The release touches the claim of this instance or nothing: a merge can  *)
(* have left the artifact without a key, never with another's.             *)
LEMMA StepWaitForFinishTask ==
    ASSUME IndInv, NEW i \in Instance, WaitForFinishTask(i)
    PROVE  IndInv'
<1> DEFINE t == TemplateOf[i]
           a == artifacts[job[i]]
           k == FreeKey(RateLimitType[t], a)
<1>1. /\ pc[i] = "wait" /\ ctrlIn[i] # <<>>
      /\ ctrlIn' = [ctrlIn EXCEPT ![i] = Tail(@)]
      /\ limiter' = Release(limiter, k)
      /\ done' = [done EXCEPT ![t] = @ \cup {job[i]}]
      /\ job' = [job EXCEPT ![i] = Nil]
      /\ claim' = [claim EXCEPT ![i] = NoKey]
      /\ pc' = [pc EXCEPT ![i] = "unset"]
      /\ UNCHANGED <<storageVars, buffer, dropped, busy, ctrlMsgs, slaveVars, fatal>>
  BY DEF WaitForFinishTask, FreeRateLimitAllocation
<1>2. /\ job[i] # Nil /\ job[i] \in DOMAIN artifacts
      /\ t \in Template /\ RateLimitType[t] \in RateLimitTypes
  BY <1>1, DispatchAssumption DEF IndInv, TypeOK, Occupied
<1>3. k \in {claim[i], NoKey}
  BY <1>2 DEF IndInv, ClaimsMatch, QueueKey, FreeKey
<1>4. k \in LimiterKey /\ NoKey \in LimiterKey
  <2>1. claim[i] \in LimiterKey
    BY DEF IndInv, TypeOK
  <2>2. NoKey \in LimiterKey
    BY DEF LimiterKey
  <2> QED
    BY <1>3, <2>1, <2>2
<1>5. /\ Release(limiter, k) \in Limiter
      /\ \A j \in LimiterKey \ {k} : Allocated(limiter, j) => Allocated(limiter', j)
  BY <1>1, <1>4, AllocateRelease DEF IndInv, TypeOK
<1>6. /\ artifacts' = artifacts
      /\ pc \in [Instance -> {"register", "idle", "received", "send", "wait", "unset", "exited"}]
      /\ job \in [Instance -> DOMAIN artifacts \cup {Nil}]
      /\ claim \in [Instance -> LimiterKey]
      /\ done \in [Template -> SUBSET DOMAIN artifacts]
  BY <1>1 DEF IndInv, TypeOK, storageVars
<1>7. TypeOK'
  <2>1. /\ pc' \in [Instance -> {"register", "idle", "received", "send", "wait", "unset", "exited"}]
        /\ job' \in [Instance -> DOMAIN artifacts \cup {Nil}]
        /\ claim' \in [Instance -> LimiterKey]
        /\ done' \in [Template -> SUBSET DOMAIN artifacts]
    BY <1>1, <1>2, <1>4, <1>6
  <2>2. /\ limiter' \in Limiter
        /\ ctrlIn' \in [Instance -> Seq({"register", "finish_task"})]
    BY <1>1, <1>5, ReadCtrl
  <2> QED
    BY <1>1, <2>1, <2>2 DEF IndInv, TypeOK, storageVars, slaveVars
<1>8. Occupied'
  BY <1>1, <1>6 DEF IndInv, Occupied
<1>9. ClaimsMatch'
  <2>1. \A u, x : QueueKey(u, x)' = QueueKey(u, x)
    BY <1>6 DEF QueueKey
  <2> QED
    BY <1>1, <1>6, <2>1 DEF IndInv, ClaimsMatch
<1>10. ClaimsExclusive'
  BY <1>1, <1>6 DEF IndInv, ClaimsExclusive
<1>11. ClaimsAllocated'
  <2> SUFFICES ASSUME NEW j \in Instance, claim'[j] # NoKey
               PROVE  Allocated(limiter', claim'[j])
    BY DEF ClaimsAllocated
  <2>1. j # i /\ claim'[j] = claim[j] /\ claim[j] \in LimiterKey
    BY <1>1, <1>6
  <2>2. claim[j] # k /\ Allocated(limiter, claim[j])
    BY <1>3, <2>1 DEF IndInv, ClaimsExclusive, ClaimsAllocated
  <2> QED
    BY <1>5, <2>1, <2>2
<1>12. StoredWellTyped'
  BY <1>6 DEF IndInv, StoredWellTyped
<1> QED
  BY <1>7, <1>8, <1>9, <1>10, <1>11, <1>12 DEF IndInv

(* A container registers, ends a task or dies.                             *)
LEMMA StepSlave ==
    ASSUME IndInv, NEW i \in Instance,
           SlaveRegister(i) \/ SlaveFinishTask(i) \/ SlaveCrash(i)
    PROVE  IndInv'
<1>1. /\ ctrlMsgs \in Seq(CtrlMsg) /\ tasks \in [Instance -> Seq(Artifact)]
  BY DEF IndInv, TypeOK
<1>2. CASE SlaveRegister(i)
  <2>1. ctrlMsgs' \in Seq(CtrlMsg)
    BY <1>1, <1>2, AppendType DEF SlaveRegister, sendCtrlMsg, receiveCtrlMsg, CtrlMsg
  <2>2. TypeOK'
    BY <1>2, <2>1 DEF IndInv, TypeOK, SlaveRegister, storageVars, queueVars, instanceVars
  <2> QED
    BY <1>2, <2>2, ClaimsUntouched
    DEF SlaveRegister, storageVars, queueVars, instanceVars, IndInv, Occupied
<1>3. CASE SlaveFinishTask(i)
  <2>1. ctrlMsgs' \in Seq(CtrlMsg)
    BY <1>1, <1>3, AppendType DEF SlaveFinishTask, sendCtrlMsg, receiveCtrlMsg, CtrlMsg
  <2>2. tasks' \in [Instance -> Seq(Artifact)]
    BY <1>1, <1>3, RemoveAtType DEF SlaveFinishTask
  <2>3. TypeOK'
    BY <1>3, <2>1, <2>2 DEF IndInv, TypeOK, SlaveFinishTask, storageVars, queueVars, instanceVars
  <2> QED
    BY <1>3, <2>3, ClaimsUntouched
    DEF SlaveFinishTask, storageVars, queueVars, instanceVars, IndInv, Occupied
<1>4. CASE SlaveCrash(i)
  <2>1. /\ tasks' \in [Instance -> Seq(Artifact)]
        /\ slave' \in [Instance -> {"booting", "up", "dead"}]
    <3>1. <<>> \in Seq(Artifact)
      OBVIOUS
    <3>2. slave \in [Instance -> {"booting", "up", "dead"}]
      BY DEF IndInv, TypeOK
    <3> QED
      BY <1>1, <1>4, <3>1, <3>2 DEF SlaveCrash
  <2>2. TypeOK'
    BY <1>4, <2>1 DEF IndInv, TypeOK, SlaveCrash, storageVars, queueVars, instanceVars, ctrlVars
  <2> QED
    BY <1>4, <2>2, ClaimsUntouched
    DEF SlaveCrash, storageVars, queueVars, instanceVars, IndInv, Occupied
<1> QED
  BY <1>2, <1>3, <1>4

-----------------------------------------------------------------------------
(* The invariant is inductive.                                             *)
THEOREM NextIndInv == IndInv /\ [Next]_dispatchVars => IndInv'
<1> SUFFICES ASSUME IndInv, [Next]_dispatchVars PROVE IndInv'
  OBVIOUS
<1>1. CASE UNCHANGED dispatchVars
  <2>1. TypeOK' /\ Occupied'
    BY <1>1 DEF IndInv, TypeOK, Occupied, dispatchVars, storageVars, queueVars,
                instanceVars, ctrlVars, slaveVars
  <2> QED
    BY <1>1, <2>1, ClaimsUntouched DEF dispatchVars, storageVars, queueVars, instanceVars
<1>2. ASSUME NEW a \in Content, PublishArtifact(a) PROVE IndInv'
  BY <1>2, StepPublishArtifact, DispatchAssumption
<1>3. ASSUME NEW s \in Subscriber, NEW e \in Pointer, DeliverEvent(s, e) PROVE IndInv'
  BY <1>3, StepDeliverEvent
<1>4. ASSUME NEW t \in Template, Receive(t) \/ PopAndReturn(t) PROVE IndInv'
  BY <1>4, StepReceive, StepPopAndReturn
<1>5. ASSUME NEW t \in Template, NEW i \in Instance, HandOff(t, i) PROVE IndInv'
  BY <1>5, StepHandOff
<1>6. CASE HandleScannerInstanceMsg
  BY <1>6, StepHandleScannerInstanceMsg
<1>7. ASSUME NEW i \in Instance, Run(i) PROVE IndInv'
  BY <1>7, StepWaitForRegister, StepSetBusy, StepSendArtifact,
     StepWaitForFinishTask, StepUnsetBusy DEF Run
<1>8. ASSUME NEW i \in Instance,
             SlaveRegister(i) \/ SlaveFinishTask(i) \/ SlaveCrash(i)
      PROVE  IndInv'
  BY <1>8, StepSlave
<1> QED
  BY <1>1, <1>2, <1>3, <1>4, <1>5, <1>6, <1>7, <1>8 DEF Next

(* IndInv holds in every reachable state of the dispatch.                  *)
THEOREM IndInvHolds == Spec => []IndInv
  BY InitIndInv, NextIndInv, PTL DEF Spec

(* Type correctness of the dispatch.                                       *)
THEOREM TypeCorrect == Spec => []TypeOK
<1>1. IndInv => TypeOK
  BY DEF IndInv
<1> QED
  BY <1>1, IndInvHolds, PTL

(* No two instances, of whatever templates, work under one rate-limit key, *)
(* however the scheduler, the instances, the publishers and the containers *)
(* interleave and whatever the storage merges meanwhile.                   *)
THEOREM Exclusion == Spec => []ClaimsExclusive
<1>1. IndInv => ClaimsExclusive
  BY DEF IndInv
<1> QED
  BY <1>1, IndInvHolds, PTL

(* The key of an instance is allocated until the instance itself frees it. *)
THEOREM ClaimsStayAllocated == Spec => []ClaimsAllocated
<1>1. IndInv => ClaimsAllocated
  BY DEF IndInv
<1> QED
  BY <1>1, IndInvHolds, PTL

(* No step moves a stored artifact from one rate-limit key to another.     *)
THEOREM KeysAreStable == Spec => KeyStable
<1>1. ASSUME IndInv, [Next]_dispatchVars, NEW type \in RateLimitTypes,
             NEW e \in DOMAIN artifacts
      PROVE  LimitKey(type, artifacts'[e]) \in {LimitKey(type, artifacts[e]), NoKey}
  <2>1. CASE \E a \in Content : PublishArtifact(a)
    BY <1>1, <2>1, AddArtifactStep, DispatchAssumption DEF PublishArtifact
  <2>2. CASE ~\E a \in Content : PublishArtifact(a)
    <3>1. UNCHANGED artifacts
      BY <1>1, <2>2 DEF Next, DeliverEvent, Receive, PopAndReturn, HandOff,
         HandleScannerInstanceMsg, Run, WaitForRegister, SetBusy, SendArtifact,
         WaitForFinishTask, UnsetBusy, SlaveRegister, SlaveFinishTask, SlaveCrash,
         storageVars, dispatchVars
    <3> QED
      BY <3>1
  <2> QED
    BY <2>1, <2>2
<1>2. IndInv /\ [Next]_dispatchVars =>
        [\A type \in RateLimitTypes, e \in DOMAIN artifacts :
            LimitKey(type, artifacts'[e]) \in {LimitKey(type, artifacts[e]), NoKey}]_dispatchVars
  BY <1>1
<1> QED
  BY <1>2, IndInvHolds, PTL DEF Spec, KeyStable

-----------------------------------------------------------------------------
(* The conversation.                                                       *)

(* What the protocol needs of the types.                                   *)
LEMMA ProtocolTypes ==
    ASSUME TypeOK
    PROVE  /\ pc \in [Instance -> {"register", "idle", "received", "send", "wait", "unset", "exited"}]
           /\ job \in [Instance -> DOMAIN artifacts \cup {Nil}]
           /\ busy \in [Instance -> BOOLEAN]
           /\ ctrlMsgs \in Seq(CtrlMsg)
           /\ ctrlIn \in [Instance -> Seq({"register", "finish_task"})]
           /\ slave \in [Instance -> {"booting", "up", "dead"}]
           /\ tasks \in [Instance -> Seq(Artifact)]
           /\ claim \in [Instance -> LimiterKey]
  BY DEF TypeOK

(* A step that leaves the conversation alone.                              *)
LEMMA ConversationUntouched ==
    ASSUME ProtocolInv, UNCHANGED <<ctrlVars, slaveVars, pc, busy, claim>>,
           fatal' \in {"none", "vserver"}
    PROVE  ProtocolInv'
<1>1. UNCHANGED <<ctrlMsgs, ctrlIn, slave, tasks, pc, busy, claim>>
  BY DEF ctrlVars, slaveVars
<1>2. \A i : Travels(i)' = Travels(i) /\ Told(i)' = Told(i)
  BY <1>1 DEF Travels, Told
<1>3. OneMessage' /\ Conversation' /\ CopiesMatch'
  BY <1>1, <1>2 DEF ProtocolInv, OneMessage, Conversation, Turn, CopiesMatch
<1> QED
  BY <1>3 DEF ProtocolInv

(* At the start every container is booting and nothing is said.            *)
THEOREM InitProtocolInv == Init => ProtocolInv
<1> SUFFICES ASSUME Init PROVE ProtocolInv
  OBVIOUS
<1>1. \A i \in Instance : ~Travels(i) /\ ~Told(i)
  BY DEF Init, InstanceInit, ServerInit, Travels, Told
<1> QED
  BY <1>1 DEF Init, InstanceInit, ServerInit, ProtocolInv, OneMessage, Conversation,
              Turn, CopiesMatch

(* The channel of the server: what travels after a message is sent ...     *)
LEMMA MessageSent ==
    ASSUME NEW s \in Seq(CtrlMsg), NEW m \in CtrlMsg
    PROVE  /\ DOMAIN Append(s, m) = DOMAIN s \cup {Len(s) + 1}
           /\ Append(s, m)[Len(s) + 1] = m
           /\ \A n \in DOMAIN s : Append(s, m)[n] = s[n] /\ n # Len(s) + 1
  OBVIOUS

(* ... and after the first one is taken.                                   *)
LEMMA MessageTaken ==
    ASSUME NEW s \in Seq(CtrlMsg), s # <<>>
    PROVE  /\ 1 \in DOMAIN s
           /\ \A n \in DOMAIN Tail(s) : n + 1 \in DOMAIN s /\ Tail(s)[n] = s[n + 1] /\ n # 0
           /\ \A n \in DOMAIN s : n # 1 => n - 1 \in DOMAIN Tail(s) /\ Tail(s)[n - 1] = s[n]
           /\ DOMAIN s \subseteq Nat /\ DOMAIN Tail(s) \subseteq Nat
  OBVIOUS

(* The container of i tells the server; nothing of i was on its way.       *)
LEMMA Tell ==
    ASSUME TypeOK, OneMessage, NEW i \in Instance, ~Told(i),
           NEW msg \in {"register", "finish_task"}, sendCtrlMsg(i, msg), UNCHANGED ctrlIn
    PROVE  /\ OneMessage'
           /\ Told(i)'
           /\ \A j \in Instance \ {i} : Told(j)' = Told(j)
<1> DEFINE m == [instance |-> i, msg |-> msg]
<1>1. /\ ctrlMsgs \in Seq(CtrlMsg) /\ m \in CtrlMsg /\ m.instance = i
      /\ ctrlMsgs' = Append(ctrlMsgs, m)
  BY ProtocolTypes DEF sendCtrlMsg, receiveCtrlMsg, CtrlMsg
<1>2. /\ DOMAIN ctrlMsgs' = DOMAIN ctrlMsgs \cup {Len(ctrlMsgs) + 1}
      /\ ctrlMsgs'[Len(ctrlMsgs) + 1] = m
      /\ \A n \in DOMAIN ctrlMsgs : ctrlMsgs'[n] = ctrlMsgs[n] /\ n # Len(ctrlMsgs) + 1
  BY <1>1, MessageSent
<1> HIDE DEF m
<1>3. ~Travels(i) /\ ctrlIn[i] = <<>>
  BY DEF Told
<1>4. Travels(i)' /\ \A j \in Instance \ {i} : Travels(j)' = Travels(j)
  BY <1>1, <1>2 DEF Travels
<1>5. OneMessage'
  BY <1>1, <1>2, <1>3, <1>4 DEF OneMessage, Travels
<1> QED
  BY <1>3, <1>4, <1>5 DEF Told

(* An instance moves on, and its flag with it; nobody says anything.       *)
LEMMA MovesOn ==
    ASSUME TypeOK, ProtocolInv, UNCHANGED <<ctrlVars, slaveVars>>, NEW i \in Instance,
           NEW p \in {"idle", "received", "send", "unset"}, NEW b \in BOOLEAN,
           pc[i] \notin {"register", "wait", "exited"},
           pc' = [pc EXCEPT ![i] = p], busy' = [busy EXCEPT ![i] = b],
           b <=> p \in {"send", "unset"}
    PROVE  OneMessage' /\ Conversation'
<1>1. UNCHANGED <<ctrlMsgs, ctrlIn, slave, tasks>>
  BY DEF ctrlVars, slaveVars
<1>2. \A j : Travels(j)' = Travels(j) /\ Told(j)' = Told(j)
  BY <1>1 DEF Travels, Told
<1>3. OneMessage'
  BY <1>1, <1>2 DEF ProtocolInv, OneMessage
<1>4. /\ pc'[i] = p /\ busy'[i] = b
      /\ \A j \in Instance \ {i} : pc'[j] = pc[j] /\ busy'[j] = busy[j]
  BY ProtocolTypes
<1>5. \A j \in Instance : Turn(j)'
  BY <1>1, <1>2, <1>4 DEF ProtocolInv, Conversation, Turn
<1> QED
  BY <1>3, <1>4, <1>5 DEF ProtocolInv, Conversation

(* An instance reads the message it was waiting for.                       *)
LEMMA Heard ==
    ASSUME TypeOK, ProtocolInv, UNCHANGED <<ctrlMsgs, slaveVars>>, NEW i \in Instance,
           NEW p \in {"idle", "unset"}, NEW b \in BOOLEAN, ctrlIn[i] # <<>>,
           ctrlIn' = [ctrlIn EXCEPT ![i] = Tail(@)],
           pc' = [pc EXCEPT ![i] = p], busy' = [busy EXCEPT ![i] = b],
           b <=> p = "unset"
    PROVE  OneMessage' /\ Conversation' /\ tasks[i] = <<>>
<1>1. UNCHANGED <<ctrlMsgs, slave, tasks>>
  BY DEF slaveVars
<1>2. /\ \A j : Travels(j)' = Travels(j)
      /\ ctrlIn \in [Instance -> Seq({"register", "finish_task"})]
  BY <1>1, ProtocolTypes DEF Travels
<1>3. Len(ctrlIn[i]) = 1 /\ ~Travels(i) /\ Told(i)
  BY DEF ProtocolInv, OneMessage, Told
<1>4. ctrlIn'[i] = <<>> /\ \A j \in Instance \ {i} : ctrlIn'[j] = ctrlIn[j]
  BY <1>2, <1>3
<1>5. ~Told(i)' /\ \A j \in Instance \ {i} : Told(j)' = Told(j)
  BY <1>2, <1>3, <1>4 DEF Told
<1>6. OneMessage'
  BY <1>1, <1>2, <1>4 DEF ProtocolInv, OneMessage
<1>7. /\ pc'[i] = p /\ busy'[i] = b
      /\ \A j \in Instance \ {i} : pc'[j] = pc[j] /\ busy'[j] = busy[j]
  BY ProtocolTypes
<1>8. slave[i] = "up" /\ tasks[i] = <<>>
  BY <1>3 DEF ProtocolInv, Conversation, Turn
<1>9. Turn(i)'
  BY <1>1, <1>5, <1>7, <1>8 DEF Turn
<1>10. ASSUME NEW j \in Instance \ {i} PROVE Turn(j)'
  BY <1>1, <1>5, <1>7 DEF ProtocolInv, Conversation, Turn
<1> QED
  BY <1>6, <1>7, <1>8, <1>9, <1>10 DEF ProtocolInv, Conversation

(* An idle instance is handed an artifact: its container has none.         *)
LEMMA ProtocolHandOff ==
    ASSUME IndInv, ProtocolInv, fatal = "none",
           NEW t \in Template, NEW i \in Instance, HandOff(t, i)
    PROVE  ProtocolInv'
<1>1. PICK p \in Poppable(t) :
        /\ claim' = [claim EXCEPT ![i] = QueueKey(t, buffer[t][p])]
        /\ fatal' = PopFatal(QueueKey(t, buffer[t][p]))
  BY DEF HandOff
<1>2. /\ pc[i] = "idle" /\ pc' = [pc EXCEPT ![i] = "received"]
      /\ UNCHANGED <<busy, ctrlVars, slaveVars>>
  BY DEF HandOff
<1>3. TypeOK
  BY DEF IndInv
<1>4. busy[i] = FALSE /\ busy' = [busy EXCEPT ![i] = FALSE] /\ tasks[i] = <<>>
  BY <1>2, <1>3, ProtocolTypes DEF ProtocolInv, Conversation, Turn
<1>5. OneMessage' /\ Conversation'
  BY <1>2, <1>3, <1>4, MovesOn
<1>6. \A j \in Instance \ {i} : claim'[j] = claim[j]
  BY <1>1, <1>3, ProtocolTypes
<1>7. CopiesMatch'
  BY <1>2, <1>4, <1>6 DEF ProtocolInv, CopiesMatch, slaveVars
<1>8. fatal' \in {"none", "vserver"}
  BY <1>1 DEF PopFatal
<1> QED
  BY <1>5, <1>7, <1>8 DEF ProtocolInv

(* The scheduler carries a message from the server to the instance.        *)
LEMMA ProtocolHandle ==
    ASSUME TypeOK, ProtocolInv, HandleScannerInstanceMsg
    PROVE  ProtocolInv'
<1>1. /\ ctrlMsgs \in Seq(CtrlMsg) /\ ctrlIn \in [Instance -> Seq({"register", "finish_task"})]
  BY ProtocolTypes
<1>2. Head(ctrlMsgs) \in CtrlMsg /\ Head(ctrlMsgs) = ctrlMsgs[1]
  BY <1>1 DEF HandleScannerInstanceMsg
<1>3. PICK i \in Instance : i = Head(ctrlMsgs).instance
  BY <1>2 DEF CtrlMsg
<1>4. /\ ctrlMsgs # <<>> /\ ctrlMsgs' = Tail(ctrlMsgs)
      /\ ctrlIn' = [ctrlIn EXCEPT ![i] = Append(@, Head(ctrlMsgs).msg)]
      /\ UNCHANGED <<slave, tasks, pc, busy, claim, fatal>>
  BY <1>3 DEF HandleScannerInstanceMsg, slaveVars, instanceVars
<1>5. /\ 1 \in DOMAIN ctrlMsgs
      /\ \A n \in DOMAIN ctrlMsgs' : n + 1 \in DOMAIN ctrlMsgs /\ ctrlMsgs'[n] = ctrlMsgs[n + 1] /\ n # 0
      /\ \A n \in DOMAIN ctrlMsgs : n # 1 => n - 1 \in DOMAIN ctrlMsgs' /\ ctrlMsgs'[n - 1] = ctrlMsgs[n]
      /\ DOMAIN ctrlMsgs \subseteq Nat /\ DOMAIN ctrlMsgs' \subseteq Nat
  BY <1>4, <1>1, MessageTaken
<1>6. ctrlMsgs[1].instance = i
  BY <1>2, <1>3
<1>7. Travels(i) /\ ctrlIn[i] = <<>>
  BY <1>3, <1>5, <1>6 DEF ProtocolInv, OneMessage, Travels
<1>8. Len(ctrlIn'[i]) = 1 /\ ctrlIn'[i] # <<>> /\ \A j \in Instance \ {i} : ctrlIn'[j] = ctrlIn[j]
  BY <1>4, <1>1, <1>3, <1>7
<1>9. ~Travels(i)'
  <2> SUFFICES ASSUME NEW n \in DOMAIN ctrlMsgs', ctrlMsgs'[n].instance = i PROVE FALSE
    BY DEF Travels
  <2>1. n + 1 \in DOMAIN ctrlMsgs /\ ctrlMsgs[n + 1].instance = i /\ n # 0 /\ n \in Nat
    BY <1>5
  <2> QED
    BY <1>5, <1>6, <2>1 DEF ProtocolInv, OneMessage
<1>10. \A j \in Instance \ {i} : Travels(j)' <=> Travels(j)
  BY <1>5, <1>6 DEF Travels
<1>11. \A j \in Instance : Told(j)' <=> Told(j)
  BY <1>7, <1>8, <1>9, <1>10 DEF Told
<1>12. OneMessage'
  <2>1. \A m, n \in DOMAIN ctrlMsgs' : ctrlMsgs'[m].instance = ctrlMsgs'[n].instance => m = n
    BY <1>5 DEF ProtocolInv, OneMessage
  <2>2. \A j \in Instance : ctrlIn'[j] # <<>> => Len(ctrlIn'[j]) = 1 /\ ~Travels(j)'
    BY <1>8, <1>9, <1>10 DEF ProtocolInv, OneMessage
  <2> QED
    BY <2>1, <2>2 DEF OneMessage
<1>13. Conversation' /\ CopiesMatch'
  BY <1>4, <1>11 DEF ProtocolInv, Conversation, Turn, CopiesMatch
<1> QED
  BY <1>4, <1>12, <1>13 DEF ProtocolInv

(* The steps of an instance.  The assertions of SetBusy and UnsetBusy hold,*)
(* and the post meets a container that lives and has no other task.        *)
LEMMA ProtocolRun ==
    ASSUME IndInv, ProtocolInv, fatal = "none", NEW i \in Instance, Run(i)
    PROVE  ProtocolInv'
<1>1. TypeOK
  BY DEF IndInv
<1>2. /\ busy \in [Instance -> BOOLEAN] /\ tasks \in [Instance -> Seq(Artifact)]
      /\ claim \in [Instance -> LimiterKey]
      /\ pc \in [Instance -> {"register", "idle", "received", "send", "wait", "unset", "exited"}]
  BY <1>1, ProtocolTypes
<1>3. Turn(i) /\ (busy[i] <=> pc[i] \in {"register", "send", "wait", "unset"})
  BY DEF ProtocolInv, Conversation
<1>4. CASE WaitForRegister(i)
  <2>1. fatal' = "none" /\ UNCHANGED <<claim, tasks, slaveVars>>
    BY <1>3, <1>4 DEF WaitForRegister, slaveVars
  <2>2. OneMessage' /\ Conversation'
    BY <1>1, <1>4, Heard DEF WaitForRegister, BusyAfterUnset
  <2> QED
    BY <2>1, <2>2 DEF ProtocolInv, CopiesMatch
<1>5. CASE SetBusy(i)
  <2>1. fatal' = "none" /\ UNCHANGED <<claim, tasks, ctrlVars, slaveVars>>
    BY <1>3, <1>5 DEF SetBusy, slaveVars
  <2>2. OneMessage' /\ Conversation'
    BY <1>1, <1>5, <2>1, MovesOn DEF SetBusy
  <2> QED
    BY <2>1, <2>2 DEF ProtocolInv, CopiesMatch
<1>6. CASE SendArtifact(i)
  <2>1. /\ slave[i] = "up" /\ tasks[i] = <<>> /\ ~Told(i)
        /\ pc[i] = "send" /\ pc' = [pc EXCEPT ![i] = "wait"]
        /\ tasks' = [tasks EXCEPT ![i] = Append(@, artifacts[job[i]])]
        /\ fatal' = "none" /\ UNCHANGED <<ctrlMsgs, ctrlIn, slave, busy, claim>>
    BY <1>3, <1>6 DEF SendArtifact, Turn, ctrlVars
  <2>2. /\ tasks'[i] = <<artifacts[job[i]]>>
        /\ \A j \in Instance \ {i} : tasks'[j] = tasks[j]
    BY <1>2, <2>1
  <2>3. \A j : Travels(j)' = Travels(j) /\ Told(j)' = Told(j)
    BY <2>1 DEF Travels, Told
  <2>4. OneMessage'
    BY <2>1, <2>3 DEF ProtocolInv, OneMessage
  <2>5. Conversation'
    BY <1>2, <2>1, <2>2, <2>3 DEF ProtocolInv, Conversation, Turn
  <2>6. QueueKey(TemplateOf[i], job[i]) \in {claim[i], NoKey}
    BY <2>1 DEF IndInv, Occupied, ClaimsMatch
  <2>7. \A n \in DOMAIN tasks'[i] : tasks'[i][n] = artifacts[job[i]]
    BY <2>2
  <2>8. CopiesMatch'
    BY <2>1, <2>2, <2>6, <2>7 DEF ProtocolInv, CopiesMatch, QueueKey
  <2> QED
    BY <2>1, <2>4, <2>5, <2>8 DEF ProtocolInv
<1>7. CASE WaitForFinishTask(i)
  <2>1. /\ pc[i] = "wait" /\ claim' = [claim EXCEPT ![i] = NoKey]
        /\ UNCHANGED <<fatal, tasks, slaveVars, ctrlMsgs, busy>>
    BY <1>7 DEF WaitForFinishTask, slaveVars
  <2>2. busy[i] = TRUE /\ busy' = [busy EXCEPT ![i] = TRUE]
    BY <1>2, <1>3, <2>1
  <2>3. OneMessage' /\ Conversation' /\ tasks[i] = <<>>
    BY <1>1, <1>7, <2>1, <2>2, Heard DEF WaitForFinishTask
  <2>4. \A j \in Instance \ {i} : claim'[j] = claim[j]
    BY <1>2, <2>1
  <2>5. CopiesMatch'
    BY <2>1, <2>3, <2>4 DEF ProtocolInv, CopiesMatch
  <2> QED
    BY <2>1, <2>3, <2>5 DEF ProtocolInv
<1>8. CASE UnsetBusy(i)
  <2>1. fatal' = "none" /\ UNCHANGED <<claim, tasks, ctrlVars, slaveVars>>
    BY <1>3, <1>8 DEF UnsetBusy, slaveVars
  <2>2. OneMessage' /\ Conversation'
    BY <1>1, <1>8, <2>1, MovesOn DEF UnsetBusy, BusyAfterUnset
  <2> QED
    BY <2>1, <2>2 DEF ProtocolInv, CopiesMatch
<1> QED
  BY <1>4, <1>5, <1>6, <1>7, <1>8 DEF Run

(* The steps of a container.  It speaks when nothing of it is on its way.  *)
LEMMA ProtocolSlave ==
    ASSUME TypeOK, ProtocolInv, NEW i \in Instance,
           SlaveRegister(i) \/ SlaveFinishTask(i) \/ SlaveCrash(i)
    PROVE  ProtocolInv'
<1>1. /\ tasks \in [Instance -> Seq(Artifact)] /\ slave \in [Instance -> {"booting", "up", "dead"}]
      /\ Turn(i) /\ UNCHANGED <<pc, busy, claim, ctrlIn, fatal>>
  BY ProtocolTypes DEF ProtocolInv, Conversation, SlaveRegister, SlaveFinishTask, SlaveCrash,
                       instanceVars, ctrlVars
<1>2. CASE SlaveRegister(i)
  <2>1. /\ pc[i] = "register" /\ tasks[i] = <<>> /\ ~Told(i)
        /\ slave' = [slave EXCEPT ![i] = "up"] /\ UNCHANGED tasks
        /\ sendCtrlMsg(i, "register")
    BY <1>1, <1>2 DEF SlaveRegister, Turn
  <2>2. OneMessage' /\ Told(i)' /\ \A j \in Instance \ {i} : Told(j)' = Told(j)
    BY <1>1, <2>1, Tell DEF ProtocolInv
  <2>3. Conversation'
    BY <1>1, <2>1, <2>2 DEF ProtocolInv, Conversation, Turn
  <2> QED
    BY <1>1, <2>1, <2>2, <2>3 DEF ProtocolInv, CopiesMatch
<1>3. CASE SlaveFinishTask(i)
  <2>1. PICK k \in DOMAIN tasks[i] : tasks' = [tasks EXCEPT ![i] = RemoveAt(@, k)]
    BY <1>3 DEF SlaveFinishTask
  <2>2. tasks[i] # <<>>
    BY <1>1, <2>1
  <2>3. /\ pc[i] = "wait" /\ slave[i] = "up" /\ Len(tasks[i]) = 1 /\ ~Told(i)
        /\ UNCHANGED slave /\ sendCtrlMsg(i, "finish_task")
    BY <1>1, <1>3, <2>2 DEF SlaveFinishTask, Turn
  <2>4. k = 1 /\ RemoveAt(tasks[i], k) = <<>>
    BY <1>1, <2>1, <2>3 DEF RemoveAt
  <2>5. tasks'[i] = <<>> /\ \A j \in Instance \ {i} : tasks'[j] = tasks[j]
    BY <1>1, <2>1, <2>4
  <2>6. OneMessage' /\ Told(i)' /\ \A j \in Instance \ {i} : Told(j)' = Told(j)
    BY <1>1, <2>3, Tell DEF ProtocolInv
  <2>7. Conversation'
    BY <1>1, <2>3, <2>5, <2>6 DEF ProtocolInv, Conversation, Turn
  <2> QED
    BY <1>1, <2>5, <2>6, <2>7 DEF ProtocolInv, CopiesMatch
<1>4. CASE SlaveCrash(i)
  <2>1. /\ pc[i] = "wait" /\ slave[i] = "up" /\ ~Told(i)
        /\ slave' = [slave EXCEPT ![i] = "dead"] /\ tasks' = [tasks EXCEPT ![i] = <<>>]
        /\ UNCHANGED ctrlMsgs
    BY <1>1, <1>4 DEF SlaveCrash, Turn, ctrlVars
  <2>2. tasks'[i] = <<>> /\ \A j \in Instance \ {i} : tasks'[j] = tasks[j]
    BY <1>1, <2>1
  <2>3. \A j : Travels(j)' = Travels(j) /\ Told(j)' = Told(j)
    BY <1>1, <2>1 DEF Travels, Told
  <2>4. OneMessage' /\ Conversation' /\ CopiesMatch'
    BY <1>1, <2>1, <2>2, <2>3 DEF ProtocolInv, OneMessage, Conversation, Turn, CopiesMatch
  <2> QED
    BY <1>1, <2>4 DEF ProtocolInv
<1> QED
  BY <1>2, <1>3, <1>4

-----------------------------------------------------------------------------
(* The conversation is kept by every step.                                 *)
THEOREM NextProtocolInv == IndInv /\ ProtocolInv /\ [Next]_dispatchVars => ProtocolInv'
<1> SUFFICES ASSUME IndInv, ProtocolInv, [Next]_dispatchVars PROVE ProtocolInv'
  OBVIOUS
<1>1. TypeOK
  BY DEF IndInv
<1>2. CASE UNCHANGED dispatchVars
  BY <1>2, ConversationUntouched
  DEF ProtocolInv, dispatchVars, instanceVars
<1>3. CASE fatal = "none" /\ Next
  <2>1. ASSUME NEW a \in Content, PublishArtifact(a) PROVE ProtocolInv'
    BY <2>1, ConversationUntouched DEF ProtocolInv, PublishArtifact, instanceVars
  <2>2. ASSUME NEW s \in Subscriber, NEW e \in Pointer, DeliverEvent(s, e) PROVE ProtocolInv'
    BY <2>2, ConversationUntouched DEF ProtocolInv, DeliverEvent, instanceVars
  <2>3. ASSUME NEW t \in Template, Receive(t) PROVE ProtocolInv'
    BY <2>3, ConversationUntouched DEF ProtocolInv, Receive, instanceVars
  <2>4. ASSUME NEW t \in Template, PopAndReturn(t) PROVE ProtocolInv'
    BY <1>3, <2>4, ConversationUntouched DEF PopAndReturn, PopFatal, instanceVars
  <2>5. ASSUME NEW t \in Template, NEW i \in Instance, HandOff(t, i) PROVE ProtocolInv'
    BY <1>3, <2>5, ProtocolHandOff
  <2>6. CASE HandleScannerInstanceMsg
    BY <1>1, <2>6, ProtocolHandle
  <2>7. ASSUME NEW i \in Instance, Run(i) PROVE ProtocolInv'
    BY <1>3, <2>7, ProtocolRun
  <2>8. ASSUME NEW i \in Instance,
               SlaveRegister(i) \/ SlaveFinishTask(i) \/ SlaveCrash(i)
        PROVE  ProtocolInv'
    BY <1>1, <2>8, ProtocolSlave
  <2> QED
    BY <1>3, <2>1, <2>2, <2>3, <2>4, <2>5, <2>6, <2>7, <2>8 DEF Next
<1> QED
  BY <1>2, <1>3 DEF Next

(* The conversation is orderly in every reachable state.                   *)
THEOREM ProtocolInvHolds == Spec => []ProtocolInv
  BY IndInvHolds, InitProtocolInv, NextProtocolInv, PTL DEF Spec

(* A container has at most one task: the mutex around the work function    *)
(* never has to order two.                                                 *)
THEOREM TasksOneByOne == Spec => []OneTaskPerContainer
<1>1. TypeOK /\ ProtocolInv => OneTaskPerContainer
  <2> SUFFICES ASSUME TypeOK, ProtocolInv, NEW i \in Instance PROVE Len(tasks[i]) <= 1
    BY DEF OneTaskPerContainer
  <2>1. Len(tasks[i]) = 1 \/ tasks[i] = <<>>
    BY DEF ProtocolInv, Conversation, Turn
  <2>2. Len(<<>>) <= 1 /\ 1 <= 1
    OBVIOUS
  <2> QED
    BY <2>1, <2>2
<1> QED
  BY <1>1, TypeCorrect, ProtocolInvHolds, PTL

(* While a container scans, the key of the copy it scans is allocated, and *)
(* it is the claim of its instance.                                        *)
THEOREM ScansHoldKeys == Spec => []ScanHoldsKey
<1>1. IndInv /\ ProtocolInv => ScanHoldsKey
  BY DEF IndInv, ClaimsAllocated, ProtocolInv, CopiesMatch, ScanHoldsKey
<1> QED
  BY <1>1, IndInvHolds, ProtocolInvHolds, PTL

(* The only end of the process is the panic about virtual servers, which   *)
(* needs a mapping that names a server after a domain: neither an assertion*)
(* about the flag nor a post to a container that is not there ends it.     *)
THEOREM NothingFatal ==
    ASSUME Vserver \cap Name = {}
    PROVE  Spec => []NoFatal
<1>1. ASSUME NEW l \in Limiter, NEW d \in Name
      PROVE  ~VserverPanics(l, d)
  <2>1. \A v \in Vserver : l.vserver[v] \in Name \cup {None}
    BY DEF Limiter
  <2>2. VserverOf[d] \in Vserver \cup {None} /\ None \notin Vserver
    BY VserverAssumption
  <2> QED
    BY <2>1, <2>2 DEF VserverPanics
<1>2. ASSUME TypeOK, NEW k \in LimiterKey PROVE PopFatal(k) = fatal
  <2>1. k.map = "domains" => k.name \in Name
    BY <1>2 DEF LimiterKey, NoKey, DomainKey, IPKey
  <2>2. limiter \in Limiter
    BY <1>2 DEF TypeOK
  <2> QED
    BY <1>1, <2>1, <2>2 DEF PopFatal
<1>3. ASSUME IndInv, ProtocolInv, NoFatal, [Next]_dispatchVars PROVE NoFatal'
  <2>1. TypeOK
    BY <1>3 DEF IndInv
  <2>2. \A i \in Instance : Turn(i) /\ (busy[i] <=> pc[i] \in {"register", "send", "wait", "unset"})
    BY <1>3 DEF ProtocolInv, Conversation
  <2>3. ASSUME NEW t \in Template, NEW p \in Poppable(t)
        PROVE  PopFatal(QueueKey(t, buffer[t][p])) = fatal
    BY <1>2, <1>3, <2>1, <2>3, PoppedArtifact
  <2>4. ASSUME NEW t \in Template, NEW i \in Instance, HandOff(t, i)
        PROVE  NoFatal'
    BY <1>3, <2>3, <2>4 DEF HandOff, NoFatal
  <2>5. ASSUME NEW t \in Template, PopAndReturn(t) PROVE NoFatal'
    BY <1>3, <2>3, <2>5 DEF PopAndReturn, NoFatal
  <2>6. ASSUME NEW i \in Instance, Run(i) PROVE NoFatal'
    BY <1>3, <2>2, <2>6 DEF Run, WaitForRegister, SetBusy, SendArtifact, WaitForFinishTask,
                           UnsetBusy, Turn, NoFatal
  <2> QED
    BY <1>3, <2>4, <2>5, <2>6
    DEF Next, PublishArtifact, DeliverEvent, Receive, HandleScannerInstanceMsg,
        SlaveRegister, SlaveFinishTask, SlaveCrash, dispatchVars, NoFatal
<1>4. Init => NoFatal
  BY DEF Init, ServerInit, NoFatal
<1> QED
  BY <1>3, <1>4, IndInvHolds, ProtocolInvHolds, PTL DEF Spec
=============================================================================
