---------------------------- MODULE PlacesProofs ----------------------------
(***************************************************************************)
(* Proofs about where the artifacts of Dispatch are: stored once, and for  *)
(* each template in one place.  The dispatch implements the pool of        *)
(* WorkPool; its inductive invariant as a whole; and what it needs so that *)
(* no rate-limit key is leaked.                                            *)
(***************************************************************************)
EXTENDS DispatchProofs, FiniteSetTheorems

-----------------------------------------------------------------------------
(* The storage.                                                            *)

(* What a merge leaves of the stored artifact is a duplicate of nothing    *)
(* that the stored artifact was no duplicate of.                           *)
LEMMA MergeAddsNoDuplicate ==
    ASSUME NEW a, NEW b, WellTyped(a), WellTyped(b), Duplicates(b, a)
    PROVE  \A x : /\ Duplicates(x, Merge(b, a)) => Duplicates(x, b)
                  /\ Duplicates(Merge(b, a), x) => Duplicates(b, x)
<1> DEFINE m == Merge(b, a)
<1>1. CASE a.type # "technology"
  BY <1>1 DEF Merge
<1>2. CASE a.type = "technology"
  <2>1. /\ b.type = "technology" /\ HostOf(b.url) = HostOf(a.url) /\ HostOf(b.url) # None
    BY <1>2 DEF Duplicates, GetDomainFromArtifact
  <2>2. a.url \in URL /\ b.url \in URL
    BY <2>1 DEF HostOf, WellTyped, Artifact
  <2>3. HostOf(unifyURL(b.url, a.url)) \in {HostOf(b.url), None}
    BY <2>1, <2>2 DEF unifyURL, HostOf, URL
  <2>4. m.type = b.type /\ m.value = b.value /\ m.url \in {b.url, unifyURL(b.url, a.url)}
    BY <1>2 DEF Merge, WellTyped, Artifact
  <2> HIDE DEF m
  <2>5. GetDomainFromArtifact(m) \in {GetDomainFromArtifact(b), None}
    BY <2>1, <2>3, <2>4 DEF GetDomainFromArtifact
  <2>6. \A x : /\ Duplicates(x, m) => Duplicates(x, b)
               /\ Duplicates(m, x) => Duplicates(b, x)
    BY <2>1, <2>4, <2>5 DEF Duplicates
  <2> QED
    BY <2>6 DEF m
<1> QED
  BY <1>1, <1>2

(* Only the storage changes what is stored.                                *)
LEMMA OnlyPublishStores ==
    ASSUME [Next]_dispatchVars, ~\E a \in Content : PublishArtifact(a)
    PROVE  UNCHANGED artifacts
  BY DEF Next, DeliverEvent, Receive, PopAndReturn, HandOff,
     HandleScannerInstanceMsg, Run, WaitForRegister, SetBusy, SendArtifact,
     WaitForFinishTask, UnsetBusy, SlaveRegister, SlaveFinishTask, SlaveCrash,
     storageVars, dispatchVars

(* No merge and no addition makes two stored artifacts duplicates.         *)
LEMMA StorageKeepsNoDuplicates ==
    ASSUME IndInv, NoStoredDuplicates, NEW a, WellFormed(a), AddArtifact(a)
    PROVE  NoStoredDuplicates'
<1>1. WellTyped(a)
  BY DispatchAssumption DEF WellFormed
<1>2. artifacts \in Seq(Artifact) /\ StoredWellTyped
  BY DEF IndInv, TypeOK
<1>3. CASE DropDuplicate(a)
  <2>1. PICK k \in DOMAIN artifacts :
          /\ Duplicates(artifacts[k], a)
          /\ artifacts' = [artifacts EXCEPT ![k] = Merge(artifacts[k], a)]
    BY <1>3 DEF DropDuplicate
  <2>2. \A x : /\ Duplicates(x, Merge(artifacts[k], a)) => Duplicates(x, artifacts[k])
               /\ Duplicates(Merge(artifacts[k], a), x) => Duplicates(artifacts[k], x)
    BY <1>1, <1>2, <2>1, MergeAddsNoDuplicate DEF StoredWellTyped
  <2>3. /\ DOMAIN artifacts' = DOMAIN artifacts /\ DOMAIN artifacts \subseteq Nat
        /\ artifacts'[k] = Merge(artifacts[k], a)
        /\ \A e \in DOMAIN artifacts \ {k} : artifacts'[e] = artifacts[e]
    BY <1>2, <2>1
  <2> SUFFICES ASSUME NEW i \in DOMAIN artifacts, NEW j \in DOMAIN artifacts, i < j,
                      Duplicates(artifacts'[i], artifacts'[j])
               PROVE  Duplicates(artifacts[i], artifacts[j])
    BY <2>3 DEF NoStoredDuplicates
  <2>4. i # j
    BY <2>3
  <2>5. i = k \/ artifacts'[i] = artifacts[i]
    BY <2>3
  <2>6. j = k \/ artifacts'[j] = artifacts[j]
    BY <2>3
  <2> QED
    BY <2>2, <2>3, <2>4, <2>5, <2>6
<1>4. CASE StoreNew(a)
  <2>1. artifacts' = Append(artifacts, a) /\ \A k \in DOMAIN artifacts : ~Duplicates(artifacts[k], a)
    BY <1>4 DEF StoreNew
  <2>2. /\ DOMAIN artifacts' = 1..(Len(artifacts) + 1) /\ DOMAIN artifacts = 1..Len(artifacts)
        /\ Len(artifacts) \in Nat /\ artifacts'[Len(artifacts) + 1] = a
        /\ \A e \in DOMAIN artifacts : artifacts'[e] = artifacts[e]
    BY <1>2, <2>1
  <2>3. ASSUME NEW i \in DOMAIN artifacts', NEW j \in DOMAIN artifacts', i < j
        PROVE  i \in DOMAIN artifacts /\ (j \in DOMAIN artifacts \/ j = Len(artifacts) + 1)
    BY <2>2, <2>3
  <2> QED
    BY <2>1, <2>2, <2>3 DEF NoStoredDuplicates
<1> QED
  BY <1>3, <1>4 DEF AddArtifact

(* No two stored artifacts are duplicates, whatever was merged.            *)
THEOREM StoredOnce == Spec => []NoStoredDuplicates
<1>1. Init => NoStoredDuplicates
  BY DEF Init, StorageInit, NoStoredDuplicates
<1>2. IndInv /\ NoStoredDuplicates /\ [Next]_dispatchVars => NoStoredDuplicates'
  <2> SUFFICES ASSUME IndInv, NoStoredDuplicates, [Next]_dispatchVars PROVE NoStoredDuplicates'
    OBVIOUS
  <2>1. CASE \E a \in Content : PublishArtifact(a)
    BY <2>1, StorageKeepsNoDuplicates, DispatchAssumption DEF PublishArtifact
  <2>2. CASE ~\E a \in Content : PublishArtifact(a)
    BY <2>2, OnlyPublishStores DEF NoStoredDuplicates
  <2> QED
    BY <2>1, <2>2
<1> QED
  BY <1>1, <1>2, IndInvHolds, PTL DEF Spec

-----------------------------------------------------------------------------
(* Partitions and queues.                                                  *)

(* An element changes its place ...                                        *)
LEMMA MoveKeepsPartition ==
    ASSUME NEW U, NEW P, NEW Q, Partitioned(U, P), DOMAIN Q = DOMAIN P,
           NEW m \in DOMAIN P, NEW n \in DOMAIN P, m # n, NEW e \in P[m],
           Q[m] = P[m] \ {e}, Q[n] = P[n] \cup {e},
           \A k \in DOMAIN P \ {m, n} : Q[k] = P[k]
    PROVE  Partitioned(U, Q)
<1>1. \A j, k \in DOMAIN P : j # k => Q[j] \cap Q[k] = {}
  BY DEF Partitioned
<1>2. UNION {Q[k] : k \in DOMAIN Q} \subseteq U
  BY DEF Partitioned
<1>3. ASSUME NEW x \in U PROVE x \in UNION {Q[k] : k \in DOMAIN Q}
  <2>1. PICK k \in DOMAIN P : x \in P[k]
    BY DEF Partitioned
  <2>2. x \in Q[k] \/ x \in Q[n]
    BY <2>1
  <2> QED
    BY <2>1, <2>2
<1> QED
  BY <1>1, <1>2, <1>3 DEF Partitioned

(* ... and a new one is given a place.                                     *)
LEMMA AddKeepsPartition ==
    ASSUME NEW U, NEW P, NEW Q, Partitioned(U, P), DOMAIN Q = DOMAIN P,
           NEW m \in DOMAIN P, NEW e, e \notin U,
           Q[m] = P[m] \cup {e}, \A k \in DOMAIN P \ {m} : Q[k] = P[k]
    PROVE  Partitioned(U \cup {e}, Q)
<1>1. \A k \in DOMAIN P : e \notin P[k]
  BY DEF Partitioned
<1>2. \A j, k \in DOMAIN P : j # k => Q[j] \cap Q[k] = {}
  BY <1>1 DEF Partitioned
<1>3. UNION {Q[k] : k \in DOMAIN Q} \subseteq U \cup {e}
  BY DEF Partitioned
<1>4. ASSUME NEW x \in U \cup {e} PROVE x \in UNION {Q[k] : k \in DOMAIN Q}
  <2>1. CASE x \in U
    <3>1. PICK k \in DOMAIN P : x \in P[k]
      BY <2>1 DEF Partitioned
    <3> QED
      BY <3>1
  <2> QED
    BY <1>4, <2>1
<1> QED
  BY <1>2, <1>3, <1>4 DEF Partitioned

(* A queue without repetitions: an element comes in at the end, ...        *)
LEMMA AppendOnce ==
    ASSUME NEW S, NEW s \in Seq(S), NEW x \in S, IsInjective(s), x \notin ToSet(s)
    PROVE  ToSet(Append(s, x)) = ToSet(s) \cup {x} /\ IsInjective(Append(s, x))
<1> DEFINE r == Append(s, x)
<1>1. /\ DOMAIN r = DOMAIN s \cup {Len(s) + 1} /\ r[Len(s) + 1] = x
      /\ \A n \in DOMAIN s : r[n] = s[n] /\ n # Len(s) + 1
  OBVIOUS
<1> HIDE DEF r
<1> QED
  BY <1>1 DEF ToSet, IsInjective, r

(* ... the first one leaves, ...                                           *)
LEMMA TailOnce ==
    ASSUME NEW S, NEW s \in Seq(S), s # <<>>, IsInjective(s)
    PROVE  /\ ToSet(Tail(s)) = ToSet(s) \ {Head(s)} /\ Head(s) \in ToSet(s)
           /\ IsInjective(Tail(s))
<1> DEFINE r == Tail(s)
<1>1. /\ 1 \in DOMAIN s /\ Head(s) = s[1] /\ DOMAIN s \subseteq Nat /\ DOMAIN r \subseteq Nat
      /\ \A n \in DOMAIN r : n + 1 \in DOMAIN s /\ r[n] = s[n + 1] /\ n + 1 # 1
      /\ \A n \in DOMAIN s : n # 1 => n - 1 \in DOMAIN r /\ r[n - 1] = s[n]
  OBVIOUS
<1> HIDE DEF r
<1>2. IsInjective(r)
  BY <1>1 DEF IsInjective
<1>3. \A n \in DOMAIN r : r[n] \in ToSet(s) \ {Head(s)}
  BY <1>1 DEF IsInjective, ToSet
<1>4. \A n \in DOMAIN s : s[n] # Head(s) => s[n] \in ToSet(r)
  BY <1>1 DEF ToSet
<1>5. ToSet(r) = ToSet(s) \ {Head(s)}
  BY <1>3, <1>4 DEF ToSet
<1> QED
  BY <1>1, <1>2, <1>5 DEF ToSet, r

(* ... one leaves from where siphonIf finds it, ...                        *)
LEMMA RemoveOnce ==
    ASSUME NEW S, NEW s \in Seq(S), NEW p \in DOMAIN s, IsInjective(s)
    PROVE  /\ ToSet(RemoveAt(s, p)) = ToSet(s) \ {s[p]}
           /\ IsInjective(RemoveAt(s, p))
           /\ s[p] \in ToSet(s) /\ s[p] \notin ToSet(RemoveAt(s, p))
<1> DEFINE r == RemoveAt(s, p)
<1>1. p \in 1..Len(s) /\ DOMAIN s = 1..Len(s) /\ Len(s) \in Nat
  OBVIOUS
<1> DEFINE u == SubSeq(s, 1, p - 1)
           v == SubSeq(s, p + 1, Len(s))
<1>2. /\ u \in Seq(S) /\ Len(u) = p - 1 /\ \A n \in 1..(p - 1) : u[n] = s[n]
      /\ v \in Seq(S) /\ Len(v) = Len(s) - p /\ \A n \in 1..(Len(s) - p) : v[n] = s[p + n]
  BY <1>1, SubSeqProperties
<1>3. /\ DOMAIN r = 1..(Len(s) - 1)
      /\ \A n \in 1..(Len(s) - 1) : r[n] = IF n < p THEN s[n] ELSE s[n + 1]
  <2>1. r = u \o v
    BY DEF RemoveAt
  <2> HIDE DEF u, v, r
  <2>2. /\ Len(r) = Len(s) - 1 /\ r \in Seq(S)
        /\ \A n \in 1..(Len(s) - 1) : r[n] = IF n <= p - 1 THEN u[n] ELSE v[n - (p - 1)]
    <3>1. Len(u) + Len(v) = Len(s) - 1
      BY <1>1, <1>2
    <3>2. /\ u \o v \in Seq(S) /\ Len(u \o v) = Len(u) + Len(v)
          /\ \A n \in 1..(Len(u) + Len(v)) :
                (u \o v)[n] = IF n <= Len(u) THEN u[n] ELSE v[n - Len(u)]
      BY <1>2, ConcatProperties
    <3> QED
      BY <1>2, <2>1, <3>1, <3>2
  <2>3. ASSUME NEW n \in 1..(Len(s) - 1), n < p PROVE r[n] = s[n]
    BY <1>1, <1>2, <2>2, <2>3
  <2>4. ASSUME NEW n \in 1..(Len(s) - 1), ~(n < p) PROVE r[n] = s[n + 1]
    <3>1. n - (p - 1) \in 1..(Len(s) - p) /\ p + (n - (p - 1)) = n + 1 /\ ~(n <= p - 1)
      BY <1>1, <2>4
    <3> QED
      BY <1>2, <2>2, <3>1
  <2> QED
    BY <2>2, <2>3, <2>4
<1> HIDE DEF r
<1>4. \A n \in DOMAIN r : IF n < p THEN n \in DOMAIN s ELSE n + 1 \in DOMAIN s
  BY <1>1, <1>3
<1>5. IsInjective(r)
  BY <1>1, <1>3, <1>4 DEF IsInjective
<1>6. \A n \in DOMAIN r : r[n] \in ToSet(s) \ {s[p]}
  BY <1>1, <1>3, <1>4 DEF IsInjective, ToSet
<1>7. ASSUME NEW n \in DOMAIN s, n # p PROVE s[n] \in ToSet(r)
  <2>1. CASE n < p
    BY <1>1, <1>3, <2>1 DEF ToSet
  <2>2. CASE n > p
    <3>1. n - 1 \in DOMAIN r /\ r[n - 1] = s[n]
      BY <1>1, <1>3, <2>2
    <3> QED
      BY <3>1 DEF ToSet
  <2> QED
    BY <1>1, <1>7, <2>1, <2>2
<1>8. ToSet(r) = ToSet(s) \ {s[p]}
  BY <1>6, <1>7 DEF ToSet
<1>9. s[p] \in ToSet(s)
  BY DEF ToSet
<1> QED
  BY <1>5, <1>8, <1>9 DEF r

(* ... and ReversePop puts one back in front.                              *)
LEMMA PrependOnce ==
    ASSUME NEW S, NEW s \in Seq(S), NEW x \in S, IsInjective(s), x \notin ToSet(s)
    PROVE  ToSet(<<x>> \o s) = ToSet(s) \cup {x} /\ IsInjective(<<x>> \o s)
<1> DEFINE r == <<x>> \o s
<1>1. /\ 1 \in DOMAIN r /\ r[1] = x /\ DOMAIN s \subseteq Nat /\ DOMAIN r \subseteq Nat
      /\ \A n \in DOMAIN s : n + 1 \in DOMAIN r /\ r[n + 1] = s[n] /\ n + 1 # 1
      /\ \A n \in DOMAIN r : n # 1 => n - 1 \in DOMAIN s /\ r[n] = s[n - 1]
  OBVIOUS
<1> HIDE DEF r
<1>2. IsInjective(r)
  BY <1>1 DEF IsInjective, ToSet
<1>3. ToSet(r) \subseteq ToSet(s) \cup {x}
  BY <1>1 DEF ToSet
<1>4. ToSet(s) \subseteq ToSet(r) /\ x \in ToSet(r)
  BY <1>1 DEF ToSet
<1> QED
  BY <1>2, <1>3, <1>4 DEF r

-----------------------------------------------------------------------------
(* The places of the artifacts.                                            *)

(* The names of the places.                                                *)
LEMMA PlaceNames ==
    ASSUME NEW t
    PROVE  /\ DOMAIN Places(t) = {"inflight", "chan", "buffer", "dropped", "held", "done"}
           /\ Places(t).inflight = inflight[t] /\ Places(t).chan = ToSet(chan[t])
           /\ Places(t).buffer = ToSet(buffer[t]) /\ Places(t).dropped = dropped[t]
           /\ Places(t).held = {job[i] : i \in HeldBy(t)} /\ Places(t).done = done[t]
  BY DEF Places

(* The same after a step.                                                  *)
LEMMA PlaceNamesNext ==
    ASSUME NEW t
    PROVE  /\ DOMAIN Places(t)' = {"inflight", "chan", "buffer", "dropped", "held", "done"}
           /\ Places(t)'.inflight = inflight'[t] /\ Places(t)'.chan = ToSet(chan'[t])
           /\ Places(t)'.buffer = ToSet(buffer'[t]) /\ Places(t)'.dropped = dropped'[t]
           /\ Places(t)'.held = {job'[i] : i \in HeldBy(t)'} /\ Places(t)'.done = done'[t]
  BY DEF Places

(* A step that neither stores nor moves an artifact of t.                  *)
LEMMA PlacedUntouched ==
    ASSUME NEW t \in Template, Placed(t), Offered(t)' = Offered(t),
           inflight'[t] = inflight[t], chan'[t] = chan[t], buffer'[t] = buffer[t],
           dropped'[t] = dropped[t], done'[t] = done[t],
           \A i \in InstancesOf(t) : job'[i] = job[i]
    PROVE  Placed(t)'
<1>1. HeldBy(t)' = HeldBy(t) /\ \A i \in HeldBy(t) : job'[i] = job[i]
  BY DEF HeldBy, InstancesOf
<1>2. {job'[i] : i \in HeldBy(t)} = {job[i] : i \in HeldBy(t)}
  BY <1>1
<1>3. Places(t)' = Places(t)
  BY <1>1, <1>2 DEF Places
<1> QED
  BY <1>1, <1>3 DEF Placed

(* At the start there is nothing.                                          *)
LEMMA InitPlacesInv == Init => PlacesInv
<1> SUFFICES ASSUME Init, NEW t \in Template PROVE Placed(t)
  BY DEF PlacesInv
<1>1. t \in Subscriber
  BY DispatchAssumption
<1>2. /\ inflight[t] = {} /\ chan[t] = <<>> /\ buffer[t] = <<>>
      /\ dropped[t] = {} /\ done[t] = {} /\ HeldBy(t) = {} /\ Offered(t) = {}
  BY <1>1 DEF Init, BusInit, StorageInit, TemplateInit, InstanceInit, HeldBy, InstancesOf, Offered
<1>3. ToSet(<<>>) = {} /\ IsInjective(<<>>)
  BY DEF ToSet, IsInjective
<1>4. \A n \in DOMAIN Places(t) : Places(t)[n] = {}
  BY <1>2, <1>3, PlaceNames
<1> QED
  BY <1>2, <1>3, <1>4 DEF Placed, Partitioned

(* A new artifact is in flight to every template that subscribes to it; a  *)
(* merged one stays where it is, with its type.                            *)
LEMMA PlacesPublish ==
    ASSUME IndInv, PlacesInv, NEW a, WellFormed(a), PublishArtifact(a), NEW t \in Template
    PROVE  Placed(t)'
<1>1. /\ AddArtifact(a) /\ UNCHANGED <<buffer, dropped, done, job>>
  BY DEF PublishArtifact, queueVars, instanceVars
<1>2. artifacts \in Seq(Artifact) /\ t \in Subscriber /\ Placed(t)
  BY DispatchAssumption DEF IndInv, TypeOK, PlacesInv
<1>3. CASE DropDuplicate(a)
  <2>1. PICK k \in DOMAIN artifacts :
          /\ Duplicates(artifacts[k], a)
          /\ artifacts' = [artifacts EXCEPT ![k] = Merge(artifacts[k], a)]
          /\ UNCHANGED <<inflight, chan>>
    BY <1>3 DEF DropDuplicate, busVars
  <2>2. Merge(artifacts[k], a).type = artifacts[k].type
    BY <2>1, MergeKeepsKey, DispatchAssumption DEF WellFormed, IndInv, StoredWellTyped
  <2>3. /\ DOMAIN artifacts' = DOMAIN artifacts
        /\ \A e \in DOMAIN artifacts : artifacts'[e].type = artifacts[e].type
    BY <1>2, <2>1, <2>2
  <2>4. Offered(t)' = Offered(t)
    BY <2>3 DEF Offered
  <2> QED
    BY <1>1, <1>2, <2>1, <2>4, PlacedUntouched
<1>4. CASE StoreNew(a)
  <2> DEFINE e == Len(artifacts) + 1
  <2>1. artifacts' = Append(artifacts, a) /\ Publish(a.type, e) /\ a \in Artifact
    BY <1>4, DispatchAssumption DEF StoreNew, WellFormed, WellTyped
  <2>2. /\ DOMAIN artifacts' = DOMAIN artifacts \cup {e} /\ e \notin DOMAIN artifacts
        /\ artifacts'[e] = a /\ \A x \in DOMAIN artifacts : artifacts'[x] = artifacts[x]
    BY <1>2, <2>1
  <2>3. /\ UNCHANGED chan
        /\ inflight'[t] = IF a.type \in Inputs[t] THEN inflight[t] \cup {e} ELSE inflight[t]
    BY <1>2, <2>1 DEF Publish
  <2>4. Offered(t)' = IF a.type \in Inputs[t] THEN Offered(t) \cup {e} ELSE Offered(t)
    BY <2>2 DEF Offered
  <2>5. CASE a.type \notin Inputs[t]
    BY <1>1, <1>2, <2>3, <2>4, <2>5, PlacedUntouched
  <2>6. CASE a.type \in Inputs[t]
    <3>1. HeldBy(t)' = HeldBy(t)
      BY <1>1 DEF HeldBy, InstancesOf
    <3>2. /\ Places(t)'.inflight = Places(t).inflight \cup {e}
          /\ \A n \in DOMAIN Places(t) \ {"inflight"} : Places(t)'[n] = Places(t)[n]
          /\ DOMAIN Places(t)' = DOMAIN Places(t) /\ "inflight" \in DOMAIN Places(t)
      <4>1. {job'[i] : i \in HeldBy(t)'} = {job[i] : i \in HeldBy(t)}
        BY <1>1, <3>1
      <4>2. /\ Places(t)'.inflight = Places(t).inflight \cup {e}
            /\ Places(t)'.chan = Places(t).chan /\ Places(t)'.buffer = Places(t).buffer
            /\ Places(t)'.dropped = Places(t).dropped /\ Places(t)'.done = Places(t).done
            /\ Places(t)'.held = Places(t).held
        BY <1>1, <2>3, <2>6, <4>1, PlaceNames, PlaceNamesNext
      <4> QED
        BY <4>2, PlaceNames, PlaceNamesNext
    <3>3. e \notin Offered(t)
      BY <2>2 DEF Offered
    <3>4. Partitioned(Offered(t)', Places(t)')
      BY <1>2, <2>4, <2>6, <3>2, <3>3, AddKeepsPartition DEF Placed
    <3> QED
      BY <1>1, <1>2, <2>3, <3>1, <3>4 DEF Placed
  <2> QED
    BY <2>5, <2>6
<1> QED
  BY <1>1, <1>3, <1>4 DEF AddArtifact

(* An artifact of t goes from one place to another.                        *)
LEMMA Moves ==
    ASSUME NEW t, Placed(t), Offered(t)' = Offered(t),
           NEW m \in DOMAIN Places(t), NEW n \in DOMAIN Places(t), m # n,
           NEW e \in Places(t)[m],
           Places(t)'[m] = Places(t)[m] \ {e}, Places(t)'[n] = Places(t)[n] \cup {e},
           \A k \in DOMAIN Places(t) \ {m, n} : Places(t)'[k] = Places(t)[k]
    PROVE  Partitioned(Offered(t)', Places(t)')
<1>1. DOMAIN Places(t)' = DOMAIN Places(t)
  BY PlaceNames, PlaceNamesNext
<1> QED
  BY <1>1, MoveKeepsPartition DEF Placed

(* What is in one place is in no other.                                    *)
LEMMA Elsewhere ==
    ASSUME NEW t \in Template, Placed(t), NEW m \in DOMAIN Places(t), NEW e \in Places(t)[m]
    PROVE  \A n \in DOMAIN Places(t) \ {m} : e \notin Places(t)[n]
  BY DEF Placed, Partitioned

(* A template whose instances keep their artifacts holds what it held.     *)
LEMMA HeldUntouched ==
    ASSUME NEW t, Placed(t), UNCHANGED job
    PROVE  /\ Places(t)'.held = Places(t).held
           /\ \A i, j \in HeldBy(t)' : job'[i] = job'[j] => i = j
<1>1. HeldBy(t)' = HeldBy(t)
  BY DEF HeldBy, InstancesOf
<1>2. {job'[i] : i \in HeldBy(t)'} = {job[i] : i \in HeldBy(t)}
  BY <1>1
<1>3. Places(t)'.held = Places(t).held
  BY <1>2, PlaceNames, PlaceNamesNext
<1> QED
  BY <1>1, <1>3 DEF Placed

(* From a publisher into the channel.                                      *)
LEMMA PlacesDeliver ==
    ASSUME IndInv, PlacesInv, NEW s \in Subscriber, NEW e \in Pointer, DeliverEvent(s, e),
           NEW t \in Template
    PROVE  Placed(t)'
<1>1. /\ e \in inflight[s] /\ inflight' = [inflight EXCEPT ![s] = inflight[s] \ {e}]
      /\ chan' = [chan EXCEPT ![s] = Append(chan[s], e)]
      /\ UNCHANGED <<artifacts, buffer, dropped, done, job>>
  BY DEF DeliverEvent, Deliver, queueVars, instanceVars
<1>2. /\ inflight \in [Subscriber -> SUBSET DOMAIN artifacts] /\ t \in Subscriber
      /\ chan \in [Subscriber -> Seq(DOMAIN artifacts)] /\ Placed(t)
  BY DispatchAssumption DEF IndInv, TypeOK, PlacesInv
<1>3. Offered(t)' = Offered(t)
  BY <1>1 DEF Offered
<1>4. CASE s # t
  BY <1>1, <1>2, <1>3, <1>4, PlacedUntouched
<1>5. CASE s = t
  <2>1. e \in Places(t).inflight /\ e \notin ToSet(chan[t])
    BY <1>1, <1>2, <1>5, PlaceNames, Elsewhere
  <2>2. chan[t] \in Seq(DOMAIN artifacts) /\ e \in DOMAIN artifacts
    BY <1>1, <1>2, <1>5
  <2>3. inflight'[t] = inflight[t] \ {e} /\ chan'[t] = Append(chan[t], e)
    BY <1>1, <1>2, <1>5
  <2>4. ToSet(chan'[t]) = ToSet(chan[t]) \cup {e} /\ IsInjective(chan'[t])
    BY <1>2, <2>1, <2>2, <2>3, AppendOnce DEF Placed
  <2>5. /\ Places(t)'.inflight = Places(t).inflight \ {e}
        /\ Places(t)'.chan = Places(t).chan \cup {e}
        /\ Places(t)'.buffer = Places(t).buffer /\ Places(t)'.dropped = Places(t).dropped
        /\ Places(t)'.held = Places(t).held /\ Places(t)'.done = Places(t).done
    BY <1>1, <1>2, <2>3, <2>4, HeldUntouched, PlaceNames, PlaceNamesNext
  <2>6. \A k \in DOMAIN Places(t) \ {"inflight", "chan"} : Places(t)'[k] = Places(t)[k]
    BY <2>5, PlaceNames
  <2>7. Partitioned(Offered(t)', Places(t)')
    <3>1. "inflight" \in DOMAIN Places(t) /\ "chan" \in DOMAIN Places(t)
      BY PlaceNames
    <3> QED
      BY <1>2, <1>3, <2>1, <2>5, <2>6, <3>1, Moves
  <2> QED
    BY <1>1, <1>2, <2>4, <2>7, HeldUntouched DEF Placed
<1> QED
  BY <1>4, <1>5

(* From the channel into the queue, or out of scope.                       *)
LEMMA PlacesReceive ==
    ASSUME IndInv, PlacesInv, NEW u \in Template, Receive(u), NEW t \in Template
    PROVE  Placed(t)'
<1> DEFINE e == Head(chan[u])
<1>1. /\ chan[u] # <<>> /\ chan' = [chan EXCEPT ![u] = Tail(chan[u])]
      /\ \/ buffer' = [buffer EXCEPT ![u] = Append(buffer[u], e)] /\ UNCHANGED dropped
         \/ dropped' = [dropped EXCEPT ![u] = dropped[u] \cup {e}] /\ UNCHANGED buffer
      /\ UNCHANGED <<artifacts, inflight, done, job>>
  BY DEF Receive, instanceVars
<1>2. /\ chan \in [Subscriber -> Seq(DOMAIN artifacts)] /\ u \in Subscriber /\ t \in Subscriber
      /\ buffer \in [Template -> Seq(DOMAIN artifacts)]
      /\ dropped \in [Template -> SUBSET DOMAIN artifacts] /\ Placed(t)
  BY DispatchAssumption DEF IndInv, TypeOK, PlacesInv
<1>3. Offered(t)' = Offered(t)
  BY <1>1 DEF Offered
<1>4. CASE u # t
  BY <1>1, <1>2, <1>3, <1>4, PlacedUntouched
<1>5. CASE u = t
  <2>1. PICK x : x = e
    OBVIOUS
  <2>2. chan[t] \in Seq(DOMAIN artifacts) /\ chan[t] # <<>> /\ x = Head(chan[t])
    BY <1>1, <1>2, <1>5, <2>1
  <2>3. /\ chan'[t] = Tail(chan[t]) /\ x \in DOMAIN artifacts
        /\ ToSet(chan'[t]) = ToSet(chan[t]) \ {x} /\ x \in ToSet(chan[t])
        /\ IsInjective(chan'[t])
    BY <1>1, <1>2, <1>5, <2>2, TailOnce, HeadTailType DEF Placed
  <2>4. x \in Places(t).chan /\ x \notin ToSet(buffer[t])
    BY <1>2, <2>3, PlaceNames, Elsewhere
  <2>5. /\ Places(t)'.chan = Places(t).chan \ {x}
        /\ Places(t)'.inflight = Places(t).inflight
        /\ Places(t)'.held = Places(t).held /\ Places(t)'.done = Places(t).done
    BY <1>1, <1>2, <2>3, HeldUntouched, PlaceNames, PlaceNamesNext
  <2>6. CASE buffer' = [buffer EXCEPT ![u] = Append(buffer[u], e)] /\ UNCHANGED dropped
    <3>1. buffer'[t] = Append(buffer[t], x)
      BY <1>2, <1>5, <2>1, <2>6
    <3>2. buffer[t] \in Seq(DOMAIN artifacts)
      BY <1>2
    <3>3. ToSet(buffer'[t]) = ToSet(buffer[t]) \cup {x} /\ IsInjective(buffer'[t])
      BY <1>2, <2>3, <2>4, <3>1, <3>2, AppendOnce DEF Placed
    <3>4. Places(t)'.buffer = Places(t).buffer \cup {x} /\ Places(t)'.dropped = Places(t).dropped
      BY <2>6, <3>3, PlaceNames, PlaceNamesNext
    <3>5. \A k \in DOMAIN Places(t) \ {"chan", "buffer"} : Places(t)'[k] = Places(t)[k]
      BY <2>5, <3>4, PlaceNames
    <3>6. "chan" \in DOMAIN Places(t) /\ "buffer" \in DOMAIN Places(t)
      BY PlaceNames
    <3>7. Partitioned(Offered(t)', Places(t)')
      BY <1>2, <1>3, <2>4, <2>5, <3>4, <3>5, <3>6, Moves
    <3> QED
      BY <1>1, <1>2, <2>3, <3>3, <3>7, HeldUntouched DEF Placed
  <2>7. CASE dropped' = [dropped EXCEPT ![u] = dropped[u] \cup {e}] /\ UNCHANGED buffer
    <3>1. dropped'[t] = dropped[t] \cup {x}
      BY <1>2, <1>5, <2>1, <2>7
    <3>2. Places(t)'.dropped = Places(t).dropped \cup {x} /\ Places(t)'.buffer = Places(t).buffer
      BY <2>7, <3>1, PlaceNames, PlaceNamesNext
    <3>3. \A k \in DOMAIN Places(t) \ {"chan", "dropped"} : Places(t)'[k] = Places(t)[k]
      BY <2>5, <3>2, PlaceNames
    <3>4. "chan" \in DOMAIN Places(t) /\ "dropped" \in DOMAIN Places(t)
      BY PlaceNames
    <3>5. Partitioned(Offered(t)', Places(t)')
      BY <1>2, <1>3, <2>4, <2>5, <3>2, <3>3, <3>4, Moves
    <3> QED
      BY <1>1, <1>2, <2>3, <2>7, <3>5, HeldUntouched DEF Placed
  <2> QED
    BY <1>1, <2>6, <2>7
<1> QED
  BY <1>4, <1>5

(* From the queue into the hands of an instance that had none.             *)
LEMMA PlacesHandOff ==
    ASSUME IndInv, PlacesInv, NEW u \in Template, NEW i \in Instance, HandOff(u, i),
           NEW t \in Template
    PROVE  Placed(t)'
<1>1. PICK p \in Poppable(u) :
        /\ buffer' = [buffer EXCEPT ![u] = RemoveAt(buffer[u], p)]
        /\ job' = [job EXCEPT ![i] = buffer[u][p]]
  BY DEF HandOff
<1>2. PICK e : e = buffer[u][p]
  OBVIOUS
<1>3. /\ TemplateOf[i] = u /\ job[i] = Nil
      /\ UNCHANGED <<artifacts, inflight, chan, dropped, done>>
  BY DEF HandOff, IndInv, Occupied, storageVars
<1>4. /\ p \in DOMAIN buffer[u] /\ e \in DOMAIN artifacts /\ e # Nil
  BY <1>2, PoppedArtifact, NilIsNoPointer
<1>5. /\ buffer \in [Template -> Seq(DOMAIN artifacts)]
      /\ job \in [Instance -> DOMAIN artifacts \cup {Nil}] /\ Placed(t)
  BY DEF IndInv, TypeOK, PlacesInv
<1>6. Offered(t)' = Offered(t)
  BY <1>3 DEF Offered
<1>7. job'[i] = e /\ \A j \in Instance \ {i} : job'[j] = job[j]
  BY <1>1, <1>2, <1>5
<1>8. CASE u # t
  <2>1. buffer'[t] = buffer[t] /\ \A j \in InstancesOf(t) : job'[j] = job[j]
    BY <1>1, <1>3, <1>5, <1>7, <1>8 DEF InstancesOf
  <2> QED
    BY <1>3, <1>5, <1>6, <2>1, PlacedUntouched
<1>9. CASE u = t
  <2>1. buffer[t] \in Seq(DOMAIN artifacts) /\ buffer'[t] = RemoveAt(buffer[t], p)
    BY <1>1, <1>5, <1>9
  <2>2. /\ ToSet(buffer'[t]) = ToSet(buffer[t]) \ {e} /\ IsInjective(buffer'[t])
        /\ e \in ToSet(buffer[t])
    <3>1. p \in DOMAIN buffer[t] /\ e = buffer[t][p] /\ IsInjective(buffer[t])
      BY <1>2, <1>4, <1>5, <1>9 DEF Placed
    <3> QED
      BY <2>1, <3>1, RemoveOnce
  <2>3. e \in Places(t).buffer /\ e \notin Places(t).held
    BY <1>5, <2>2, PlaceNames, Elsewhere
  <2>4. HeldBy(t)' = HeldBy(t) \cup {i} /\ i \notin HeldBy(t)
    BY <1>3, <1>4, <1>7, <1>9 DEF HeldBy, InstancesOf
  <2>5. \A j \in HeldBy(t) : job'[j] = job[j]
    BY <1>7, <2>4 DEF HeldBy, InstancesOf
  <2>6. {job'[j] : j \in HeldBy(t)'} = {job[j] : j \in HeldBy(t)} \cup {e}
    BY <1>7, <2>4, <2>5
  <2>7. \A j, k \in HeldBy(t)' : job'[j] = job'[k] => j = k
    <3>1. \A j \in HeldBy(t) : job[j] # e
      BY <2>3, PlaceNames
    <3> QED
      BY <1>5, <1>7, <2>4, <2>5, <3>1 DEF Placed
  <2>8. /\ Places(t)'.buffer = Places(t).buffer \ {e}
        /\ Places(t)'.held = Places(t).held \cup {e}
        /\ Places(t)'.inflight = Places(t).inflight /\ Places(t)'.chan = Places(t).chan
        /\ Places(t)'.dropped = Places(t).dropped /\ Places(t)'.done = Places(t).done
    BY <1>3, <2>2, <2>6, PlaceNames, PlaceNamesNext
  <2>9. \A k \in DOMAIN Places(t) \ {"buffer", "held"} : Places(t)'[k] = Places(t)[k]
    BY <2>8, PlaceNames
  <2>10. "buffer" \in DOMAIN Places(t) /\ "held" \in DOMAIN Places(t)
    BY PlaceNames
  <2>11. Partitioned(Offered(t)', Places(t)')
    BY <1>5, <1>6, <2>3, <2>8, <2>9, <2>10, Moves
  <2> QED
    BY <1>3, <1>5, <2>2, <2>7, <2>11 DEF Placed
<1> QED
  BY <1>8, <1>9

(* Out of the queue and back: the queue has another order.                 *)
LEMMA PlacesPopAndReturn ==
    ASSUME IndInv, PlacesInv, NEW u \in Template, PopAndReturn(u), NEW t \in Template
    PROVE  Placed(t)'
<1>1. PICK p \in Poppable(u) :
        buffer' = [buffer EXCEPT ![u] = <<buffer[u][p]>> \o RemoveAt(buffer[u], p)]
  BY DEF PopAndReturn
<1>2. UNCHANGED <<artifacts, inflight, chan, dropped, done, job>>
  BY DEF PopAndReturn, storageVars, instanceVars
<1>3. buffer \in [Template -> Seq(DOMAIN artifacts)] /\ Placed(t)
  BY DEF IndInv, TypeOK, PlacesInv
<1>4. Offered(t)' = Offered(t)
  BY <1>2 DEF Offered
<1>5. CASE u # t
  BY <1>1, <1>2, <1>3, <1>4, <1>5, PlacedUntouched
<1>6. CASE u = t
  <2>1. /\ p \in DOMAIN buffer[t] /\ buffer[t] \in Seq(DOMAIN artifacts)
        /\ buffer[t][p] \in DOMAIN artifacts
        /\ RemoveAt(buffer[t], p) \in Seq(DOMAIN artifacts)
    BY <1>3, <1>6, PoppedArtifact
  <2>2. /\ ToSet(RemoveAt(buffer[t], p)) = ToSet(buffer[t]) \ {buffer[t][p]}
        /\ IsInjective(RemoveAt(buffer[t], p))
        /\ buffer[t][p] \in ToSet(buffer[t])
        /\ buffer[t][p] \notin ToSet(RemoveAt(buffer[t], p))
    <3>1. IsInjective(buffer[t])
      BY <1>3 DEF Placed
    <3> QED
      BY <2>1, <3>1, RemoveOnce
  <2>3. buffer'[t] = <<buffer[t][p]>> \o RemoveAt(buffer[t], p)
    BY <1>1, <1>3, <1>6
  <2>4. ToSet(buffer'[t]) = ToSet(buffer[t]) /\ IsInjective(buffer'[t])
    <3>1. /\ ToSet(buffer'[t]) = ToSet(RemoveAt(buffer[t], p)) \cup {buffer[t][p]}
          /\ IsInjective(buffer'[t])
      BY <2>1, <2>2, <2>3, PrependOnce
    <3> QED
      BY <2>2, <3>1
  <2>5. /\ Places(t)'.buffer = Places(t).buffer /\ Places(t)'.held = Places(t).held
        /\ Places(t)'.inflight = Places(t).inflight /\ Places(t)'.chan = Places(t).chan
        /\ Places(t)'.dropped = Places(t).dropped /\ Places(t)'.done = Places(t).done
    BY <1>2, <1>3, <2>4, HeldUntouched, PlaceNames, PlaceNamesNext
  <2>6. /\ DOMAIN Places(t)' = DOMAIN Places(t)
        /\ \A n \in DOMAIN Places(t) : Places(t)'[n] = Places(t)[n]
    BY <2>5, PlaceNames, PlaceNamesNext
  <2>7. Partitioned(Offered(t)', Places(t)')
    BY <1>3, <1>4, <2>6 DEF Placed, Partitioned
  <2> QED
    BY <1>2, <1>3, <2>4, <2>7, HeldUntouched DEF Placed
<1> QED
  BY <1>5, <1>6

(* An instance is done with its artifact, of which no other instance has a *)
(* pointer.                                                                *)
LEMMA PlacesFinish ==
    ASSUME IndInv, PlacesInv, NEW i \in Instance, WaitForFinishTask(i), NEW t \in Template
    PROVE  Placed(t)'
<1>1. PICK u \in Template : u = TemplateOf[i]
  BY DispatchAssumption
<1>2. PICK e : e = job[i]
  OBVIOUS
<1>3. /\ e # Nil /\ done' = [done EXCEPT ![u] = @ \cup {e}] /\ job' = [job EXCEPT ![i] = Nil]
      /\ UNCHANGED <<artifacts, inflight, chan, buffer, dropped>>
  BY <1>1, <1>2 DEF WaitForFinishTask, IndInv, Occupied, storageVars
<1>4. /\ job \in [Instance -> DOMAIN artifacts \cup {Nil}]
      /\ done \in [Template -> SUBSET DOMAIN artifacts] /\ Placed(t)
  BY DEF IndInv, TypeOK, PlacesInv
<1>5. Offered(t)' = Offered(t)
  BY <1>3 DEF Offered
<1>6. job'[i] = Nil /\ \A j \in Instance \ {i} : job'[j] = job[j]
  BY <1>3, <1>4
<1>7. CASE u # t
  <2>1. done'[t] = done[t] /\ \A j \in InstancesOf(t) : job'[j] = job[j]
    BY <1>1, <1>3, <1>4, <1>6, <1>7 DEF InstancesOf
  <2> QED
    BY <1>3, <1>4, <1>5, <2>1, PlacedUntouched
<1>8. CASE u = t
  <2>1. HeldBy(t)' = HeldBy(t) \ {i} /\ i \in HeldBy(t)
    BY <1>1, <1>2, <1>3, <1>6, <1>8 DEF HeldBy, InstancesOf
  <2>2. \A j \in HeldBy(t)' : j # i /\ job'[j] = job[j] /\ j \in HeldBy(t)
    BY <1>6, <2>1 DEF HeldBy, InstancesOf
  <2>3. \A j \in HeldBy(t) : job[j] = e => j = i
    BY <1>2, <1>4, <2>1 DEF Placed
  <2>4. {job'[j] : j \in HeldBy(t)'} = {job[j] : j \in HeldBy(t)} \ {e}
    BY <1>2, <2>1, <2>2, <2>3
  <2>5. \A j, k \in HeldBy(t)' : job'[j] = job'[k] => j = k
    BY <1>4, <2>2 DEF Placed
  <2>6. done'[t] = done[t] \cup {e} /\ e \in {job[j] : j \in HeldBy(t)}
    BY <1>2, <1>3, <1>4, <1>8, <2>1
  <2>7. /\ Places(t)'.held = Places(t).held \ {e}
        /\ Places(t)'.done = Places(t).done \cup {e} /\ e \in Places(t).held
        /\ Places(t)'.buffer = Places(t).buffer
        /\ Places(t)'.inflight = Places(t).inflight /\ Places(t)'.chan = Places(t).chan
        /\ Places(t)'.dropped = Places(t).dropped
    BY <1>3, <2>4, <2>6, PlaceNames, PlaceNamesNext
  <2>8. \A k \in DOMAIN Places(t) \ {"held", "done"} : Places(t)'[k] = Places(t)[k]
    BY <2>7, PlaceNames
  <2>9. "held" \in DOMAIN Places(t) /\ "done" \in DOMAIN Places(t)
    BY PlaceNames
  <2>10. Partitioned(Offered(t)', Places(t)')
    BY <1>4, <1>5, <2>7, <2>8, <2>9, Moves
  <2> QED
    BY <1>3, <1>4, <2>5, <2>10 DEF Placed
<1> QED
  BY <1>7, <1>8

-----------------------------------------------------------------------------
(* No step loses an artifact or puts it in a second place.                 *)
THEOREM NextPlacesInv == IndInv /\ PlacesInv /\ [Next]_dispatchVars => PlacesInv'
<1> SUFFICES ASSUME IndInv, PlacesInv, [Next]_dispatchVars, NEW t \in Template
             PROVE  Placed(t)'
  BY DEF PlacesInv
<1>1. ASSUME UNCHANGED <<artifacts, inflight, chan, buffer, dropped, done, job>>
      PROVE  Placed(t)'
  BY <1>1, PlacedUntouched DEF PlacesInv, Offered
<1>2. CASE UNCHANGED dispatchVars
  BY <1>1, <1>2 DEF dispatchVars, storageVars, queueVars, instanceVars
<1>3. ASSUME NEW i \in Instance, Run(i) PROVE Placed(t)'
  <2>1. CASE WaitForFinishTask(i)
    BY <2>1, PlacesFinish
  <2>2. CASE ~WaitForFinishTask(i)
    BY <1>1, <1>3, <2>2
    DEF Run, WaitForRegister, SetBusy, SendArtifact, UnsetBusy, storageVars, queueVars
  <2> QED
    BY <2>1, <2>2
<1>4. ASSUME NEW i \in Instance,
             SlaveRegister(i) \/ SlaveFinishTask(i) \/ SlaveCrash(i)
      PROVE  Placed(t)'
  BY <1>1, <1>4 DEF SlaveRegister, SlaveFinishTask, SlaveCrash,
                    storageVars, queueVars, instanceVars
<1>5. CASE HandleScannerInstanceMsg
  BY <1>1, <1>5 DEF HandleScannerInstanceMsg, storageVars, queueVars, instanceVars
<1> QED
  BY <1>2, <1>3, <1>4, <1>5, PlacesPublish, PlacesDeliver, PlacesReceive, PlacesHandOff,
     PlacesPopAndReturn, DispatchAssumption DEF Next

(* Every artifact is in one place of every template that wants it.         *)
THEOREM PlacesInvHolds == Spec => []PlacesInv
  BY IndInvHolds, InitPlacesInv, NextPlacesInv, PTL DEF Spec

-----------------------------------------------------------------------------
(* Counting.                                                               *)

(* Two finite sets without common elements.                                *)
LEMMA DisjointUnion ==
    ASSUME NEW S, NEW T, IsFiniteSet(S), IsFiniteSet(T), S \cap T = {}
    PROVE  /\ IsFiniteSet(S \cup T)
           /\ Cardinality(S \cup T) = Cardinality(S) + Cardinality(T)
           /\ Cardinality(S) \in Nat /\ Cardinality(T) \in Nat
  BY FS_Union, FS_EmptySet, FS_CardinalityType

(* A set has as many elements as its one-to-one image.                     *)
LEMMA InjectiveImage ==
    ASSUME NEW S, NEW R, NEW f \in [S -> R], IsFiniteSet(R),
           \A r \in R : \E x \in S : f[x] = r,
           \A x, y \in S : f[x] = f[y] => x = y
    PROVE  Cardinality(R) = Cardinality(S)
<1>1. f \in Injection(S, R) /\ f \in Surjection(S, R)
  BY DEF Injection, Surjection, IsInjective
<1>2. IsFiniteSet(S)
  BY <1>1, FS_Injection
<1> QED
  BY <1>1, <1>2, FS_Surjection

(* A queue without repetitions is as long as the set of its elements.      *)
LEMMA QueueLength ==
    ASSUME NEW S, IsFiniteSet(S), NEW s \in Seq(S), IsInjective(s)
    PROVE  Cardinality(ToSet(s)) = Len(s)
<1>1. PICK n \in Nat : n = Len(s) /\ DOMAIN s = 1..n /\ \A k \in 1..n : s[k] \in S
  OBVIOUS
<1> DEFINE f == [k \in 1..n |-> s[k]]
<1>2. f \in [1..n -> ToSet(s)] /\ \A x, y \in 1..n : f[x] = f[y] => x = y
  BY <1>1 DEF IsInjective, ToSet
<1>3. \A r \in ToSet(s) : \E x \in 1..n : f[x] = r
  BY <1>1 DEF ToSet
<1>4. Cardinality(ToSet(s)) = Cardinality(1..n)
  <2>1. ToSet(s) \subseteq S
    BY <1>1 DEF ToSet
  <2>2. IsFiniteSet(ToSet(s))
    BY <2>1, FS_Subset
  <2> HIDE DEF f
  <2> QED
    BY <1>2, <1>3, <2>2, InjectiveImage
<1>5. Cardinality(1..n) = n
  <2>1. 1 \in Int /\ n \in Int /\ (IF 1 > n THEN 0 ELSE n - 1 + 1) = n
    BY <1>1
  <2>2. Cardinality(1..n) = IF 1 > n THEN 0 ELSE n - 1 + 1
    BY <2>1, FS_Interval
  <2> QED
    BY <2>1, <2>2
<1> QED
  BY <1>1, <1>4, <1>5

(* A partition into the six places counts what is offered.                 *)
LEMMA PartitionCounts ==
    ASSUME NEW U, IsFiniteSet(U), NEW P, Partitioned(U, P),
           DOMAIN P = {"inflight", "chan", "buffer", "dropped", "held", "done"}
    PROVE  /\ Cardinality(U) = Cardinality(P.inflight) + Cardinality(P.chan)
                 + Cardinality(P.buffer) + Cardinality(P.dropped)
                 + Cardinality(P.held) + Cardinality(P.done)
           /\ U = P.inflight \cup P.chan \cup P.buffer \cup P.dropped \cup P.held \cup P.done
<1>1. /\ P.inflight \subseteq U /\ P.chan \subseteq U /\ P.buffer \subseteq U
      /\ P.dropped \subseteq U /\ P.held \subseteq U /\ P.done \subseteq U
  BY DEF Partitioned
<1>2. /\ IsFiniteSet(P.inflight) /\ IsFiniteSet(P.chan) /\ IsFiniteSet(P.buffer)
      /\ IsFiniteSet(P.dropped) /\ IsFiniteSet(P.held) /\ IsFiniteSet(P.done)
  BY <1>1, FS_Subset
<1>3. U = P.inflight \cup P.chan \cup P.buffer \cup P.dropped \cup P.held \cup P.done
  BY DEF Partitioned
<1>4. /\ P.inflight \cap P.chan = {}
      /\ (P.inflight \cup P.chan) \cap P.buffer = {}
      /\ (P.inflight \cup P.chan \cup P.buffer) \cap P.dropped = {}
      /\ (P.inflight \cup P.chan \cup P.buffer \cup P.dropped) \cap P.held = {}
      /\ (P.inflight \cup P.chan \cup P.buffer \cup P.dropped \cup P.held) \cap P.done = {}
  BY DEF Partitioned
<1> DEFINE A == P.inflight \cup P.chan
           B == A \cup P.buffer
           C == B \cup P.dropped
           D == C \cup P.held
<1>5. IsFiniteSet(A) /\ Cardinality(A) = Cardinality(P.inflight) + Cardinality(P.chan)
  BY <1>2, <1>4, DisjointUnion
<1>6. IsFiniteSet(B) /\ Cardinality(B) = Cardinality(A) + Cardinality(P.buffer)
  BY <1>2, <1>4, <1>5, DisjointUnion
<1>7. IsFiniteSet(C) /\ Cardinality(C) = Cardinality(B) + Cardinality(P.dropped)
  BY <1>2, <1>4, <1>6, DisjointUnion
<1>8. IsFiniteSet(D) /\ Cardinality(D) = Cardinality(C) + Cardinality(P.held)
  BY <1>2, <1>4, <1>7, DisjointUnion
<1>9. Cardinality(D \cup P.done) = Cardinality(D) + Cardinality(P.done)
  BY <1>2, <1>4, <1>8, DisjointUnion
<1> QED
  BY <1>3, <1>5, <1>6, <1>7, <1>8, <1>9

(* Every stored artifact a template subscribes to is in exactly one place. *)
THEOREM EachOnce == Spec => []ExactlyOnce
<1>1. ASSUME TypeOK, PlacesInv, NEW t \in Template
      PROVE  /\ Offered(t) = WaitingFor(t) \cup dropped[t] \cup done[t]
                              \cup {job[i] : i \in HeldBy(t)}
             /\ Cardinality(Offered(t)) =
                    Cardinality(inflight[t]) + Len(chan[t]) + Len(buffer[t])
                    + Cardinality(dropped[t]) + Cardinality(HeldBy(t)) + Cardinality(done[t])
  <2> DEFINE D == DOMAIN artifacts
  <2>1. /\ artifacts \in Seq(Artifact) /\ chan[t] \in Seq(D) /\ buffer[t] \in Seq(D)
        /\ job \in [Instance -> D \cup {Nil}] /\ Placed(t)
    BY <1>1, DispatchAssumption DEF TypeOK, PlacesInv
  <2>2. IsFiniteSet(D)
    <3>1. D = 1..Len(artifacts) /\ Len(artifacts) \in Nat
      BY <2>1
    <3> QED
      BY <3>1, FS_Interval
  <2>3. IsFiniteSet(Offered(t))
    BY <2>2, FS_Subset DEF Offered
  <2> HIDE DEF D
  <2>4. /\ Cardinality(Offered(t)) = Cardinality(inflight[t]) + Cardinality(ToSet(chan[t]))
              + Cardinality(ToSet(buffer[t])) + Cardinality(dropped[t])
              + Cardinality({job[i] : i \in HeldBy(t)}) + Cardinality(done[t])
        /\ Offered(t) = inflight[t] \cup ToSet(chan[t]) \cup ToSet(buffer[t]) \cup dropped[t]
                         \cup {job[i] : i \in HeldBy(t)} \cup done[t]
    <3>1. Partitioned(Offered(t), Places(t))
      BY <2>1 DEF Placed
    <3>2. /\ Cardinality(Offered(t)) = Cardinality(Places(t).inflight)
                + Cardinality(Places(t).chan) + Cardinality(Places(t).buffer)
                + Cardinality(Places(t).dropped) + Cardinality(Places(t).held)
                + Cardinality(Places(t).done)
          /\ Offered(t) = Places(t).inflight \cup Places(t).chan \cup Places(t).buffer
                \cup Places(t).dropped \cup Places(t).held \cup Places(t).done
      BY <2>3, <3>1, PartitionCounts, PlaceNames
    <3> QED
      BY <3>2, PlaceNames
  <2>5. /\ Cardinality(ToSet(chan[t])) = Len(chan[t])
        /\ Cardinality(ToSet(buffer[t])) = Len(buffer[t])
    BY <2>1, <2>2, QueueLength DEF Placed
  <2>6. Cardinality({job[i] : i \in HeldBy(t)}) = Cardinality(HeldBy(t))
    <3> DEFINE f == [i \in HeldBy(t) |-> job[i]]
               R == {job[i] : i \in HeldBy(t)}
    <3>1. /\ f \in [HeldBy(t) -> R] /\ \A r \in R : \E x \in HeldBy(t) : f[x] = r
          /\ \A x, y \in HeldBy(t) : f[x] = f[y] => x = y
      BY <2>1 DEF Placed
    <3>2. R \subseteq D
      BY <2>1 DEF HeldBy, InstancesOf
    <3>3. IsFiniteSet(R)
      BY <2>2, <3>2, FS_Subset
    <3> HIDE DEF f, R
    <3>4. Cardinality(R) = Cardinality(HeldBy(t))
      BY <3>1, <3>3, InjectiveImage
    <3> QED
      BY <3>4 DEF R
  <2> QED
    BY <2>4, <2>5, <2>6 DEF WaitingFor
<1>2. TypeOK /\ PlacesInv => ExactlyOnce
  BY <1>1 DEF ExactlyOnce
<1> QED
  BY <1>2, TypeCorrect, PlacesInvHolds, PTL


-----------------------------------------------------------------------------
(* The dispatch as a pool of workers.                                      *)

(* All the places of an artifact are within what is stored.                *)
LEMMA PlacesBounded ==
    ASSUME IndInv, PlacesInv, NEW t \in Template
    PROVE  /\ WaitingFor(t) \subseteq DOMAIN artifacts
           /\ done[t] \cup dropped[t] \subseteq DOMAIN artifacts
           /\ WaitingFor(t) \cap (done[t] \cup dropped[t]) = {}
           /\ \A i \in InstancesOf(t) : job[i] \notin WaitingFor(t)
           /\ DOMAIN artifacts \subseteq Pointer
<1>1. Placed(t) /\ artifacts \in Seq(Artifact) /\ Len(artifacts) <= MaxArtifacts
  BY DEF IndInv, TypeOK, PlacesInv
<1>2. \A n \in DOMAIN Places(t) : Places(t)[n] \subseteq DOMAIN artifacts
  BY <1>1 DEF Placed, Partitioned, Offered
<1>3. WaitingFor(t) = Places(t).inflight \cup Places(t).chan \cup Places(t).buffer
  BY PlaceNames DEF WaitingFor
<1>4. WaitingFor(t) \cap (done[t] \cup dropped[t]) = {} /\ WaitingFor(t) \cap Places(t).held = {}
  BY <1>1, <1>3, PlaceNames DEF Placed, Partitioned
<1>5. WaitingFor(t) \subseteq DOMAIN artifacts /\ done[t] \cup dropped[t] \subseteq DOMAIN artifacts
  BY <1>2, <1>3, PlaceNames
<1>6. ASSUME NEW i \in InstancesOf(t) PROVE job[i] \notin WaitingFor(t)
  <2>1. CASE job[i] = Nil
    BY <1>5, <2>1, NilIsNoPointer
  <2>2. CASE job[i] # Nil
    BY <1>4, <2>2, PlaceNames DEF HeldBy
  <2> QED
    BY <2>1, <2>2
<1>7. DOMAIN artifacts \subseteq Pointer
  BY <1>1, StorageAssumption DEF Pointer
<1> QED
  BY <1>4, <1>5, <1>6, <1>7

(* What the pool does not see.                                             *)
LEMMA PoolStutter ==
    ASSUME UNCHANGED <<job, claim>>,
           \A t \in Template : /\ WaitingFor(t)' = WaitingFor(t)
                               /\ (done[t] \cup dropped[t])' = done[t] \cup dropped[t]
    PROVE  UNCHANGED Pool!poolVars
<1>1. {x \in Template \X Pointer : x[2] \in WaitingFor(x[1])'}
        = {x \in Template \X Pointer : x[2] \in WaitingFor(x[1])}
  OBVIOUS
<1>2. {x \in Template \X Pointer : x[2] \in (done[x[1]] \cup dropped[x[1]])'}
        = {x \in Template \X Pointer : x[2] \in done[x[1]] \cup dropped[x[1]]}
  OBVIOUS
<1> QED
  BY <1>1, <1>2 DEF Pool!poolVars

(* Storing is submitting, to all the templates that subscribe.             *)
LEMMA PublishSubmits ==
    ASSUME IndInv, PlacesInv, NEW a \in Content, PublishArtifact(a)
    PROVE  Pool!Submit \/ UNCHANGED Pool!poolVars
<1>1. AddArtifact(a) /\ UNCHANGED <<buffer, dropped, done, job, claim>>
  BY DEF PublishArtifact, queueVars, instanceVars
<1>2. CASE DropDuplicate(a)
  <2>1. UNCHANGED <<inflight, chan>>
    BY <1>2 DEF DropDuplicate, busVars
  <2> QED
    BY <1>1, <2>1, PoolStutter DEF WaitingFor
<1>3. CASE StoreNew(a)
  <2>1. PICK e : e = Len(artifacts) + 1
    OBVIOUS
  <2>2. artifacts \in Seq(Artifact) /\ Publish(a.type, e) /\ Len(artifacts) < MaxArtifacts
    BY <1>3, <2>1 DEF StoreNew, IndInv, TypeOK
  <2>3. e \notin DOMAIN artifacts /\ e # Nil
    BY <2>1, <2>2 DEF Nil
  <2>4. ASSUME NEW t \in Template
        PROVE  WaitingFor(t)' = WaitingFor(t) \cup (IF a.type \in Inputs[t] THEN {e} ELSE {})
    BY <1>1, <2>2, DispatchAssumption DEF Publish, WaitingFor
  <2>5. ASSUME NEW t \in Template
        PROVE  /\ WaitingFor(t) \subseteq DOMAIN artifacts
               /\ done[t] \cup dropped[t] \subseteq DOMAIN artifacts
    BY PlacesBounded
  <2>6. \A i \in Instance : job[i] # e
    BY <2>3 DEF IndInv, TypeOK
  <2> QED
    BY <1>1, <2>3, <2>4, <2>5, <2>6 DEF Pool!Submit, Pool!Taken
<1> QED
  BY <1>1, <1>2, <1>3 DEF AddArtifact

(* Into the channel: it waited and it waits.                               *)
LEMMA DeliverStutters ==
    ASSUME IndInv, PlacesInv, NEW s \in Subscriber, NEW e \in Pointer, DeliverEvent(s, e)
    PROVE  UNCHANGED Pool!poolVars
<1>1. /\ e \in inflight[s] /\ inflight' = [inflight EXCEPT ![s] = inflight[s] \ {e}]
      /\ chan' = [chan EXCEPT ![s] = Append(chan[s], e)]
      /\ UNCHANGED <<buffer, dropped, done, job, claim>>
  BY DEF DeliverEvent, Deliver, queueVars, instanceVars
<1>2. /\ inflight \in [Subscriber -> SUBSET DOMAIN artifacts]
      /\ chan \in [Subscriber -> Seq(DOMAIN artifacts)]
  BY DEF IndInv, TypeOK
<1>3. ASSUME NEW t \in Template PROVE WaitingFor(t)' = WaitingFor(t)
  <2>1. CASE s # t
    BY <1>1, <2>1 DEF WaitingFor
  <2>2. CASE s = t
    <3>1. /\ e \in inflight[t] /\ inflight'[t] = inflight[t] \ {e}
          /\ chan'[t] = Append(chan[t], e)
          /\ chan[t] \in Seq(DOMAIN artifacts) /\ e \in DOMAIN artifacts
      BY <1>1, <1>2, <2>2
    <3>2. IsInjective(chan[t]) /\ e \notin ToSet(chan[t])
      BY <3>1, PlaceNames, Elsewhere DEF PlacesInv, Placed
    <3>3. ToSet(chan'[t]) = ToSet(chan[t]) \cup {e}
      BY <3>1, <3>2, AppendOnce
    <3> QED
      BY <1>1, <3>1, <3>3 DEF WaitingFor
  <2> QED
    BY <2>1, <2>2
<1> QED
  BY <1>1, <1>3, PoolStutter

(* Into the queue: it waits on; out of scope: it is discarded.             *)
LEMMA ReceiveDiscards ==
    ASSUME IndInv, PlacesInv, NEW u \in Template, Receive(u)
    PROVE  Pool!Discard \/ UNCHANGED Pool!poolVars
<1>1. PICK e : e = Head(chan[u])
  OBVIOUS
<1>2. /\ chan[u] # <<>> /\ chan' = [chan EXCEPT ![u] = Tail(chan[u])]
      /\ \/ buffer' = [buffer EXCEPT ![u] = Append(buffer[u], e)] /\ UNCHANGED dropped
         \/ dropped' = [dropped EXCEPT ![u] = dropped[u] \cup {e}] /\ UNCHANGED buffer
      /\ UNCHANGED <<inflight, done, job, claim>>
  BY <1>1 DEF Receive, instanceVars
<1>3. /\ chan \in [Subscriber -> Seq(DOMAIN artifacts)] /\ u \in Subscriber
      /\ Template \subseteq Subscriber
      /\ buffer \in [Template -> Seq(DOMAIN artifacts)]
      /\ dropped \in [Template -> SUBSET DOMAIN artifacts]
      /\ chan[u] \in Seq(DOMAIN artifacts) /\ buffer[u] \in Seq(DOMAIN artifacts) /\ Placed(u)
  BY DispatchAssumption DEF IndInv, TypeOK, PlacesInv
<1>4. /\ ToSet(chan'[u]) = ToSet(chan[u]) \ {e} /\ e \in ToSet(chan[u])
      /\ e \in DOMAIN artifacts
  BY <1>1, <1>2, <1>3, TailOnce, HeadTailType DEF Placed
<1>5. e \notin inflight[u] /\ e \notin ToSet(buffer[u])
  <2>1. e \in Places(u).chan /\ "chan" \in DOMAIN Places(u)
    BY <1>4, PlaceNames
  <2> QED
    BY <1>3, <2>1, PlaceNames, Elsewhere
<1>6. \A t \in Template \ {u} : chan'[t] = chan[t]
  BY <1>2, <1>3
<1>7. CASE buffer' = [buffer EXCEPT ![u] = Append(buffer[u], e)] /\ UNCHANGED dropped
  <2>1. /\ buffer'[u] = Append(buffer[u], e)
        /\ \A t \in Template \ {u} : buffer'[t] = buffer[t]
    BY <1>3, <1>7
  <2>2. ToSet(buffer'[u]) = ToSet(buffer[u]) \cup {e}
    BY <1>3, <1>4, <1>5, <2>1, AppendOnce DEF Placed
  <2>3. \A t \in Template : WaitingFor(t)' = WaitingFor(t)
    BY <1>2, <1>4, <1>6, <2>1, <2>2 DEF WaitingFor
  <2> QED
    BY <1>2, <1>7, <2>3, PoolStutter
<1>8. CASE dropped' = [dropped EXCEPT ![u] = dropped[u] \cup {e}] /\ UNCHANGED buffer
  <2>1. /\ WaitingFor(u)' = WaitingFor(u) \ {e} /\ e \in WaitingFor(u)
        /\ \A t \in Template \ {u} : WaitingFor(t)' = WaitingFor(t)
    BY <1>2, <1>4, <1>5, <1>6, <1>8 DEF WaitingFor
  <2>2. /\ (done[u] \cup dropped[u])' = (done[u] \cup dropped[u]) \cup {e}
        /\ \A t \in Template \ {u} : (done[t] \cup dropped[t])' = done[t] \cup dropped[t]
    BY <1>2, <1>3, <1>8
  <2>3. <<u, e>> \in {x \in Template \X Pointer : x[2] \in WaitingFor(x[1])}
    BY <1>4, <2>1, PlacesBounded
  <2>4. {x \in Template \X Pointer : x[2] \in WaitingFor(x[1])'}
          = {x \in Template \X Pointer : x[2] \in WaitingFor(x[1])} \ {<<u, e>>}
    BY <2>1
  <2>5. {x \in Template \X Pointer : x[2] \in (done[x[1]] \cup dropped[x[1]])'}
          = {x \in Template \X Pointer : x[2] \in done[x[1]] \cup dropped[x[1]]} \cup {<<u, e>>}
    BY <2>2, <2>3
  <2> QED
    BY <1>2, <2>3, <2>4, <2>5 DEF Pool!Discard
<1> QED
  BY <1>2, <1>7, <1>8

(* Out of the queue and back: it waits.                                    *)
LEMMA ReturnStutters ==
    ASSUME IndInv, PlacesInv, NEW u \in Template, PopAndReturn(u)
    PROVE  UNCHANGED Pool!poolVars
<1>1. PICK p \in Poppable(u) :
        buffer' = [buffer EXCEPT ![u] = <<buffer[u][p]>> \o RemoveAt(buffer[u], p)]
  BY DEF PopAndReturn
<1>2. UNCHANGED <<inflight, chan, dropped, done, job, claim>>
  BY DEF PopAndReturn, storageVars, instanceVars
<1>3. /\ buffer \in [Template -> Seq(DOMAIN artifacts)] /\ buffer[u] \in Seq(DOMAIN artifacts)
      /\ IsInjective(buffer[u])
  BY DEF IndInv, TypeOK, PlacesInv, Placed
<1>4. /\ p \in DOMAIN buffer[u] /\ buffer[u][p] \in DOMAIN artifacts
      /\ RemoveAt(buffer[u], p) \in Seq(DOMAIN artifacts)
  BY PoppedArtifact
<1>5. /\ ToSet(RemoveAt(buffer[u], p)) = ToSet(buffer[u]) \ {buffer[u][p]}
      /\ IsInjective(RemoveAt(buffer[u], p))
      /\ buffer[u][p] \in ToSet(buffer[u]) /\ buffer[u][p] \notin ToSet(RemoveAt(buffer[u], p))
  BY <1>3, <1>4, RemoveOnce
<1>6. /\ buffer'[u] = <<buffer[u][p]>> \o RemoveAt(buffer[u], p)
      /\ \A t \in Template \ {u} : buffer'[t] = buffer[t]
  BY <1>1, <1>3
<1>7. ToSet(buffer'[u]) = ToSet(RemoveAt(buffer[u], p)) \cup {buffer[u][p]}
  BY <1>4, <1>5, <1>6, PrependOnce
<1>8. ToSet(buffer'[u]) = ToSet(buffer[u])
  BY <1>5, <1>7
<1>9. \A t \in Template : WaitingFor(t)' = WaitingFor(t)
  BY <1>2, <1>6, <1>8 DEF WaitingFor
<1> QED
  BY <1>2, <1>9, PoolStutter

(* The hand-off starts an assignment under a claim nobody has.             *)
LEMMA HandOffStarts ==
    ASSUME IndInv, PlacesInv, NEW u \in Template, NEW i \in Instance, HandOff(u, i)
    PROVE  Pool!Start(i)
<1>1. PICK p \in Poppable(u) :
        /\ buffer' = [buffer EXCEPT ![u] = RemoveAt(buffer[u], p)]
        /\ job' = [job EXCEPT ![i] = buffer[u][p]]
        /\ claim' = [claim EXCEPT ![i] = QueueKey(u, buffer[u][p])]
  BY DEF HandOff
<1>2. PICK e, c : e = buffer[u][p] /\ c = QueueKey(u, buffer[u][p])
  OBVIOUS
<1>3. /\ TemplateOf[i] = u /\ job[i] = Nil
      /\ UNCHANGED <<inflight, chan, dropped, done>>
  BY DEF HandOff, IndInv, Occupied, storageVars
<1>4. /\ p \in DOMAIN buffer[u] /\ e \in DOMAIN artifacts /\ e # Nil
      /\ c \in LimiterKey /\ ~Allocated(limiter, c)
  BY <1>2, PoppedArtifact, NilIsNoPointer
<1>5. /\ buffer \in [Template -> Seq(DOMAIN artifacts)] /\ buffer[u] \in Seq(DOMAIN artifacts)
      /\ job \in [Instance -> DOMAIN artifacts \cup {Nil}]
      /\ claim \in [Instance -> LimiterKey] /\ Placed(u)
  BY DEF IndInv, TypeOK, PlacesInv
<1>6. /\ buffer'[u] = RemoveAt(buffer[u], p)
      /\ \A t \in Template \ {u} : buffer'[t] = buffer[t]
  BY <1>1, <1>5
<1>7. ToSet(buffer'[u]) = ToSet(buffer[u]) \ {e} /\ e \in ToSet(buffer[u])
  BY <1>2, <1>4, <1>5, <1>6, RemoveOnce DEF Placed
<1>8. e \notin inflight[u] /\ e \notin ToSet(chan[u])
  <2>1. e \in Places(u).buffer /\ "buffer" \in DOMAIN Places(u)
    BY <1>7, PlaceNames
  <2> QED
    BY <1>5, <2>1, PlaceNames, Elsewhere
<1>9. /\ WaitingFor(u)' = WaitingFor(u) \ {e} /\ e \in WaitingFor(u)
      /\ \A t \in Template \ {u} : WaitingFor(t)' = WaitingFor(t)
  BY <1>3, <1>6, <1>7, <1>8 DEF WaitingFor
<1>10. <<u, e>> \in {x \in Template \X Pointer : x[2] \in WaitingFor(x[1])}
  BY <1>4, <1>9, PlacesBounded
<1>11. {x \in Template \X Pointer : x[2] \in WaitingFor(x[1])'}
         = {x \in Template \X Pointer : x[2] \in WaitingFor(x[1])} \ {<<u, e>>}
  BY <1>9
<1>12. c # NoKey => \A j \in Instance : claim[j] # c
  BY <1>4 DEF IndInv, ClaimsAllocated
<1>13. /\ job'[i] = e /\ \A j \in Instance \ {i} : job'[j] = job[j]
       /\ claim' = [claim EXCEPT ![i] = c]
  BY <1>1, <1>2, <1>5
<1> DEFINE running == [j \in Instance |-> IF job[j] = Nil THEN {} ELSE {<<TemplateOf[j], job[j]>>}]
<1>14. running[i] = {} /\ running'[i] = {<<u, e>>}
  BY <1>3, <1>4, <1>13
<1>15. \A j \in Instance \ {i} : running'[j] = running[j]
  BY <1>13
<1>16. running' = [running EXCEPT ![i] = {<<u, e>>}]
  BY <1>14, <1>15
<1> QED
  BY <1>3, <1>4, <1>10, <1>11, <1>12, <1>13, <1>14, <1>16 DEF Pool!Start

(* The end of a task finishes the assignment and gives up the claim.       *)
LEMMA FinishTaskFinishes ==
    ASSUME IndInv, NEW i \in Instance, WaitForFinishTask(i)
    PROVE  Pool!Finish(i)
<1>1. PICK u \in Template : u = TemplateOf[i]
  BY DispatchAssumption
<1>2. PICK e : e = job[i]
  OBVIOUS
<1>3. /\ e # Nil /\ done' = [done EXCEPT ![u] = @ \cup {e}] /\ job' = [job EXCEPT ![i] = Nil]
      /\ claim' = [claim EXCEPT ![i] = NoKey]
      /\ UNCHANGED <<inflight, chan, buffer, dropped>>
  BY <1>1, <1>2 DEF WaitForFinishTask, IndInv, Occupied, storageVars
<1>4. /\ job \in [Instance -> DOMAIN artifacts \cup {Nil}] /\ e \in DOMAIN artifacts
      /\ done \in [Template -> SUBSET DOMAIN artifacts]
      /\ DOMAIN artifacts \subseteq Pointer
  <2>1. /\ artifacts \in Seq(Artifact) /\ Len(artifacts) <= MaxArtifacts
        /\ job \in [Instance -> DOMAIN artifacts \cup {Nil}]
        /\ done \in [Template -> SUBSET DOMAIN artifacts]
    BY DEF IndInv, TypeOK
  <2>2. DOMAIN artifacts \subseteq Pointer
    BY <2>1, StorageAssumption DEF Pointer
  <2>3. e \in DOMAIN artifacts
    BY <1>2, <1>3, <2>1
  <2> QED
    BY <2>1, <2>2, <2>3
<1>5. job'[i] = Nil /\ \A j \in Instance \ {i} : job'[j] = job[j]
  BY <1>3, <1>4
<1> DEFINE running == [j \in Instance |-> IF job[j] = Nil THEN {} ELSE {<<TemplateOf[j], job[j]>>}]
           finished == {x \in Template \X Pointer : x[2] \in done[x[1]] \cup dropped[x[1]]}
<1>6. running' = [running EXCEPT ![i] = {}] /\ running[i] = {<<u, e>>}
  BY <1>1, <1>2, <1>3, <1>5
<1>7. /\ done'[u] = done[u] \cup {e} /\ \A t \in Template \ {u} : done'[t] = done[t]
      /\ <<u, e>> \in Template \X Pointer
  BY <1>3, <1>4
<1>8. finished' = finished \cup {<<u, e>>}
  BY <1>3, <1>7
<1>9. \A t : WaitingFor(t)' = WaitingFor(t)
  BY <1>3 DEF WaitingFor
<1>10. {x \in Template \X Pointer : x[2] \in WaitingFor(x[1])'}
         = {x \in Template \X Pointer : x[2] \in WaitingFor(x[1])}
  BY <1>9
<1> QED
  BY <1>3, <1>6, <1>8, <1>10 DEF Pool!Finish

(* Every step of the dispatch is a step of the pool, or none.              *)
LEMMA PoolStep ==
    ASSUME IndInv, PlacesInv, [Next]_dispatchVars
    PROVE  [Pool!Next]_(Pool!poolVars)
<1>1. ASSUME UNCHANGED <<inflight, chan, buffer, dropped, done, job, claim>>
      PROVE  UNCHANGED Pool!poolVars
  BY <1>1, PoolStutter DEF WaitingFor
<1>2. CASE UNCHANGED dispatchVars
  BY <1>1, <1>2 DEF dispatchVars, storageVars, queueVars, instanceVars
<1>3. ASSUME NEW i \in Instance, Run(i) PROVE Pool!Finish(i) \/ UNCHANGED Pool!poolVars
  <2>1. CASE WaitForFinishTask(i)
    BY <2>1, FinishTaskFinishes
  <2>2. CASE ~WaitForFinishTask(i)
    BY <1>1, <1>3, <2>2
    DEF Run, WaitForRegister, SetBusy, SendArtifact, UnsetBusy, storageVars, queueVars
  <2> QED
    BY <2>1, <2>2
<1>4. ASSUME NEW i \in Instance,
             SlaveRegister(i) \/ SlaveFinishTask(i) \/ SlaveCrash(i)
      PROVE  UNCHANGED Pool!poolVars
  BY <1>1, <1>4 DEF SlaveRegister, SlaveFinishTask, SlaveCrash,
                    storageVars, queueVars, instanceVars
<1>5. CASE HandleScannerInstanceMsg
  BY <1>1, <1>5 DEF HandleScannerInstanceMsg, storageVars, queueVars, instanceVars
<1>6. ASSUME NEW a \in Content, PublishArtifact(a) PROVE [Pool!Next]_(Pool!poolVars)
  BY <1>6, PublishSubmits DEF Pool!Next
<1>7. ASSUME NEW t \in Template, Receive(t) \/ PopAndReturn(t)
      PROVE  [Pool!Next]_(Pool!poolVars)
  BY <1>7, ReceiveDiscards, ReturnStutters DEF Pool!Next
<1>8. ASSUME NEW t \in Template, NEW i \in Instance, HandOff(t, i)
      PROVE  [Pool!Next]_(Pool!poolVars)
  BY <1>8, HandOffStarts DEF Pool!Next
<1>9. ASSUME NEW s \in Subscriber, NEW e \in Pointer, DeliverEvent(s, e)
      PROVE  [Pool!Next]_(Pool!poolVars)
  BY <1>9, DeliverStutters
<1>10. ASSUME NEW i \in Instance, Run(i) PROVE [Pool!Next]_(Pool!poolVars)
  BY <1>3, <1>10 DEF Pool!Next
<1> QED
  BY <1>2, <1>4, <1>5, <1>6, <1>7, <1>8, <1>9, <1>10 DEF Next

(* Nothing waits at the start.                                             *)
LEMMA PoolInit == Init => Pool!Init
<1> SUFFICES ASSUME Init PROVE Pool!Init
  OBVIOUS
<1>1. \A t \in Template : WaitingFor(t) = {}
  BY DispatchAssumption DEF Init, BusInit, TemplateInit, WaitingFor, ToSet
<1>2. \A t \in Template : done[t] \cup dropped[t] = {}
  BY DEF Init, TemplateInit, InstanceInit
<1>3. {x \in Template \X Pointer : x[2] \in WaitingFor(x[1])} = {}
  BY <1>1
<1>4. {x \in Template \X Pointer : x[2] \in done[x[1]] \cup dropped[x[1]]} = {}
  BY <1>2
<1>5. /\ [i \in Instance |-> IF job[i] = Nil THEN {} ELSE {<<TemplateOf[i], job[i]>>}]
            = [i \in Instance |-> {}]
      /\ claim = [i \in Instance |-> NoKey]
  BY DEF Init, InstanceInit
<1> QED
  BY <1>3, <1>4, <1>5 DEF Pool!Init

(* The dispatch implements the pool: an artifact is taken up by at most one*)
(* instance of a template, under a claim no other instance has, and what   *)
(* is finished or dropped never comes back.                                *)
THEOREM PoolImplemented == Spec => ImplementsPool
<1>1. IndInv /\ PlacesInv /\ [Next]_dispatchVars => [Pool!Next]_(Pool!poolVars)
  BY PoolStep
<1> QED
  BY <1>1, PoolInit, IndInvHolds, PlacesInvHolds, PTL DEF Spec, ImplementsPool, Pool!Spec

-----------------------------------------------------------------------------
(* The invariant that carries all of the above: the claims of the          *)
(* instances, their conversations with the containers and the places of    *)
(* the artifacts.                                                          *)
THEOREM DispatchInvHolds == Spec => []DispatchInv
<1>1. IndInv /\ ProtocolInv /\ PlacesInv => DispatchInv
  BY DEF DispatchInv
<1> QED
  BY <1>1, IndInvHolds, ProtocolInvHolds, PlacesInvHolds, PTL

-----------------------------------------------------------------------------
(* What is allocated, and what is freed.                                   *)

(* Allocate and Release change the allocation of their own key only.       *)
LEMMA AllocatedOnlyIt ==
    ASSUME NEW l \in Limiter, NEW k \in LimiterKey, NEW j \in LimiterKey
    PROVE  /\ Allocated(Allocate(l, k), j) => Allocated(l, j) \/ j = k
           /\ Allocated(Release(l, k), j) => Allocated(l, j) /\ j # k
<1>1. CASE k = NoKey
  BY <1>1 DEF NoKey, Allocate, Release, Allocated
<1>2. ASSUME NEW d \in Name, k = DomainKey(d)
      PROVE  /\ Allocate(l, k).domains = l.domains \cup {d}
             /\ Allocate(l, k).ips = l.ips
             /\ Release(l, k).domains = l.domains \ {d}
             /\ Release(l, k).ips = l.ips
  BY <1>2 DEF DomainKey, Allocate, Release, SetDomainInUse, setVserverInUse,
              ReleaseDomain, Limiter
<1>3. ASSUME NEW ip \in IP, k = IPKey(ip)
      PROVE  /\ Allocate(l, k).domains = l.domains
             /\ Allocate(l, k).ips = l.ips \cup {ip}
             /\ Release(l, k).domains = l.domains
             /\ Release(l, k).ips = l.ips \ {ip}
  BY <1>3 DEF IPKey, Allocate, Release, SetIPInUse, ReleaseIP, Limiter
<1>4. CASE \E d \in Name : k = DomainKey(d)
  BY <1>2, <1>4 DEF DomainKey, IPKey, NoKey, LimiterKey, Allocated
<1>5. CASE \E ip \in IP : k = IPKey(ip)
  BY <1>3, <1>5 DEF DomainKey, IPKey, NoKey, LimiterKey, Allocated
<1> QED
  BY <1>1, <1>4, <1>5 DEF LimiterKey

(* A merge takes a site out of a URL for good, and as long as it does not, *)
(* the artifact keeps its key.                                             *)
LEMMA MergeOfSite ==
    ASSUME NEW a, NEW b, WellTyped(a), WellTyped(b), Duplicates(b, a),
           Merge(b, a).url # None => Merge(b, a).url.host # None
    PROVE  /\ b.url # None => b.url.host # None
           /\ Merge(b, a).type = b.type
           /\ \A type \in RateLimitTypes : LimitKey(type, Merge(b, a)) = LimitKey(type, b)
<1> DEFINE m == Merge(b, a)
<1>1. CASE a.type # "technology"
  BY <1>1 DEF Merge
<1>2. CASE a.type = "technology"
  <2>1. /\ b.type = "technology" /\ b.ip = None
        /\ HostOf(b.url) = HostOf(a.url) /\ HostOf(b.url) # None
    BY <1>2 DEF Duplicates, GetDomainFromArtifact, WellTyped
  <2>2. a.url \in URL /\ b.url \in URL /\ b \in Artifact
    BY <2>1 DEF HostOf, WellTyped, Artifact
  <2>3. unifyURL(b.url, a.url) \in URL /\ HostOf(unifyURL(b.url, a.url)) \in {HostOf(b.url), None}
    BY <2>1, <2>2, URLAssumption DEF unifyURL, HostOf, URL
  <2>4. /\ m.type = b.type /\ m.value = b.value /\ m.ip = b.ip
        /\ m.url \in {b.url, unifyURL(b.url, a.url)}
    BY <1>2, <2>2 DEF Merge, Artifact
  <2>5. m.url \in URL /\ HostOf(m.url) \in {HostOf(b.url), None}
    BY <2>2, <2>3, <2>4
  <2>6. HostOf(m.url) = HostOf(b.url)
    BY <2>5, URLAssumption DEF HostOf
  <2>7. /\ GetDomainFromArtifact(b) = GetDomainFromArtifact(m)
        /\ GetIPFromArtifact(b) = GetIPFromArtifact(m)
    BY <2>1, <2>4, <2>6 DEF GetDomainFromArtifact, GetIPFromArtifact, ValueIP
  <2> QED
    BY <2>1, <2>2, <2>4, <2>7, URLAssumption DEF LimitKey, HostOf
<1> QED
  BY <1>1, <1>2

(* The same for the storage as a whole.                                    *)
LEMMA StoreOfSites ==
    ASSUME IndInv, NEW a, WellFormed(a), AddArtifact(a), StoredURLNamesSite'
    PROVE  /\ StoredURLNamesSite
           /\ \A e \in DOMAIN artifacts : /\ artifacts'[e].type = artifacts[e].type
                  /\ \A type \in RateLimitTypes :
                        LimitKey(type, artifacts'[e]) = LimitKey(type, artifacts[e])
<1>1. artifacts \in Seq(Artifact) /\ StoredWellTyped /\ WellTyped(a)
  BY DispatchAssumption DEF IndInv, TypeOK, WellFormed
<1>2. CASE DropDuplicate(a)
  <2>1. PICK k \in DOMAIN artifacts :
          /\ Duplicates(artifacts[k], a)
          /\ artifacts' = [artifacts EXCEPT ![k] = Merge(artifacts[k], a)]
    BY <1>2 DEF DropDuplicate
  <2>2. /\ DOMAIN artifacts' = DOMAIN artifacts
        /\ artifacts'[k] = Merge(artifacts[k], a)
        /\ \A e \in DOMAIN artifacts \ {k} : artifacts'[e] = artifacts[e]
    BY <1>1, <2>1
  <2>3. /\ artifacts[k].url # None => artifacts[k].url.host # None
        /\ artifacts'[k].type = artifacts[k].type
        /\ \A type \in RateLimitTypes :
              LimitKey(type, artifacts'[k]) = LimitKey(type, artifacts[k])
    BY <1>1, <2>1, <2>2, MergeOfSite DEF StoredURLNamesSite, StoredWellTyped
  <2> QED
    BY <2>2, <2>3 DEF StoredURLNamesSite
<1>3. CASE StoreNew(a)
  <2>1. \A e \in DOMAIN artifacts : artifacts'[e] = artifacts[e] /\ e \in DOMAIN artifacts'
    BY <1>1, <1>3 DEF StoreNew
  <2> QED
    BY <2>1 DEF StoredURLNamesSite
<1> QED
  BY <1>2, <1>3 DEF AddArtifact

(* The key of an artifact a template takes is freed as it was allocated.   *)
LEMMA FreedKey ==
    ASSUME IndInv, PlacesInv, InputsFreed, NEW t \in Template, NEW e,
           e \in ToSet(buffer[t])
    PROVE  FreeKey(RateLimitType[t], artifacts[e]) = QueueKey(t, e)
<1>1. e \in Offered(t)
  <2>1. "buffer" \in DOMAIN Places(t) /\ e \in Places(t).buffer
    BY PlaceNames
  <2> QED
    BY <2>1 DEF PlacesInv, Placed, Partitioned
<1>2. RateLimitType[t] = "disabled" \/ IsRateLimitedArtifact(artifacts[e])
  BY <1>1 DEF InputsFreed, Offered, IsRateLimitedArtifact
<1> QED
  BY <1>2 DEF FreeKey, QueueKey, LimitKey

(* No step leaves a key allocated that it takes from an instance.          *)
LEMMA NextLeakInv ==
    ASSUME InputsFreed, IndInv, PlacesInv, LeakInv, [Next]_dispatchVars
    PROVE  LeakInv'
<1> SUFFICES ASSUME StoredURLNamesSite' PROVE NoLeakedKey' /\ FreesItsKey'
  BY DEF LeakInv
<1>1. /\ job \in [Instance -> DOMAIN artifacts \cup {Nil}]
      /\ claim \in [Instance -> LimiterKey] /\ limiter \in Limiter
      /\ TemplateOf \in [Instance -> Template] /\ RateLimitType \in [Template -> RateLimitTypes]
  BY DispatchAssumption DEF IndInv, TypeOK
<1>2. ASSUME NEW a \in Content, PublishArtifact(a) PROVE NoLeakedKey' /\ FreesItsKey'
  <2>1. AddArtifact(a) /\ UNCHANGED <<limiter, job, claim>>
    BY <1>2 DEF PublishArtifact, queueVars, instanceVars
  <2>2. /\ NoLeakedKey /\ FreesItsKey
        /\ \A e \in DOMAIN artifacts : /\ artifacts'[e].type = artifacts[e].type
               /\ \A type \in RateLimitTypes :
                     LimitKey(type, artifacts'[e]) = LimitKey(type, artifacts[e])
    BY <2>1, StoreOfSites, DispatchAssumption DEF LeakInv
  <2>3. \A e \in DOMAIN artifacts, type \in RateLimitTypes :
          FreeKey(type, artifacts'[e]) = FreeKey(type, artifacts[e])
    BY <2>2 DEF FreeKey, IsRateLimitedArtifact
  <2> QED
    BY <1>1, <2>1, <2>2, <2>3 DEF NoLeakedKey, FreesItsKey
<1>3. CASE ~\E a \in Content : PublishArtifact(a)
  <2>1. artifacts' = artifacts /\ NoLeakedKey /\ FreesItsKey
    BY <1>3, OnlyPublishStores DEF LeakInv, StoredURLNamesSite
  <2>2. ASSUME UNCHANGED <<limiter, job, claim>> PROVE NoLeakedKey' /\ FreesItsKey'
    BY <2>1, <2>2 DEF NoLeakedKey, FreesItsKey
  <2>3. ASSUME NEW t \in Template, NEW i \in Instance, HandOff(t, i)
        PROVE  NoLeakedKey' /\ FreesItsKey'
    <3>1. PICK p \in Poppable(t) :
            /\ limiter' = Allocate(limiter, QueueKey(t, buffer[t][p]))
            /\ job' = [job EXCEPT ![i] = buffer[t][p]]
            /\ claim' = [claim EXCEPT ![i] = QueueKey(t, buffer[t][p])]
      BY <2>3 DEF HandOff
    <3>2. PICK e, k : e = buffer[t][p] /\ k = QueueKey(t, e)
      OBVIOUS
    <3>3. /\ TemplateOf[i] = t /\ claim[i] = NoKey
          /\ p \in DOMAIN buffer[t] /\ k \in LimiterKey
      BY <2>3, <3>2, PoppedArtifact DEF HandOff, IndInv, Occupied, ClaimsMatch
    <3>4. FreeKey(RateLimitType[t], artifacts[e]) = k
      <4>1. e \in ToSet(buffer[t])
        BY <3>2, <3>3 DEF ToSet
      <4> QED
        BY <3>2, <4>1, FreedKey
    <3>5. /\ claim'[i] = k /\ job'[i] = e
          /\ \A j \in Instance \ {i} : claim'[j] = claim[j] /\ job'[j] = job[j]
      BY <1>1, <3>1, <3>2
    <3>6. FreesItsKey'
      BY <2>1, <3>3, <3>4, <3>5 DEF FreesItsKey
    <3>7. ASSUME NEW j \in LimiterKey, Allocated(limiter', j)
          PROVE  \E h \in Instance : claim'[h] = j
      <4>1. Allocated(limiter, j) \/ j = k
        BY <1>1, <3>1, <3>2, <3>3, <3>7, AllocatedOnlyIt
      <4>2. ~Allocated(limiter, NoKey)
        BY DEF Allocated, NoKey
      <4> QED
        BY <2>1, <3>3, <3>5, <4>1, <4>2 DEF NoLeakedKey
    <3> QED
      BY <3>6, <3>7 DEF NoLeakedKey
  <2>4. ASSUME NEW t \in Template, PopAndReturn(t) PROVE NoLeakedKey' /\ FreesItsKey'
    <3>1. PICK p \in Poppable(t) :
            limiter' = Release(Allocate(limiter, QueueKey(t, buffer[t][p])), QueueKey(t, buffer[t][p]))
      BY <2>4 DEF PopAndReturn
    <3>2. PICK k \in LimiterKey : k = QueueKey(t, buffer[t][p])
      BY PoppedArtifact
    <3>3. UNCHANGED <<job, claim>> /\ Allocate(limiter, k) \in Limiter
      BY <1>1, <2>4, AllocateRelease DEF PopAndReturn, instanceVars
    <3>4. \A j \in LimiterKey : Allocated(limiter', j) => Allocated(limiter, j)
      BY <1>1, <3>1, <3>2, <3>3, AllocatedOnlyIt
    <3> QED
      BY <2>1, <3>3, <3>4 DEF NoLeakedKey, FreesItsKey
  <2>5. ASSUME NEW i \in Instance, WaitForFinishTask(i) PROVE NoLeakedKey' /\ FreesItsKey'
    <3>1. /\ job[i] # Nil /\ limiter' = Release(limiter, claim[i])
          /\ job' = [job EXCEPT ![i] = Nil] /\ claim' = [claim EXCEPT ![i] = NoKey]
      BY <2>1, <2>5 DEF WaitForFinishTask, FreeRateLimitAllocation, FreesItsKey, IndInv, Occupied
    <3>2. /\ job'[i] = Nil
          /\ \A j \in Instance \ {i} : claim'[j] = claim[j] /\ job'[j] = job[j]
      BY <1>1, <3>1
    <3>3. \A k \in LimiterKey : Allocated(limiter', k) => Allocated(limiter, k) /\ k # claim[i]
      BY <1>1, <3>1, AllocatedOnlyIt
    <3> QED
      BY <2>1, <3>2, <3>3 DEF NoLeakedKey, FreesItsKey
  <2>6. ASSUME NEW i \in Instance, Run(i) PROVE NoLeakedKey' /\ FreesItsKey'
    BY <2>2, <2>5, <2>6 DEF Run, WaitForRegister, SetBusy, SendArtifact, UnsetBusy, queueVars
  <2>7. ASSUME NEW i \in Instance,
               SlaveRegister(i) \/ SlaveFinishTask(i) \/ SlaveCrash(i)
        PROVE  NoLeakedKey' /\ FreesItsKey'
    BY <2>2, <2>7 DEF SlaveRegister, SlaveFinishTask, SlaveCrash, queueVars, instanceVars
  <2>8. ASSUME NEW s \in Subscriber, NEW e \in Pointer, DeliverEvent(s, e)
        PROVE  NoLeakedKey' /\ FreesItsKey'
    BY <2>2, <2>8 DEF DeliverEvent, queueVars, instanceVars
  <2>9. ASSUME NEW t \in Template, Receive(t) PROVE NoLeakedKey' /\ FreesItsKey'
    BY <2>2, <2>9 DEF Receive, instanceVars
  <2>10. CASE HandleScannerInstanceMsg
    BY <2>2, <2>10 DEF HandleScannerInstanceMsg, queueVars, instanceVars
  <2>11. CASE UNCHANGED dispatchVars
    BY <2>2, <2>11 DEF dispatchVars, queueVars, instanceVars
  <2> QED
    BY <1>3, <2>3, <2>4, <2>6, <2>7, <2>8, <2>9, <2>10, <2>11 DEF Next
<1> QED
  BY <1>2, <1>3

(* As long as every stored URL names its site, no key stays allocated that *)
(* no instance works under, given that rate-limited templates subscribe to *)
(* nothing whose key FreeRateLimitAllocation does not free.                *)
THEOREM NothingLeaked ==
    ASSUME InputsFreed
    PROVE  Spec => [](StoredURLNamesSite => NoLeakedKey)
<1>1. Init => LeakInv
  BY DEF Init, TemplateInit, InstanceInit, NewLimiter, LeakInv, NoLeakedKey, FreesItsKey, Allocated
<1>2. IndInv /\ PlacesInv /\ LeakInv /\ [Next]_dispatchVars => LeakInv'
  BY NextLeakInv
<1>3. LeakInv => (StoredURLNamesSite => NoLeakedKey)
  BY DEF LeakInv
<1> QED
  BY <1>1, <1>2, <1>3, IndInvHolds, PlacesInvHolds, PTL DEF Spec
=============================================================================
