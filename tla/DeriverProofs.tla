---------------------------- MODULE DeriverProofs ----------------------------
(***************************************************************************)
(* Proofs about the artifact deriver: the join of domains and hosts is     *)
(* complete, a host is derived once, and what it takes to end the process. *)
(***************************************************************************)
EXTENDS Deriver, FiniteSetTheorems, TLAPS

-----------------------------------------------------------------------------
(* What generateNewArtifacts publishes.                                    *)

Published == [type : {"domain", "host"}, name : Name,
              port : Port \cup {None}, derived : BOOLEAN]

(* A finite set becomes a sequence that lists each element once.           *)
LEMMA Listed ==
    ASSUME NEW S, IsFiniteSet(S)
    PROVE  /\ Cardinality(S) \in Nat
           /\ SetToSeq(S) \in [1..Cardinality(S) -> S]
           /\ \A m, n \in 1..Cardinality(S) : SetToSeq(S)[m] = SetToSeq(S)[n] => m = n
<1>1. Cardinality(S) \in Nat /\ ExistsBijection(1..Cardinality(S), S)
  BY FS_CardinalityType
<1>2. \E f \in [1..Cardinality(S) -> S] : IsInjective(f)
  BY <1>1 DEF ExistsBijection, Bijection, Injection
<1>3. SetToSeq(S) \in [1..Cardinality(S) -> S] /\ IsInjective(SetToSeq(S))
  BY <1>2 DEF SetToSeq
<1> QED
  BY <1>1, <1>3 DEF IsInjective

(* The hosts derived from finitely many pairs are finitely many.           *)
LEMMA FinitelyDerived ==
    ASSUME NEW H, IsFiniteSet(H)
    PROVE  IsFiniteSet({Derived(h[1], h[2]) : h \in H})
<1> DEFINE T == {Derived(h[1], h[2]) : h \in H}
           f == [h \in H |-> Derived(h[1], h[2])]
<1>1. f \in Surjection(H, T)
  BY DEF Surjection
<1> QED
  BY <1>1, FS_Surjection

(* Two sequences in a row.                                                 *)
LEMMA Chained ==
    ASSUME NEW S, NEW s \in Seq(S), NEW t \in Seq(S)
    PROVE  /\ s \o t \in Seq(S) /\ Len(s) \in Nat /\ Len(t) \in Nat
           /\ DOMAIN s = 1..Len(s) /\ DOMAIN (s \o t) = 1..Len(s) + Len(t)
           /\ \A n \in 1..Len(s) : (s \o t)[n] = s[n]
           /\ \A n \in Len(s) + 1..Len(s) + Len(t) :
                 n - Len(s) \in 1..Len(t) /\ (s \o t)[n] = t[n - Len(s)]
  OBVIOUS

LEMMA Generated ==
    ASSUME DeriverTypeOK, NEW doms \in SUBSET Domain, NEW ports \in SUBSET Port,
           IsFiniteSet(doms), IsFiniteSet(ports), NEW known,
           generateNewArtifacts(doms, ports, known)
    PROVE  /\ knownHosts' = known \cup (doms \X ports)
           /\ published' \in Seq(Published)
           /\ inflight' \in [Subscriber -> SUBSET DOMAIN published']
           /\ \A n \in DOMAIN published : n \in DOMAIN published' /\ published'[n] = published[n]
           /\ \A n \in DOMAIN published' \ DOMAIN published :
                 /\ published'[n].type = "host" /\ published'[n].derived = TRUE
                 /\ <<published'[n].name, published'[n].port>> \in (doms \X ports) \ known
           /\ \A m, n \in DOMAIN published' \ DOMAIN published :
                 published'[m] = published'[n] => m = n
<1> DEFINE new == (doms \X ports) \ known
           H == {Derived(h[1], h[2]) : h \in new}
           t == SetToSeq(H)
<1>1. IsFiniteSet(H)
  BY FS_Product, FS_Difference, FinitelyDerived
<1>2. H \subseteq Published
  <2>1. \A h \in new : h[1] \in Name /\ h[2] \in Port
    BY DEF Name
  <2>2. ASSUME NEW d \in Name, NEW p \in Port PROVE Derived(d, p) \in Published
    BY DEF Derived, Published
  <2> QED
    BY <2>1, <2>2
<1>3. \A x \in H : /\ x.type = "host" /\ x.derived = TRUE
                   /\ <<x.name, x.port>> \in new
  <2> SUFFICES ASSUME NEW h \in new
               PROVE  /\ Derived(h[1], h[2]).type = "host" /\ Derived(h[1], h[2]).derived = TRUE
                      /\ <<Derived(h[1], h[2]).name, Derived(h[1], h[2]).port>> = h
    OBVIOUS
  <2> QED
    BY DEF Derived
<1>4. /\ Cardinality(H) \in Nat /\ t \in [1..Cardinality(H) -> H]
      /\ \A m, n \in 1..Cardinality(H) : t[m] = t[n] => m = n
  BY <1>1, Listed
<1> HIDE DEF H, t
<1>5. /\ t \in Seq(Published) /\ Len(t) = Cardinality(H) /\ \A n \in 1..Len(t) : t[n] \in H
  BY <1>2, <1>4
<1>6. published \in Seq(Published)
  BY DEF DeriverTypeOK, Published
<1>7. published' = published \o t
  BY DEF generateNewArtifacts, H, t
<1>8. DOMAIN published' \ DOMAIN published = Len(published) + 1..Len(published) + Len(t)
  BY <1>5, <1>6, <1>7, Chained
<1>9. \A n \in DOMAIN published' \ DOMAIN published :
         n - Len(published) \in 1..Len(t) /\ published'[n] = t[n - Len(published)]
  BY <1>5, <1>6, <1>7, <1>8, Chained
<1>10. \A n \in DOMAIN published' \ DOMAIN published :
          /\ published'[n].type = "host" /\ published'[n].derived = TRUE
          /\ <<published'[n].name, published'[n].port>> \in new
  BY <1>3, <1>5, <1>9
<1>11. ASSUME NEW m \in DOMAIN published' \ DOMAIN published,
              NEW n \in DOMAIN published' \ DOMAIN published, published'[m] = published'[n]
       PROVE  m = n
  <2>1. m - Len(published) = n - Len(published)
    BY <1>4, <1>5, <1>9, <1>11
  <2>2. m \in Nat /\ n \in Nat /\ Len(published) \in Nat
    BY <1>5, <1>6, <1>8
  <2> QED
    BY <2>1, <2>2
<1>12. inflight' \in [Subscriber -> SUBSET DOMAIN published']
  <2>1. /\ inflight \in [Subscriber -> SUBSET DOMAIN published]
        /\ DOMAIN published \subseteq DOMAIN published'
    BY <1>5, <1>6, <1>7, Chained DEF DeriverTypeOK
  <2>2. inflight' = [inflight EXCEPT !["deriver"] = @ \cup (DOMAIN published' \ DOMAIN published)]
    BY <1>8 DEF generateNewArtifacts, H, t
  <2> QED
    BY <2>1, <2>2
<1>13. /\ published' \in Seq(Published)
       /\ \A n \in DOMAIN published : n \in DOMAIN published' /\ published'[n] = published[n]
  BY <1>5, <1>6, <1>7, Chained
<1>14. knownHosts' = known \cup (doms \X ports)
  BY DEF generateNewArtifacts
<1> QED
  BY <1>10, <1>11, <1>12, <1>13, <1>14
(* What was known stays known, and so does what is published.              *)
LEMMA KnownGrows ==
    ASSUME DeriverInv, NEW doms \in SUBSET Domain, NEW ports \in SUBSET Port,
           IsFiniteSet(doms), IsFiniteSet(ports), NEW known \in SUBSET (Name \X Port),
           knownHosts \subseteq known, generateNewArtifacts(doms, ports, known)
    PROVE  /\ knownHosts' \subseteq Name \X Port
           /\ known \subseteq knownHosts' /\ doms \X ports \subseteq knownHosts'
           /\ published' \in Seq(Published)
           /\ inflight' \in [Subscriber -> SUBSET DOMAIN published']
           /\ DOMAIN published \subseteq DOMAIN published'
           /\ \A e \in DOMAIN published : published'[e] = published[e]
           /\ \A e \in DOMAIN published' : Hosts(e)' /\ (published'[e].derived => HostKnown(e)')
<1>1. DeriverTypeOK
  BY DEF DeriverInv
<1>2. /\ knownHosts' = known \cup (doms \X ports)
      /\ published' \in Seq(Published)
      /\ inflight' \in [Subscriber -> SUBSET DOMAIN published']
      /\ \A n \in DOMAIN published : n \in DOMAIN published' /\ published'[n] = published[n]
      /\ \A n \in DOMAIN published' \ DOMAIN published :
            /\ published'[n].type = "host" /\ published'[n].derived = TRUE
            /\ <<published'[n].name, published'[n].port>> \in (doms \X ports) \ known
  BY <1>1, Generated
<1>3. knownHosts' \subseteq Name \X Port
  BY <1>2 DEF Name
<1>4. ASSUME NEW e \in DOMAIN published
      PROVE  Hosts(e)' /\ (published'[e].derived => HostKnown(e)')
  <2>1. Hosts(e) /\ (published[e].derived => HostKnown(e))
    BY DEF DeriverInv
  <2> QED
    BY <1>2, <2>1 DEF Hosts, HostKnown
<1>5. ASSUME NEW e \in DOMAIN published' \ DOMAIN published
      PROVE  Hosts(e)' /\ HostKnown(e)'
  BY <1>2, <1>3 DEF Hosts, HostKnown
<1> QED
  BY <1>2, <1>3, <1>4, <1>5

(* What a step publishes that was derived is new: it is neither among what *)
(* was derived before nor among what was received, this event included.    *)
OnceMore ==
    \A n \in DOMAIN published' \ DOMAIN published : published'[n].derived =>
        \A m \in 1..n - 1 : SameHost(published'[m], published'[n]) =>
            ~published'[m].derived /\ m \notin received'

LEMMA DerivesNew ==
    ASSUME DeriverInv, NEW doms \in SUBSET Domain, NEW ports \in SUBSET Port,
           IsFiniteSet(doms), IsFiniteSet(ports), NEW known,
           knownHosts \subseteq known, generateNewArtifacts(doms, ports, known),
           received' \subseteq DOMAIN published,
           \A e \in received' : published[e].type = "host"
              => <<published[e].name, published[e].port>> \in known
    PROVE  OnceMore
<1> SUFFICES ASSUME NEW n \in DOMAIN published' \ DOMAIN published, NEW m \in 1..n - 1,
                    SameHost(published'[m], published'[n])
             PROVE  ~published'[m].derived /\ m \notin received'
  BY DEF OnceMore
<1>1. DeriverTypeOK
  BY DEF DeriverInv
<1>2. /\ published' \in Seq(Published)
      /\ \A e \in DOMAIN published : e \in DOMAIN published' /\ published'[e] = published[e]
      /\ \A e \in DOMAIN published' \ DOMAIN published :
            /\ published'[e].type = "host" /\ published'[e].derived = TRUE
            /\ <<published'[e].name, published'[e].port>> \in (doms \X ports) \ known
      /\ \A e, f \in DOMAIN published' \ DOMAIN published :
            published'[e] = published'[f] => e = f
  BY <1>1, Generated
<1>3. /\ published'[m].type = published'[n].type /\ published'[m].name = published'[n].name
      /\ published'[m].port = published'[n].port
  BY DEF SameHost
<1>4. published'[n].type = "host" /\ <<published'[n].name, published'[n].port>> \notin known
  BY <1>2
<1>5. m \in DOMAIN published' /\ m # n
  BY <1>2
<1>6. CASE m \in DOMAIN published
  <2>1. published'[m] = published[m] /\ (published[m].derived => HostKnown(m))
    BY <1>2, <1>6 DEF DeriverInv
  <2> QED
    BY <1>3, <1>4, <2>1 DEF HostKnown
<1>7. CASE m \notin DOMAIN published
  <2>1. published' \in Seq(Published) /\ m \in DOMAIN published' /\ n \in DOMAIN published'
    BY <1>2, <1>5
  <2>2. published'[m] \in Published /\ published'[n] \in Published
    BY <2>1
  <2>3. published'[m].derived = TRUE /\ published'[n].derived = TRUE
    BY <1>2, <1>7, <2>1
  <2>4. published'[m] = published'[n]
    BY <1>3, <2>2, <2>3 DEF Published
  <2> QED
    BY <1>2, <1>5, <1>7, <2>4
<1> QED
  BY <1>6, <1>7

(* An answer is cached; without one, the entry had expired.                *)
LEMMA LookupKeeps ==
    ASSUME DeriverTypeOK, NEW d \in Domain, NEW ip \in Key, Lookup(d, ip)
    PROVE  /\ cache' \in [Domain -> IP \cup {None}]
           /\ \A x \in Domain : Cached(x) => Cached(x)'
           /\ ip # None => Cached(d)'
           /\ ip = None => ~Cached(d)
<1>1. cache \in [Domain -> IP \cup {None}] /\ None \notin IP
  BY NameAssumption DEF DeriverTypeOK, Name
<1>2. CASE Cached(d)
  BY <1>1, <1>2 DEF Lookup, Cached, dnsVars
<1>3. CASE ~Cached(d)
  <2>1. /\ ip \in IP \cup {None} /\ cache' = [cache EXCEPT ![d] = ip]
        /\ expired' = expired \ {d}
    BY <1>3 DEF Lookup, Key
  <2>2. cache' \in [Domain -> IP \cup {None}] /\ cache'[d] = ip
    BY <1>1, <2>1
  <2>3. \A x \in Domain \ {d} : cache'[x] = cache[x]
    BY <1>1, <2>1
  <2> QED
    BY <1>3, <2>1, <2>2, <2>3 DEF Cached
<1> QED
  BY <1>2, <1>3

(* The numbers of the published artifacts only grow.                       *)
LEMMA WiderSeq ==
    ASSUME NEW S, NEW T, S \subseteq T, NEW s \in Seq(S)
    PROVE  s \in Seq(T)
  OBVIOUS

LEMMA HeadTail ==
    ASSUME NEW S, NEW s \in Seq(S), s # <<>>
    PROVE  Head(s) \in S /\ Tail(s) \in Seq(S)
  OBVIOUS

(* The event taken from the channel is one of a published artifact.        *)
LEMMA Taken ==
    ASSUME DeriverTypeOK, Take
    PROVE  /\ NextEvent \in DOMAIN published
           /\ chan' \in [Subscriber -> Seq(DOMAIN published)]
           /\ received' = received \cup {NextEvent}
           /\ received' \subseteq DOMAIN published
<1>1. /\ chan["deriver"] \in Seq(DOMAIN published) /\ chan["deriver"] # <<>>
      /\ chan \in [Subscriber -> Seq(DOMAIN published)]
  BY DeriverAssumption DEF DeriverTypeOK, Take
<1>2. /\ Head(chan["deriver"]) \in DOMAIN published
      /\ Tail(chan["deriver"]) \in Seq(DOMAIN published)
  BY <1>1, HeadTail
<1> QED
  BY <1>1, <1>2 DEF DeriverTypeOK, Take, NextEvent
-----------------------------------------------------------------------------
(* One step of the deriver.                                                *)

LEMMA InitInv == DeriverInit => DeriverInv
<1> SUFFICES ASSUME DeriverInit PROVE DeriverInv
  OBVIOUS
<1>1. /\ published = <<>> /\ DOMAIN published = {} /\ resolving = 0 /\ panicked = None
      /\ received = {} /\ knownHosts = {}
      /\ domainsOf = [ip \in IP |-> {}] /\ portsOf = [k \in Key |-> {}]
  BY DEF DeriverInit
<1>2. DeriverTypeOK
  <2>1. published \in Seq(Published) /\ chan \in [Subscriber -> Seq(DOMAIN published)]
    BY <1>1 DEF DeriverInit, BusInit
  <2>2. cache \in [Domain -> IP \cup {None}]
    BY DEF DeriverInit, DNSInit
  <2> QED
    BY <1>1, <2>1, <2>2, FS_EmptySet DEF DeriverTypeOK, Published, DeriverInit, BusInit
<1> QED
  BY <1>1, <1>2 DEF DeriverInv, PanicNeedsLostEntry, Filed

(* A host of an address: its port joins the domains filed under it.        *)
LEMMA HandleIPHostKeeps == DeriverInv /\ HandleIPHost => DeriverInv' /\ OnceMore
<1> SUFFICES ASSUME DeriverInv, HandleIPHost PROVE DeriverInv' /\ OnceMore
  OBVIOUS
<1> DEFINE a == published[NextEvent]
           ip == a.name
           p == a.port
<1>1. /\ Take /\ a.type = "host" /\ ip \in IP
      /\ portsOf' = [portsOf EXCEPT ![ip] = @ \cup {p}]
      /\ generateNewArtifacts(domainsOf[ip], portsOf'[ip], KnownWith(a))
      /\ UNCHANGED <<cache, expired, domainsOf, lapsed, resolving, panicked>>
  BY DEF HandleIPHost, dnsVars
<1>2. DeriverTypeOK
  BY DEF DeriverInv
<1>3. /\ NextEvent \in DOMAIN published /\ received' = received \cup {NextEvent}
      /\ chan' \in [Subscriber -> Seq(DOMAIN published)] /\ received' \subseteq DOMAIN published
  BY <1>1, <1>2, Taken
<1>4. p \in Port
  BY <1>1, <1>3 DEF DeriverInv, Hosts
<1>5. /\ KnownWith(a) = knownHosts \cup {<<ip, p>>} /\ KnownWith(a) \subseteq Name \X Port
      /\ knownHosts \subseteq KnownWith(a)
  BY <1>1, <1>2, <1>4 DEF KnownWith, DeriverTypeOK, Name
<1>6. /\ portsOf \in [Key -> SUBSET Port] /\ ip \in Key
      /\ \A key \in Key : IsFiniteSet(portsOf[key])
      /\ domainsOf \in [IP -> SUBSET Domain] /\ \A k \in IP : IsFiniteSet(domainsOf[k])
  BY <1>1, <1>2 DEF DeriverTypeOK, Key
<1>7. PICK ports \in SUBSET Port : ports = portsOf[ip] \cup {p} /\ IsFiniteSet(ports)
  <2>1. portsOf[ip] \in SUBSET Port /\ IsFiniteSet(portsOf[ip])
    BY <1>6
  <2>2. IsFiniteSet(portsOf[ip] \cup {p})
    BY <2>1, FS_AddElement
  <2> QED
    BY <1>4, <2>1, <2>2
<1>8. /\ portsOf' \in [Key -> SUBSET Port] /\ portsOf'[ip] = ports
      /\ \A k \in Key \ {ip} : portsOf'[k] = portsOf[k]
  BY <1>1, <1>6, <1>7
<1>9. PICK doms \in SUBSET Domain, known \in SUBSET (Name \X Port) :
         /\ doms = domainsOf[ip] /\ known = KnownWith(a) /\ IsFiniteSet(doms)
         /\ generateNewArtifacts(doms, ports, known)
  <2>1. generateNewArtifacts(domainsOf[ip], portsOf'[ip], KnownWith(a))
    BY <1>1
  <2>2. generateNewArtifacts(domainsOf[ip], ports, KnownWith(a))
    BY <1>8, <2>1
  <2> QED
    BY <1>1, <1>5, <1>6, <2>2
<1>10. /\ knownHosts' \subseteq Name \X Port
       /\ known \subseteq knownHosts' /\ doms \X ports \subseteq knownHosts'
       /\ published' \in Seq(Published)
       /\ inflight' \in [Subscriber -> SUBSET DOMAIN published']
       /\ DOMAIN published \subseteq DOMAIN published'
       /\ \A e \in DOMAIN published : published'[e] = published[e]
       /\ \A e \in DOMAIN published' : Hosts(e)' /\ (published'[e].derived => HostKnown(e)')
  BY <1>5, <1>7, <1>9, KnownGrows
<1>11. DeriverTypeOK'
  <2>1. chan' \in [Subscriber -> Seq(DOMAIN published')]
    BY <1>3, <1>10, WiderSeq
  <2>2. \A key \in Key : IsFiniteSet(portsOf'[key])
    BY <1>6, <1>7, <1>8
  <2> QED
    BY <1>1, <1>2, <1>3, <1>8, <1>10, <2>1, <2>2 DEF DeriverTypeOK, Published
<1>12. \A e \in received' : HostKnown(e)'
  BY <1>3, <1>5, <1>9, <1>10 DEF DeriverInv, HostKnown
<1>13. ASSUME NEW e \in received', published'[e].type = "host", published'[e].name \in IP
       PROVE  published'[e].port \in portsOf'[published'[e].name]
  <2>1. published'[e] = published[e]
    BY <1>3, <1>10
  <2>2. CASE e \in received
    <3>1. published[e].port \in portsOf[published[e].name] /\ published[e].name \in Key
      BY <1>13, <2>1, <2>2 DEF DeriverInv, Key
    <3> QED
      BY <1>7, <1>8, <2>1, <3>1
  <2>3. CASE e = NextEvent
    BY <1>7, <1>8, <2>1, <2>3
  <2> QED
    BY <1>3, <2>2, <2>3
<1>14. ASSUME NEW k \in IP PROVE domainsOf'[k] \X portsOf'[k] \subseteq knownHosts'
  <2>1. CASE k = ip
    BY <1>1, <1>8, <1>9, <1>10, <2>1
  <2>2. CASE k # ip
    BY <1>1, <1>5, <1>8, <1>9, <1>10, <2>2 DEF DeriverInv, Key
  <2> QED
    BY <2>1, <2>2
<1>15. PanicNeedsLostEntry' /\ \A d \in Domain : Filed(d)' => d \in lapsed' \/ Cached(d)'
  BY <1>1 DEF DeriverInv, PanicNeedsLostEntry, Filed, Cached
<1>16. resolving' = 0
  BY <1>1 DEF Take
<1>17. OnceMore
  BY <1>3, <1>5, <1>7, <1>9, DerivesNew DEF DeriverInv, HostKnown
<1> QED
  BY <1>17, <1>10, <1>11, <1>12, <1>13, <1>14, <1>15, <1>16 DEF DeriverInv

(* A domain: it joins the ports of the address it is filed under, if any.  *)
LEMMA HandleDomainKeeps ==
    DeriverInv /\ panicked = None /\ HandleDomain => DeriverInv' /\ OnceMore
<1> SUFFICES ASSUME DeriverInv, panicked = None, HandleDomain PROVE DeriverInv' /\ OnceMore
  OBVIOUS
<1> DEFINE a == published[NextEvent]
           at == {k \in IP : a.name \in domainsOf[k]}
<1>1. PICK ip \in Key :
         /\ IF at = {} THEN Lookup(a.name, ip) ELSE ip \in at /\ UNCHANGED dnsVars
         /\ IF ip = None
            THEN knownHosts' = KnownWith(a) /\ UNCHANGED <<domainsOf, published, inflight>>
            ELSE /\ domainsOf' = [domainsOf EXCEPT ![ip] = @ \cup {a.name}]
                 /\ generateNewArtifacts(domainsOf'[ip], portsOf[ip], KnownWith(a))
  BY DEF HandleDomain
<1>2. /\ Take /\ a.name \in Domain
      /\ resolving' = IF a.type = "host" THEN NextEvent ELSE 0
      /\ UNCHANGED <<portsOf, lapsed, panicked>>
  BY DEF HandleDomain
<1>3. DeriverTypeOK /\ \E name \in Domain : name = a.name
  BY <1>2 DEF DeriverInv
<1> PICK name \in Domain : name = a.name
  BY <1>3
<1>4. /\ NextEvent \in DOMAIN published /\ received' = received \cup {NextEvent}
      /\ chan' \in [Subscriber -> Seq(DOMAIN published)] /\ received' \subseteq DOMAIN published
  BY <1>2, <1>3, Taken
<1>5. PICK known \in SUBSET (Name \X Port) :
         /\ known = KnownWith(a) /\ knownHosts \subseteq known
         /\ a.type = "host" => <<a.name, a.port>> \in known
  <2>1. a.type = "host" => a.port \in Port
    BY <1>4 DEF DeriverInv, Hosts
  <2>2. CASE a.type = "host"
    <3>1. <<a.name, a.port>> \in Name \X Port
      BY <1>2, <2>1, <2>2 DEF Name
    <3>2. KnownWith(a) = knownHosts \cup {<<a.name, a.port>>} /\ knownHosts \in SUBSET (Name \X Port)
      BY <1>3, <2>2 DEF KnownWith, DeriverTypeOK
    <3>3. KnownWith(a) \in SUBSET (Name \X Port)
      BY <3>1, <3>2
    <3> QED
      BY <3>2, <3>3
  <2>3. CASE a.type # "host"
    BY <1>3, <2>3 DEF KnownWith, DeriverTypeOK
  <2> QED
    BY <2>2, <2>3
<1>6. /\ portsOf \in [Key -> SUBSET Port] /\ \A key \in Key : IsFiniteSet(portsOf[key])
      /\ domainsOf \in [IP -> SUBSET Domain] /\ \A k \in IP : IsFiniteSet(domainsOf[k])
      /\ None \notin IP /\ Domain \cap IP = {}
  BY <1>3, NameAssumption DEF DeriverTypeOK, Name
<1>7. /\ cache' \in [Domain -> IP \cup {None}]
      /\ \A x \in Domain : Cached(x) => Cached(x)'
      /\ ip # None => Cached(name)' \/ Filed(name)
  <2>1. CASE at = {}
    BY <1>1, <1>2, <1>3, <2>1, LookupKeeps
  <2>2. CASE at # {}
    BY <1>1, <1>3, <2>2 DEF DeriverTypeOK, dnsVars, Cached, Filed
  <2> QED
    BY <2>1, <2>2
<1>8. /\ domainsOf' \in [IP -> SUBSET Domain] /\ \A k \in IP : IsFiniteSet(domainsOf'[k])
      /\ knownHosts' \subseteq Name \X Port /\ known \subseteq knownHosts'
      /\ published' \in Seq(Published)
      /\ inflight' \in [Subscriber -> SUBSET DOMAIN published']
      /\ DOMAIN published \subseteq DOMAIN published'
      /\ \A e \in DOMAIN published : published'[e] = published[e]
      /\ \A e \in DOMAIN published' : Hosts(e)' /\ (published'[e].derived => HostKnown(e)')
      /\ \A k \in IP : domainsOf'[k] \X portsOf[k] \subseteq knownHosts'
      /\ OnceMore
      /\ \A d \in Domain : Filed(d)' => Filed(d) \/ (d = name /\ ip # None)
  <2>1. CASE ip = None
    <3>1. knownHosts' = known /\ UNCHANGED <<domainsOf, published, inflight>>
      BY <1>1, <1>5, <2>1
    <3>2. \A e \in DOMAIN published : Hosts(e)' /\ (published'[e].derived => HostKnown(e)')
      BY <1>5, <3>1 DEF DeriverInv, Hosts, HostKnown
    <3> QED
      BY <1>3, <1>5, <1>6, <3>1, <3>2 DEF DeriverInv, DeriverTypeOK, Published, Filed, OnceMore
  <2>2. CASE ip # None
    <3>1. /\ ip \in IP /\ domainsOf' = [domainsOf EXCEPT ![ip] = @ \cup {a.name}]
          /\ generateNewArtifacts(domainsOf'[ip], portsOf[ip], known)
      BY <1>1, <1>5, <2>2 DEF Key
    <3>2. PICK doms \in SUBSET Domain :
             doms = domainsOf[ip] \cup {a.name} /\ IsFiniteSet(doms)
      <4>1. domainsOf[ip] \in SUBSET Domain /\ IsFiniteSet(domainsOf[ip])
        BY <1>6, <3>1
      <4>2. IsFiniteSet(domainsOf[ip] \cup {a.name})
        BY <4>1, FS_AddElement
      <4> QED
        BY <1>2, <4>1, <4>2
    <3>3. PICK ports \in SUBSET Port : ports = portsOf[ip] /\ IsFiniteSet(ports)
      BY <1>6, <3>1 DEF Key
    <3>4. /\ domainsOf' \in [IP -> SUBSET Domain] /\ domainsOf'[ip] = doms
          /\ \A k \in IP \ {ip} : domainsOf'[k] = domainsOf[k]
      BY <1>6, <3>1, <3>2
    <3>5. generateNewArtifacts(doms, ports, known)
      BY <3>1, <3>3, <3>4
    <3>6. /\ knownHosts' \subseteq Name \X Port
          /\ known \subseteq knownHosts' /\ doms \X ports \subseteq knownHosts'
          /\ published' \in Seq(Published)
          /\ inflight' \in [Subscriber -> SUBSET DOMAIN published']
          /\ DOMAIN published \subseteq DOMAIN published'
          /\ \A e \in DOMAIN published : published'[e] = published[e]
          /\ \A e \in DOMAIN published' : Hosts(e)' /\ (published'[e].derived => HostKnown(e)')
      BY <1>5, <3>2, <3>3, <3>5, KnownGrows
    <3>7. ASSUME NEW k \in IP PROVE domainsOf'[k] \X portsOf[k] \subseteq knownHosts'
      BY <1>5, <3>3, <3>4, <3>6 DEF DeriverInv
    <3>8. \A k \in IP : IsFiniteSet(domainsOf'[k])
      BY <1>6, <3>2, <3>4
    <3>9. \A d \in Domain : Filed(d)' => Filed(d) \/ d = name
      BY <3>2, <3>4 DEF Filed
    <3>10. \A e \in received' : published[e].type = "host"
              => <<published[e].name, published[e].port>> \in known
      BY <1>4, <1>5 DEF DeriverInv, HostKnown
    <3>11. OnceMore
      BY <1>4, <1>5, <3>2, <3>3, <3>5, <3>10, DerivesNew
    <3> QED
      BY <2>2, <3>4, <3>6, <3>7, <3>8, <3>9, <3>11
  <2> QED
    BY <2>1, <2>2
<1>9. DeriverTypeOK'
  <2>1. chan' \in [Subscriber -> Seq(DOMAIN published')]
    BY <1>4, <1>8, WiderSeq
  <2>2. resolving' \in DOMAIN published' \cup {0}
    BY <1>2, <1>4, <1>8
  <2> QED
    BY <1>2, <1>3, <1>4, <1>7, <1>8, <2>1, <2>2 DEF DeriverTypeOK, Published
<1>10. \A e \in received' : HostKnown(e)'
  BY <1>4, <1>5, <1>8 DEF DeriverInv, HostKnown
<1>11. ASSUME NEW e \in received', published'[e].type = "host", published'[e].name \in IP
       PROVE  published'[e].port \in portsOf'[published'[e].name]
  <2>1. published'[e] = published[e] /\ e # NextEvent
    BY <1>2, <1>4, <1>6, <1>8, <1>11
  <2> QED
    BY <1>2, <1>4, <1>11, <2>1 DEF DeriverInv
<1>12. \A d \in Domain : Filed(d)' => d \in lapsed' \/ Cached(d)'
  <2>1. \A d \in Domain : Filed(d) => d \in lapsed \/ Cached(d)
    BY DEF DeriverInv
  <2> QED
    BY <1>2, <1>7, <1>8, <2>1
<1>13. PanicNeedsLostEntry'
  BY <1>2 DEF PanicNeedsLostEntry
<1>14. resolving' # 0 =>
          published'[resolving'].type = "host" /\ published'[resolving'].name \in Domain
  BY <1>2, <1>4, <1>8
<1> QED
  BY <1>2, <1>8, <1>9, <1>10, <1>11, <1>12, <1>13, <1>14 DEF DeriverInv

(* The rest of a host's event: one more lookup, which may end the process. *)
LEMMA ResolveHostKeeps == DeriverInv /\ ResolveHost => DeriverInv' /\ OnceMore
<1> SUFFICES ASSUME DeriverInv, ResolveHost PROVE DeriverInv' /\ OnceMore
  OBVIOUS
<1> DEFINE a == published[resolving]
<1>1. PICK ip \in Key :
         /\ Lookup(a.name, ip)
         /\ IF ip = None
            THEN panicked' = a.name /\ UNCHANGED <<mapVars, published, inflight>>
            ELSE /\ generateNewArtifacts(domainsOf[ip], portsOf[ip], knownHosts)
                 /\ portsOf' = [portsOf EXCEPT ![None] = @ \cup {a.port}]
                 /\ UNCHANGED <<domainsOf, panicked>>
  BY DEF ResolveHost
<1>2. /\ resolving' = 0 /\ UNCHANGED <<chan, received, lapsed>>
      /\ resolving \in DOMAIN published
      /\ a.type = "host" /\ a.name \in Domain
  BY DEF ResolveHost, DeriverInv, DeriverTypeOK
<1>3. DeriverTypeOK
  BY DEF DeriverInv
<1>4. /\ cache' \in [Domain -> IP \cup {None}]
      /\ \A x \in Domain : Cached(x) => Cached(x)'
      /\ ip = None => ~Cached(a.name)
  BY <1>1, <1>2, <1>3, LookupKeeps
<1>5. CASE ip = None
  <2>1. panicked' = a.name /\ UNCHANGED <<knownHosts, domainsOf, portsOf, published, inflight>>
    BY <1>1, <1>5 DEF mapVars
  <2>2. DeriverTypeOK'
    BY <1>2, <1>3, <1>4, <2>1 DEF DeriverTypeOK
  <2>3. \A d \in Domain : Filed(d)' => d \in lapsed' \/ Cached(d)'
    BY <1>2, <1>4, <2>1 DEF DeriverInv, Filed
  <2>4. Filed(a.name) => a.name \in lapsed
    BY <1>2, <1>4, <1>5 DEF DeriverInv
  <2>5. PanicNeedsLostEntry'
    BY <1>2, <2>1, <2>4 DEF PanicNeedsLostEntry, Filed
  <2> QED
    BY <1>2, <2>1, <2>2, <2>3, <2>5 DEF DeriverInv, Hosts, HostKnown, OnceMore
<1>6. CASE ip # None
  <2>1. /\ ip \in IP /\ generateNewArtifacts(domainsOf[ip], portsOf[ip], knownHosts)
        /\ portsOf' = [portsOf EXCEPT ![None] = @ \cup {a.port}]
        /\ UNCHANGED <<domainsOf, panicked>>
    BY <1>1, <1>6 DEF Key
  <2>2. PICK doms \in SUBSET Domain : doms = domainsOf[ip] /\ IsFiniteSet(doms)
    BY <1>3, <2>1 DEF DeriverTypeOK
  <2>3. PICK ports \in SUBSET Port : ports = portsOf[ip] /\ IsFiniteSet(ports)
    BY <1>3, <2>1 DEF DeriverTypeOK, Key
  <2>4. /\ knownHosts' \subseteq Name \X Port /\ knownHosts \subseteq knownHosts'
        /\ published' \in Seq(Published)
        /\ inflight' \in [Subscriber -> SUBSET DOMAIN published']
        /\ DOMAIN published \subseteq DOMAIN published'
        /\ \A e \in DOMAIN published : published'[e] = published[e]
        /\ \A e \in DOMAIN published' : Hosts(e)' /\ (published'[e].derived => HostKnown(e)')
        /\ OnceMore
    <3>1. PICK known \in SUBSET (Name \X Port) : known = knownHosts
      BY <1>3 DEF DeriverTypeOK
    <3>2. generateNewArtifacts(doms, ports, known)
      BY <2>1, <2>2, <2>3, <3>1
    <3>3. /\ received' \subseteq DOMAIN published
          /\ \A e \in received' : published[e].type = "host"
                => <<published[e].name, published[e].port>> \in known
      BY <1>2, <1>3, <3>1 DEF DeriverInv, DeriverTypeOK, HostKnown
    <3>4. OnceMore
      BY <2>2, <2>3, <3>1, <3>2, <3>3, DerivesNew
    <3> QED
      BY <2>2, <2>3, <3>1, <3>2, <3>4, KnownGrows
  <2>5. /\ portsOf' \in [Key -> SUBSET Port] /\ \A key \in Key : IsFiniteSet(portsOf'[key])
        /\ \A k \in IP : portsOf'[k] = portsOf[k]
    <3>1. /\ a.port \in Port /\ None \in Key /\ None \notin IP
      BY <1>2, NameAssumption DEF DeriverInv, Hosts, Key, Name
    <3>2. portsOf \in [Key -> SUBSET Port] /\ \A key \in Key : IsFiniteSet(portsOf[key])
      BY <1>3 DEF DeriverTypeOK
    <3>3. IsFiniteSet(portsOf[None] \cup {a.port})
      BY <3>1, <3>2, FS_AddElement
    <3>4. /\ portsOf' \in [Key -> SUBSET Port] /\ portsOf'[None] = portsOf[None] \cup {a.port}
          /\ \A key \in Key \ {None} : portsOf'[key] = portsOf[key]
      BY <2>1, <3>1, <3>2
    <3> QED
      BY <3>1, <3>2, <3>3, <3>4 DEF Key
  <2>6. DeriverTypeOK'
    <3>1. chan' \in [Subscriber -> Seq(DOMAIN published')]
      BY <1>2, <1>3, <2>4, WiderSeq DEF DeriverTypeOK
    <3> QED
      BY <1>2, <1>3, <1>4, <2>1, <2>4, <2>5, <3>1 DEF DeriverTypeOK, Published
  <2>7. \A e \in received' : HostKnown(e)'
    BY <1>2, <1>3, <2>4 DEF DeriverInv, DeriverTypeOK, HostKnown
  <2>8. ASSUME NEW e \in received', published'[e].type = "host", published'[e].name \in IP
        PROVE  published'[e].port \in portsOf'[published'[e].name]
    <3>1. published'[e] = published[e] /\ e \in received
      BY <1>2, <1>3, <2>4 DEF DeriverTypeOK
    <3> QED
      BY <2>5, <2>8, <3>1 DEF DeriverInv
  <2>9. \A k \in IP : domainsOf'[k] \X portsOf'[k] \subseteq knownHosts'
    BY <2>1, <2>4, <2>5 DEF DeriverInv
  <2>10. \A d \in Domain : Filed(d)' => d \in lapsed' \/ Cached(d)'
    BY <1>2, <1>4, <2>1 DEF DeriverInv, Filed
  <2>11. PanicNeedsLostEntry'
    BY <1>2, <2>1 DEF DeriverInv, PanicNeedsLostEntry
  <2> QED
    BY <1>2, <2>4, <2>6, <2>7, <2>8, <2>9, <2>10, <2>11 DEF DeriverInv
<1> QED
  BY <1>5, <1>6

(* Others publish, deliver, look up, and wait for entries to expire.       *)
LEMMA SubmitKeeps ==
    ASSUME DeriverInv, NEW art \in Given, Submit(art)
    PROVE  DeriverInv'
<1> DEFINE new == [type |-> art.type, name |-> art.name, port |-> art.port, derived |-> FALSE]
<1>1. /\ published' = Append(published, new) /\ Publish(art.type, Len(published) + 1)
      /\ UNCHANGED <<cache, expired, knownHosts, domainsOf, portsOf, received, lapsed,
                     resolving, panicked>>
  BY DEF Submit, dnsVars, mapVars
<1>2. DeriverTypeOK /\ published \in Seq(Published)
  BY DEF DeriverInv, DeriverTypeOK, Published
<1>3. new \in Published /\ (new.type = "host" => new.port \in Port) /\ ~new.derived
  BY DeriverAssumption DEF Published, Name
<1> HIDE DEF new
<1>4. /\ published' \in Seq(Published)
      /\ DOMAIN published' = DOMAIN published \cup {Len(published) + 1}
      /\ published'[Len(published) + 1] = new
      /\ \A e \in DOMAIN published : published'[e] = published[e]
  BY <1>1, <1>2, <1>3
<1>5. DeriverTypeOK'
  <2>1. chan \in [Subscriber -> Seq(DOMAIN published')] /\ chan' = chan
    BY <1>1, <1>2, <1>4, WiderSeq DEF DeriverTypeOK, Publish
  <2>2. inflight' \in [Subscriber -> SUBSET DOMAIN published']
    BY <1>1, <1>2, <1>4 DEF DeriverTypeOK, Publish
  <2> QED
    BY <1>1, <1>2, <1>4, <2>1, <2>2 DEF DeriverTypeOK, Published
<1>6. \A e \in DOMAIN published' : Hosts(e)' /\ (published'[e].derived => HostKnown(e)')
  <2>1. \A e \in DOMAIN published : Hosts(e) /\ (published[e].derived => HostKnown(e))
    BY DEF DeriverInv
  <2> QED
    BY <1>1, <1>3, <1>4, <2>1 DEF Hosts, HostKnown
<1>7. /\ received \subseteq DOMAIN published
      /\ resolving # 0 => resolving \in DOMAIN published
  BY <1>2 DEF DeriverTypeOK
<1>8. \A e \in received' : HostKnown(e)'
  BY <1>1, <1>4, <1>7 DEF DeriverInv, HostKnown
<1>9. PanicNeedsLostEntry' /\ \A d \in Domain : Filed(d)' => d \in lapsed' \/ Cached(d)'
  BY <1>1 DEF DeriverInv, PanicNeedsLostEntry, Filed, Cached
<1> QED
  BY <1>1, <1>4, <1>5, <1>6, <1>7, <1>8, <1>9 DEF DeriverInv

LEMMA DeliverKeeps == DeriverInv /\ DeliverEvent => DeriverInv'
<1> SUFFICES ASSUME DeriverInv, NEW e \in inflight["deriver"], Deliver("deriver", e),
                    UNCHANGED <<dnsVars, mapVars, historyVars, resolving, panicked>>
             PROVE  DeriverInv'
  BY DEF DeliverEvent
<1>1. DeriverTypeOK
  BY DEF DeriverInv
<1>2. e \in DOMAIN published /\ chan["deriver"] \in Seq(DOMAIN published)
  BY <1>1, DeriverAssumption DEF DeriverTypeOK
<1>3. Append(chan["deriver"], e) \in Seq(DOMAIN published)
  BY <1>2
<1>4. /\ inflight' \in [Subscriber -> SUBSET DOMAIN published]
      /\ chan' \in [Subscriber -> Seq(DOMAIN published)]
  BY <1>1, <1>3 DEF Deliver, DeriverTypeOK
<1>5. UNCHANGED <<cache, expired, knownHosts, domainsOf, portsOf, published, received, lapsed,
                  resolving, panicked>>
  BY DEF dnsVars, mapVars, historyVars
<1>6. DeriverTypeOK'
  BY <1>1, <1>4, <1>5 DEF DeriverTypeOK
<1> QED
  BY <1>5, <1>6 DEF DeriverInv, Hosts, HostKnown, PanicNeedsLostEntry, Filed, Cached

(* A step of the cache alone: no entry of a filed domain is lost unless it *)
(* expired.                                                                *)
LEMMA CacheKeeps ==
    ASSUME DeriverInv, cache' \in [Domain -> IP \cup {None}], lapsed \subseteq lapsed',
           \A d \in Domain : Cached(d) => d \in lapsed' \/ Cached(d)',
           UNCHANGED <<busVars, mapVars, published, received, resolving, panicked>>
    PROVE  DeriverInv'
<1>1. UNCHANGED <<inflight, chan, knownHosts, domainsOf, portsOf, published, received, resolving,
                  panicked>>
  BY DEF busVars, mapVars
<1>2. DeriverTypeOK'
  BY <1>1 DEF DeriverInv, DeriverTypeOK
<1>3. \A d \in Domain : Filed(d)' => d \in lapsed' \/ Cached(d)'
  BY <1>1 DEF DeriverInv, Filed
<1>4. PanicNeedsLostEntry'
  BY <1>1 DEF DeriverInv, PanicNeedsLostEntry
<1> QED
  BY <1>1, <1>2, <1>3, <1>4 DEF DeriverInv, Hosts, HostKnown

LEMMA ExpiryKeeps == DeriverInv /\ EntryExpires => DeriverInv'
<1> SUFFICES ASSUME DeriverInv, EntryExpires PROVE DeriverInv'
  OBVIOUS
<1>1. PICK d \in Lapsing : Expire(d) /\ lapsed' = lapsed \cup {d}
  BY DEF EntryExpires
<1>2. /\ cache' = cache /\ expired' = expired \cup {d} /\ d \in lapsed'
      /\ lapsed \subseteq lapsed'
  BY <1>1 DEF Expire
<1>3. \A x \in Domain : Cached(x) => x \in lapsed' \/ Cached(x)'
  BY <1>2 DEF Cached
<1>4. cache' \in [Domain -> IP \cup {None}]
  BY <1>2 DEF DeriverInv, DeriverTypeOK
<1> QED
  BY <1>2, <1>3, <1>4, CacheKeeps DEF EntryExpires

(* The other goroutine's object may lack what was cached, which is lost.   *)
LEMMA SwitchKeeps == DeriverInv /\ SwitchObject => DeriverInv'
<1> SUFFICES ASSUME DeriverInv, SwitchObject PROVE DeriverInv'
  OBVIOUS
<1>1. /\ cache' \in [Domain -> IP \cup {None}] /\ expired' = {}
      /\ lapsed' = lapsed \cup {d \in Domain : Cached(d) /\ cache'[d] = None}
  BY DEF SwitchObject, OtherObject
<1>2. \A d \in Domain : Cached(d) => d \in lapsed' \/ Cached(d)'
  BY <1>1 DEF Cached
<1> QED
  BY <1>1, <1>2, CacheKeeps DEF SwitchObject

LEMMA OtherLookupKeeps == DeriverInv /\ SchedulerLooksUp => DeriverInv'
<1> SUFFICES ASSUME DeriverInv, SchedulerLooksUp PROVE DeriverInv'
  OBVIOUS
<1>1. PICK d \in Domain, ip \in Key : Lookup(d, ip)
  BY DEF SchedulerLooksUp
<1>2. /\ cache' \in [Domain -> IP \cup {None}]
      /\ \A x \in Domain : Cached(x) => Cached(x)'
  BY <1>1, LookupKeeps DEF DeriverInv
<1>3. UNCHANGED <<busVars, mapVars, published, received, lapsed, resolving, panicked>>
  BY DEF SchedulerLooksUp, historyVars
<1> QED
  BY <1>2, <1>3, CacheKeeps

LEMMA StepInv == DeriverInv /\ [DeriverNext]_deriverVars => DeriverInv'
<1> SUFFICES ASSUME DeriverInv, [DeriverNext]_deriverVars PROVE DeriverInv'
  OBVIOUS
<1>1. CASE UNCHANGED deriverVars
  <2>1. UNCHANGED <<busVars, mapVars, published, received, resolving, panicked, cache, expired,
                    lapsed>>
    BY <1>1 DEF deriverVars, historyVars, dnsVars
  <2>2. cache' \in [Domain -> IP \cup {None}]
    BY <2>1 DEF DeriverInv, DeriverTypeOK
  <2>3. \A d \in Domain : Cached(d) => Cached(d)'
    BY <2>1 DEF Cached
  <2> QED
    BY <2>1, <2>2, <2>3, CacheKeeps
<1> QED
  BY <1>1, SubmitKeeps, DeliverKeeps, HandleIPHostKeeps, HandleDomainKeeps, ResolveHostKeeps,
     ExpiryKeeps, SwitchKeeps, OtherLookupKeeps DEF DeriverNext, DeriverStep

-----------------------------------------------------------------------------
(* The theorems.                                                           *)

(* Every port received for an address, and every domain filed under it, is *)
(* in the deriver's two maps, and all pairs of them are known.             *)
THEOREM DeriverInvHolds == DeriverSpec => []DeriverInv
  BY InitInv, StepInv, PTL DEF DeriverSpec

(* Whichever came first, the domain or the host: no pair of a filed domain *)
(* and a received port is left out, whatever is published in between.      *)
THEOREM JoinComplete == DeriverSpec => []Complete
<1>1. DeriverInv => Complete
  <2> SUFFICES ASSUME DeriverInv, NEW ip \in IP, NEW d \in domainsOf[ip], NEW e \in received,
                      published[e].type = "host", published[e].name = ip
               PROVE  <<d, published[e].port>> \in knownHosts
    BY DEF Complete
  <2>1. published[e].port \in portsOf[ip]
    BY DEF DeriverInv
  <2>2. domainsOf[ip] \X portsOf[ip] \subseteq knownHosts
    BY DEF DeriverInv
  <2> QED
    BY <2>1, <2>2
<1> QED
  BY <1>1, DeriverInvHolds, PTL

(* A host of a filed domain ends the process only after the domain's entry *)
(* in the cache has expired, or the cache object was replaced by one that  *)
(* lacks it.                                                               *)
THEOREM PanicExplained == DeriverSpec => []PanicNeedsLostEntry
<1>1. DeriverInv => PanicNeedsLostEntry
  BY DEF DeriverInv
<1> QED
  BY <1>1, DeriverInvHolds, PTL

(* Nothing is derived twice, and nothing the deriver has already received  *)
(* is derived, however often its own hosts come back to it.                *)
THEOREM HostsDerivedOnce == DeriverSpec => DerivedOnce
<1>1. ASSUME DeriverInv, DeriverNext PROVE OnceMore
  <2>1. CASE DeriverStep
    BY <1>1, <2>1, HandleIPHostKeeps, HandleDomainKeeps, ResolveHostKeeps
    DEF DeriverNext, DeriverStep
  <2>2. ASSUME NEW art \in Given, Submit(art) PROVE OnceMore
    <3> DEFINE new == [type |-> art.type, name |-> art.name, port |-> art.port, derived |-> FALSE]
    <3>1. published' = Append(published, new) /\ ~new.derived
      BY <2>2 DEF Submit
    <3> HIDE DEF new
    <3>2. \A n \in DOMAIN published' \ DOMAIN published : published'[n] = new
      BY <1>1, <3>1 DEF DeriverInv, DeriverTypeOK
    <3> QED
      BY <3>1, <3>2 DEF OnceMore
  <2>3. CASE DeliverEvent \/ EntryExpires \/ SwitchObject \/ SchedulerLooksUp
    BY <2>3 DEF DeliverEvent, EntryExpires, SwitchObject, SchedulerLooksUp, historyVars, OnceMore
  <2> QED
    BY <1>1, <2>1, <2>2, <2>3 DEF DeriverNext
<1>2. ASSUME DeriverInv, DeriverInv', [DeriverNext]_deriverVars
      PROVE  [\A n \in Len(published) + 1..Len(published') :
                 published'[n].derived =>
                     \A m \in 1..n - 1 :
                         SameHost(published'[m], published'[n]) =>
                             ~published'[m].derived /\ m \notin received']_deriverVars
  <2>1. Len(published) + 1..Len(published') \subseteq DOMAIN published' \ DOMAIN published
    BY <1>2 DEF DeriverInv, DeriverTypeOK
  <2> QED
    BY <1>1, <1>2, <2>1 DEF OnceMore
<1> QED
  BY <1>2, DeriverInvHolds, PTL DEF DeriverSpec, DerivedOnce
=============================================================================
