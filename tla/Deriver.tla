------------------------------- MODULE Deriver -------------------------------
(***************************************************************************)
(* The artifact deriver (internal/scheduler/artifact_derivations.go): a    *)
(* goroutine that joins hosts ip:port with the domains known to resolve to *)
(* ip, and publishes domain:port.  It listens to hosts itself, so that     *)
(* what it publishes comes back to it, and it looks domains up in the      *)
(* cache it shares with the scheduler's goroutine, or will share: cache is *)
(* the object that GetDNSCache returns to the deriver.                     *)
(*                                                                         *)
(* Here an artifact keeps its port and says whether the deriver made it;   *)
(* an event is its index in published.  A domain artifact has no port.     *)
(***************************************************************************)
EXTENDS EventBus, DNSCache, FiniteSets, SequencesExt

CONSTANTS
    Given,   \* the domains and hosts that the storage lets pass, each once
    Lapsing  \* bound: the domains whose cache entry may expire

ASSUME DeriverAssumption ==
    /\ Subscriber = {"deriver"} /\ Inputs["deriver"] = {"host", "domain"}
    /\ Given \subseteq [type : {"domain"}, name : Domain, port : {None}]
                       \cup [type : {"host"}, name : Name, port : Port]
    /\ None \notin Port /\ Lapsing \subseteq Domain

VARIABLES
    published,   \* history: the artifacts on the bus, in order
    knownHosts,  \* alreadyKnownHosts, as pairs of name and port
    domainsOf,   \* knownDomainsPerIP
    portsOf,     \* knownPortsPerIP; None is the key "<nil>"
    resolving,   \* the event addHost still has to look up, or 0
    panicked,    \* the domain whose lookup ended the process, or None
    received,    \* history: the events taken from the channel
    switched,    \* GetDNSCache has come to return the other goroutine's object
    lapsed       \* history: the domains that lost their cache entry

mapVars == <<knownHosts, domainsOf, portsOf>>
historyVars == <<published, received, lapsed>>
deriverVars == <<busVars, dnsVars, mapVars, historyVars, resolving, panicked, switched>>

Key == IP \cup {None}
Derived(d, p) == [type |-> "host", name |-> d, port |-> p, derived |-> TRUE]

DeriverInit ==
    /\ BusInit /\ DNSInit
    /\ published = <<>> /\ received = {} /\ lapsed = {}
    /\ knownHosts = {} /\ resolving = 0 /\ panicked = None /\ switched = FALSE
    /\ domainsOf = [ip \in IP |-> {}] /\ portsOf = [k \in Key |-> {}]

-----------------------------------------------------------------------------
(* Any other goroutine publishes an artifact the storage has let pass.     *)
Submit(a) ==
    LET artifact == [type |-> a.type, name |-> a.name, port |-> a.port, derived |-> FALSE]
    IN  /\ artifact \notin ToSet(published)
        /\ published' = Append(published, artifact)
        /\ Publish(a.type, Len(published) + 1)
        /\ UNCHANGED <<dnsVars, mapVars, received, lapsed, resolving, panicked, switched>>

DeliverEvent ==
    /\ \E e \in inflight["deriver"] : Deliver("deriver", e)
    /\ UNCHANGED <<dnsVars, mapVars, historyVars, resolving, panicked, switched>>

(* generateNewArtifacts of the domains and ports that belong to one key,   *)
(* given the hosts known before.  All of them go to the bus before the     *)
(* deriver takes its next event.                                           *)
generateNewArtifacts(doms, ports, known) ==
    LET new == (doms \X ports) \ known
        hosts == SetToSeq({Derived(h[1], h[2]) : h \in new})
    IN  /\ knownHosts' = known \cup new
        /\ published' = published \o hosts
        /\ inflight' = [inflight EXCEPT !["deriver"] =
               @ \cup (Len(published) + 1..Len(published) + Len(hosts))]

(* The next event, taken from the channel while nothing else is handled.   *)
NextEvent == Head(chan["deriver"])
Take ==
    /\ resolving = 0 /\ chan["deriver"] # <<>>
    /\ chan' = [chan EXCEPT !["deriver"] = Tail(@)]
    /\ received' = received \cup {NextEvent}

(* Variant: what others found is not remembered.                           *)
KnownWith_OnlyDerived(a) == knownHosts

KnownWith(a) == IF a.type = "host" THEN knownHosts \cup {<<a.name, a.port>>} ELSE knownHosts

(* Variant: a new port generates nothing.                                  *)
HandleIPHost_NoGenerate ==
    /\ Take
    /\ LET a == published[NextEvent]
       IN  /\ a.type = "host" /\ a.name \in IP
           /\ portsOf' = [portsOf EXCEPT ![a.name] = @ \cup {a.port}]
           /\ generateNewArtifacts(domainsOf[a.name], portsOf[a.name], KnownWith(a))
    /\ UNCHANGED <<dnsVars, domainsOf, lapsed, resolving, panicked, switched>>

(* addHost of ip:port.  addIP has nothing to add that addPort has not.     *)
HandleIPHost ==
    /\ Take
    /\ LET a == published[NextEvent]
       IN  /\ a.type = "host" /\ a.name \in IP
           /\ portsOf' = [portsOf EXCEPT ![a.name] = @ \cup {a.port}]
           /\ generateNewArtifacts(domainsOf[a.name], portsOf'[a.name], KnownWith(a))
    /\ UNCHANGED <<dnsVars, domainsOf, lapsed, resolving, panicked, switched>>

(* addDomain of a domain, or of the domain of a host, whose address must   *)
(* then be looked up once more.  A failed lookup is logged and forgotten.  *)
HandleDomain ==
    /\ Take
    /\ LET a == published[NextEvent]
           known == {ip \in IP : a.name \in domainsOf[ip]}
       IN  /\ a.name \in Domain
           /\ resolving' = IF a.type = "host" THEN NextEvent ELSE 0
           /\ \E ip \in Key :
                 /\ IF known = {} THEN Lookup(a.name, ip)
                                  ELSE ip \in known /\ UNCHANGED dnsVars
                 /\ IF ip = None
                    THEN /\ knownHosts' = KnownWith(a)
                         /\ UNCHANGED <<domainsOf, published, inflight>>
                    ELSE /\ domainsOf' = [domainsOf EXCEPT ![ip] = @ \cup {a.name}]
                         /\ generateNewArtifacts(domainsOf'[ip], portsOf[ip], KnownWith(a))
    /\ UNCHANGED <<portsOf, lapsed, panicked, switched>>

(* The rest of addHost of domain:port.  The ip it looks up is not the ip   *)
(* it declared before, which stays nil: the port is filed under "<nil>",   *)
(* where no domain ever is.                                                *)
ResolveHost ==
    /\ resolving # 0
    /\ LET a == published[resolving]
       IN  \E ip \in Key :
              /\ Lookup(a.name, ip)
              /\ IF ip = None
                 THEN panicked' = a.name /\ UNCHANGED <<mapVars, published, inflight>>
                 ELSE /\ generateNewArtifacts(domainsOf[ip], portsOf[ip], knownHosts)
                      /\ portsOf' = [portsOf EXCEPT ![None] = @ \cup {a.port}]
                      /\ UNCHANGED <<domainsOf, panicked>>
    /\ resolving' = 0
    /\ UNCHANGED <<chan, received, lapsed, switched>>

(* The week of an entry ends; an object is replaced by the other; and the  *)
(* scheduler's goroutine looks a domain up.                                *)
EntryExpires ==
    /\ \E d \in Lapsing : Expire(d) /\ lapsed' = lapsed \cup {d}
    /\ UNCHANGED <<busVars, mapVars, published, received, resolving, panicked, switched>>

(* The deriver found no object for its first lookup and made one, and so   *)
(* did the scheduler's goroutine, whose object it finds from now on.       *)
SwitchObject ==
    /\ ~switched /\ switched' = TRUE
    /\ \E e \in received : published[e].name \in Domain
    /\ OtherObject
    /\ lapsed' = lapsed \cup {d \in Domain : Cached(d) /\ cache'[d] = None}
    /\ UNCHANGED <<busVars, mapVars, published, received, resolving, panicked>>

SchedulerLooksUp ==
    /\ \E d \in Domain, ip \in Key : Lookup(d, ip)
    /\ UNCHANGED <<busVars, mapVars, historyVars, resolving, panicked, switched>>

DeriverStep == HandleIPHost \/ HandleDomain \/ ResolveHost

DeriverNext ==
    /\ panicked = None
    /\ \/ \E a \in Given : Submit(a)
       \/ DeliverEvent \/ DeriverStep
       \/ EntryExpires \/ SwitchObject \/ SchedulerLooksUp

DeriverSpec == DeriverInit /\ [][DeriverNext]_deriverVars
DeriverFairSpec ==
    /\ DeriverSpec
    /\ WF_deriverVars(panicked = None /\ DeliverEvent)
    /\ WF_deriverVars(panicked = None /\ DeriverStep)

-----------------------------------------------------------------------------
(* A host is derived once, and not after its own event was handled,        *)
(* although everything derived comes back as an event and the addresses of *)
(* a domain may change.  A scanner's host that still waits in the channel  *)
(* does not count: the deriver may publish it a second time.               *)
SameHost(a, b) == <<a.type, a.name, a.port>> = <<b.type, b.name, b.port>>

DerivedOnce ==
    [][\A n \in Len(published) + 1..Len(published') :
          published'[n].derived =>
              \A m \in 1..n - 1 :
                  SameHost(published'[m], published'[n]) =>
                      ~published'[m].derived /\ m \notin received']_deriverVars

(* The join is complete: whichever came first, the domain or the host, a   *)
(* domain filed under an address has every port received for the address.  *)
Complete ==
    \A ip \in IP : \A d \in domainsOf[ip], e \in received :
        published[e].type = "host" /\ published[e].name = ip
            => <<d, published[e].port>> \in knownHosts

(* Once a domain is filed, a host of it ends the process only after the    *)
(* domain has lost its cache entry: a week has passed, or the object that  *)
(* the second GetDNSCache of addHost returns is not the one that getIPFor- *)
(* Domain filled.  Otherwise log.Panicf does not depend on the resolver.   *)
PanicNeedsLostEntry ==
    panicked # None /\ (\E ip \in IP : panicked \in domainsOf[ip]) => panicked \in lapsed

(* The inductive invariant.  An event names a published artifact; received *)
(* and derived hosts are known; and for each address the two maps, filled  *)
(* from the hosts and the domains, have been joined.                       *)
DeriverTypeOK ==
    /\ published \in Seq([type : {"domain", "host"}, name : Name,
                           port : Port \cup {None}, derived : BOOLEAN])
    /\ inflight \in [Subscriber -> SUBSET DOMAIN published]
    /\ chan \in [Subscriber -> Seq(DOMAIN published)]
    /\ received \subseteq DOMAIN published /\ resolving \in DOMAIN published \cup {0}
    /\ knownHosts \subseteq Name \X Port
    /\ domainsOf \in [IP -> SUBSET Domain] /\ portsOf \in [Key -> SUBSET Port]
    /\ \A ip \in IP : IsFiniteSet(domainsOf[ip])
    /\ \A key \in Key : IsFiniteSet(portsOf[key])
    /\ cache \in [Domain -> IP \cup {None}]
Hosts(e) == published[e].type = "host" => published[e].port \in Port
HostKnown(e) == published[e].type = "host" => <<published[e].name, published[e].port>> \in knownHosts
Filed(d) == \E ip \in IP : d \in domainsOf[ip]
DeriverInv ==
    /\ DeriverTypeOK /\ PanicNeedsLostEntry
    /\ \A e \in DOMAIN published : Hosts(e) /\ (published[e].derived => HostKnown(e))
    /\ \A e \in received : HostKnown(e)
    /\ \A e \in received : published[e].type = "host" /\ published[e].name \in IP
          => published[e].port \in portsOf[published[e].name]
    /\ resolving # 0 => published[resolving].type = "host" /\ published[resolving].name \in Domain
    /\ \A ip \in IP : domainsOf[ip] \X portsOf[ip] \subseteq knownHosts
    /\ \A d \in Domain : Filed(d) => d \in lapsed \/ Cached(d)

(* A host published for an address a domain is filed under reaches that    *)
(* domain, unless the process ends.                                        *)
DerivedEventually ==
    \A ip \in IP, d \in Domain, p \in Port :
        (d \in domainsOf[ip] /\ \E a \in ToSet(published) :
            a.type = "host" /\ a.name = ip /\ a.port = p)
        ~> (panicked # None \/ <<d, p>> \in knownHosts)
=============================================================================
