----------------------------- MODULE RateLimiter -----------------------------
(***************************************************************************)
(* The process-wide rate limiter (rate_limiter.go) and the keys under      *)
(* which the queues (rate_limited_artifact_queue.go) allocate in it.       *)
(*                                                                         *)
(* Every method locks the mutex for its whole body, so each is a function  *)
(* from the limiter's state to its next state.  The state is the record    *)
(* [domains, ips, vserver] of the three maps: two sets, because the values *)
(* of those maps are empty structs, and a function.  IsDomainInUse,        *)
(* IsIPInUse and isVserverForDomainInUse have no caller and are left out.  *)
(***************************************************************************)
EXTENDS Artifact

CONSTANTS
    Vserver,   \* the names of virtual servers
    VserverOf  \* domainVserverMapping, "*." patterns expanded

ASSUME VserverAssumption ==
    /\ VserverOf \in [Name -> Vserver \cup {None}]
    /\ None \notin Vserver

RateLimitTypes == {"disabled", "per_domain", "per_ip"}

Limiter == [domains : SUBSET Name, ips : SUBSET IP,
            vserver : [Vserver -> Name \cup {None}]]

NewLimiter == [domains |-> {}, ips |-> {}, vserver |-> [v \in Vserver |-> None]]

(* A key names the map and the entry of one allocation.  NoKey is the key  *)
(* of an artifact that is admitted without an allocation.                  *)
NoKey == [map |-> "none", name |-> None]
DomainKey(d) == [map |-> "domains", name |-> d]
IPKey(ip) == [map |-> "ips", name |-> ip]
LimiterKey == {NoKey} \cup {DomainKey(d) : d \in Name} \cup {IPKey(ip) : ip \in IP}

Allocated(l, k) ==
    \/ k.map = "domains" /\ k.name \in l.domains
    \/ k.map = "ips" /\ k.name \in l.ips

(* The values of r.vserver are domains, and they are compared with the     *)
(* name of a virtual server.                                               *)
VserverPanics(l, d) ==
    VserverOf[d] # None /\ \E v \in Vserver : l.vserver[v] = VserverOf[d]

setVserverInUse(l, d) ==
    [l EXCEPT !.vserver = [v \in Vserver |->
        IF v = VserverOf[d] THEN d ELSE l.vserver[v]]]

SetDomainInUse(l, d) ==
    setVserverInUse([l EXCEPT !.domains = l.domains \cup {d}], d)

SetIPInUse(l, ip) == [l EXCEPT !.ips = l.ips \cup {ip}]

(* delete(r.vserver, domain): an entry is removed under a domain's name,   *)
(* while setVserverInUse entered it under a virtual server's.              *)
ReleaseDomain(l, d) ==
    IF d \in l.domains
    THEN [l EXCEPT !.domains = l.domains \ {d},
                   !.vserver = [v \in Vserver |->
                                    IF v = d THEN None ELSE l.vserver[v]]]
    ELSE l

ReleaseIP(l, ip) == [l EXCEPT !.ips = l.ips \ {ip}]

-----------------------------------------------------------------------------
(* The queue's use of the limiter.                                         *)

(* per_domain falls back to the IP; per_ip never looks at the domain.      *)
LimitKey(type, a) ==
    LET domain == GetDomainFromArtifact(a)
        ip == GetIPFromArtifact(a)
    IN  IF type = "per_domain" /\ domain # None THEN DomainKey(domain)
        ELSE IF type # "disabled" /\ ip # None THEN IPKey(ip)
        ELSE NoKey

Allocate(l, k) ==
    CASE k.map = "domains" -> SetDomainInUse(l, k.name)
      [] k.map = "ips" -> SetIPInUse(l, k.name)
      [] k.map = "none" -> l

Release(l, k) ==
    CASE k.map = "domains" -> ReleaseDomain(l, k.name)
      [] k.map = "ips" -> ReleaseIP(l, k.name)
      [] k.map = "none" -> l

(* Variant: technologies are not counted as rate limited.                  *)
IsRateLimitedArtifact_NoTechnology(a) == a.type \in {"host", "domain", "ip"}
(* Variant: hosts are not counted as rate limited.                         *)
IsRateLimitedArtifact_NoHost(a) == a.type \in {"domain", "ip", "technology"}

IsRateLimitedArtifact(a) == a.type \in {"host", "domain", "ip", "technology"}

(* Variant: the allocation of the address is freed, not the domain's.      *)
FreeKey_OfAddress(type, a) == LimitKey("per_ip", a)

FreeKey(type, a) == IF IsRateLimitedArtifact(a) THEN LimitKey(type, a) ELSE NoKey

FreeRateLimitAllocation(l, type, a) == Release(l, FreeKey(type, a))
=============================================================================
