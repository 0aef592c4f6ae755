-------------------------------- MODULE Scope --------------------------------
(***************************************************************************)
(* The scope (internal/scheduler/scope.go): how the operator's lists       *)
(* become targets at start-up, and which artifacts are accepted later.     *)
(* Dispatch abstracts all of this to the set of possible verdicts.  The    *)
(* addresses of this module are byte sequences, see IPRange.               *)
(***************************************************************************)
EXTENDS DNSCache, IPRange, SequencesExt

CONSTANTS
    Config,  \* the configurations an operator may write
    Asked    \* the artifacts templates may ask about

ASSUME ScopeAssumption ==
    /\ IP \subseteq Bytes \cup {<<>>}
    /\ \A c \in Config :
          /\ c.ips \in Seq(Notation) /\ c.excludedIPs \in Seq(Notation)
          /\ c.domains \in Seq(Domain) /\ c.excludedDomains \in Seq(Domain)
          /\ c.domainlist \in Seq(Domain)
    /\ \A a \in Asked : WellFormed(a)

VARIABLES
    config,    \* scope of config.yaml, and the lines of domainlist.txt
    domains,   \* Scope.domains
    step,      \* where deriveArtifactsFromScope is
    cursor,    \* the index of its innermost list
    kept,      \* the lines of domainlist.txt kept so far
    current,   \* the address Iterate yields next
    ipsOut,    \* history: the addresses published
    domainsOut,\* history: the domains published
    accepted   \* history: the artifacts accepted, with the domains then listed

runVars == <<step, cursor, kept, current>>
outVars == <<ipsOut, domainsOut, accepted>>
scopeVars == <<dnsVars, config, domains, runVars, outVars>>

(* parseIPRanges.                                                          *)
Ranges(notations) == [n \in DOMAIN notations |-> NewIPRangeFromString(notations[n])]
ips == Ranges(config.ips)
excludedIPs == Ranges(config.excludedIPs)

(* Variant: the exclusions are not looked at.                              *)
IsIPInScope_NoExclusion(ip) ==
    ips = <<>> \/ \E r \in ToSet(ips) : RangeContains(r, ip)

IsIPInScope(ip) ==
    /\ ~ \E r \in ToSet(excludedIPs) : RangeContains(r, ip)
    /\ ips = <<>> \/ \E r \in ToSet(ips) : RangeContains(r, ip)

IsDomainInScope(d) ==
    /\ d \notin ToSet(config.excludedDomains)
    /\ domains = <<>> \/ d \in ToSet(domains)

(* IsDomainsIPInScope when Lookup returns ip.                              *)
InScopeAs(ip) == ip # None /\ IsIPInScope(ParseIP(ip))

ScopeInit ==
    /\ DNSInit
    /\ config \in Config
    /\ domains = config.domains
    /\ step = "domainlist" /\ cursor = 1 /\ kept = <<>> /\ current = NoIP
    /\ ipsOut = <<>> /\ domainsOut = <<>> /\ accepted = {}

-----------------------------------------------------------------------------
(* NewScopeFromViperConfig: the lines of domainlist.txt, then the merge.   *)

(* Variant: a line whose lookup failed is kept.                            *)
ReadLine_KeepUnresolved ==
    /\ step = "domainlist" /\ cursor <= Len(config.domainlist)
    /\ LET line == config.domainlist[cursor]
       IN  \E ip \in IP \cup {None} :
              /\ Lookup(line, ip)
              /\ kept' = IF ip = None \/ InScopeAs(ip) THEN Append(kept, line) ELSE kept
    /\ cursor' = cursor + 1
    /\ UNCHANGED <<config, domains, step, current, outVars>>

ReadLine ==
    /\ step = "domainlist" /\ cursor <= Len(config.domainlist)
    /\ LET line == config.domainlist[cursor]
       IN  \E ip \in IP \cup {None} :
              /\ Lookup(line, ip)
              /\ kept' = IF InScopeAs(ip) THEN Append(kept, line) ELSE kept
    /\ cursor' = cursor + 1
    /\ UNCHANGED <<config, domains, step, current, outVars>>

MergeDomainlist ==
    /\ step = "domainlist" /\ cursor > Len(config.domainlist)
    /\ domains' = domains \o kept
    /\ step' = "ips" /\ cursor' = 0
    /\ UNCHANGED <<dnsVars, config, kept, current, outVars>>

(* IterateIPs, and the publication of what it yields.                      *)
StartRange ==
    /\ step = "ips" /\ current = NoIP /\ cursor < Len(ips)
    /\ cursor' = cursor + 1
    /\ current' = First(ips[cursor + 1])
    /\ UNCHANGED <<dnsVars, config, domains, step, kept, outVars>>

IterateIPs ==
    /\ step = "ips" /\ current # NoIP
    /\ ipsOut' = IF IsIPInScope(current) THEN Append(ipsOut, current.bytes) ELSE ipsOut
    /\ current' = NextIP(ips[cursor], current)
    /\ UNCHANGED <<dnsVars, config, domains, step, cursor, kept, domainsOut, accepted>>

StartDomains ==
    /\ step = "ips" /\ current = NoIP /\ cursor = Len(ips)
    /\ step' = "domains" /\ cursor' = 1
    /\ UNCHANGED <<dnsVars, config, domains, kept, current, outVars>>

IterateDomains ==
    /\ step = "domains" /\ cursor <= Len(domains)
    /\ domainsOut' = IF IsDomainInScope(domains[cursor])
                     THEN Append(domainsOut, domains[cursor]) ELSE domainsOut
    /\ cursor' = cursor + 1
    /\ UNCHANGED <<dnsVars, config, domains, step, kept, current, ipsOut, accepted>>

EndScope ==
    /\ step = "domains" /\ cursor > Len(domains)
    /\ step' = "done"
    /\ UNCHANGED <<dnsVars, config, domains, cursor, kept, current, outVars>>

-----------------------------------------------------------------------------
(* The templates' question, asked by the loop that follows.  The domain    *)
(* alone decides if its name is in scope, then the address; only without   *)
(* an address is the domain resolved.                                      *)
IsArtifactInScope(a) ==
    LET d == GetDomainFromArtifact(a)
        ip == GetIPFromArtifact(a)
        byName == d # None /\ IsDomainInScope(d)
    IN  /\ step = "done" /\ a \notin accepted
        /\ \/ byName /\ accepted' = accepted \cup {a} /\ UNCHANGED dnsVars
           \/ /\ ~byName /\ ip # None /\ InScopeAs(ip)
              /\ accepted' = accepted \cup {a} /\ UNCHANGED dnsVars
           \/ /\ ~byName /\ ip = None /\ d # None
              /\ \E answer \in IP \cup {None} :
                    /\ Lookup(d, answer)
                    /\ accepted' = accepted \cup (IF InScopeAs(answer) THEN {a} ELSE {})
        /\ UNCHANGED <<config, domains, runVars, ipsOut, domainsOut>>

EntryExpires == (\E d \in Domain : Expire(d)) /\ UNCHANGED <<config, domains, runVars, outVars>>

StartUp == ReadLine \/ MergeDomainlist \/ StartRange \/ IterateIPs \/ StartDomains
           \/ IterateDomains \/ EndScope

ScopeNext == StartUp \/ (\E a \in Asked : IsArtifactInScope(a)) \/ EntryExpires

ScopeSpec == ScopeInit /\ [][ScopeNext]_scopeVars
ScopeFairSpec == ScopeSpec /\ WF_scopeVars(StartUp)

-----------------------------------------------------------------------------
(* A second definition of the addresses a notation stands for: numbers.    *)

NumbersUpTo(b) ==
    LET number[i \in 0..Width] == IF i = 0 THEN 0 ELSE number[i - 1] * Base + b[i]
    IN  number
Number(b) == NumbersUpTo(b)[Width]

Denotes(n, b) ==
    LET size == 2^(Width * Bits - n.ones)
    IN  /\ b # <<>>
        /\ CASE n.kind = "cidr" -> Number(b) \div size = Number(n.ip) \div size
             [] n.kind = "bounds" -> Number(b) \in Number(n.from)..Number(n.to)
             [] n.kind = "single" -> b = n.ip

Allowed(b) ==
    /\ ~ \E n \in ToSet(config.excludedIPs) : Denotes(n, b)
    /\ config.ips = <<>> \/ \E n \in ToSet(config.ips) : Denotes(n, b)

(* When the iteration is over, each address has been published once per    *)
(* notation that stands for it, and not at all if it is excluded: the      *)
(* byte arithmetic of mask, carry and comparison loses and repeats none.   *)
IterationExact ==
    step \in {"domains", "done"} =>
        \A b \in Bytes :
            Cardinality({n \in DOMAIN ipsOut : ipsOut[n] = b}) =
                IF Allowed(b)
                THEN Cardinality({n \in DOMAIN config.ips : Denotes(config.ips[n], b)})
                ELSE 0

(* A domain is published because config.yaml lists it or because an        *)
(* address it resolves to is allowed, whatever the cache held and however  *)
(* the resolver failed, and never if it is excluded by name.               *)
PublishedForReason ==
    \A d \in ToSet(domainsOut) :
        /\ d \notin ToSet(config.excludedDomains)
        /\ d \in ToSet(config.domains) \/ \E b \in Answers[d] : Allowed(b)

(* An artifact is not accepted if both of its sides are out of scope: its  *)
(* domain is excluded or missing from a list that is not empty, and so is  *)
(* its address, or each that its domain resolves to, whatever the cache    *)
(* held.  Which side decides, and what an empty list means, is left open.  *)
DomainOut(d) ==
    \/ d = None \/ d \in ToSet(config.excludedDomains)
    \/ domains # <<>> /\ d \notin ToSet(domains)
AddressOut(b) ==
    \/ \E n \in ToSet(config.excludedIPs) : Denotes(n, b)
    \/ config.ips # <<>> /\ ~ \E n \in ToSet(config.ips) : Denotes(n, b)

AddressesOf(a) ==
    IF GetIPFromArtifact(a) # None THEN {GetIPFromArtifact(a)}
    ELSE IF GetDomainFromArtifact(a) # None THEN Answers[GetDomainFromArtifact(a)] ELSE {}

OutOfBothStaysOut ==
    \A a \in accepted : ~(DomainOut(GetDomainFromArtifact(a)) /\ \A b \in AddressesOf(a) : AddressOut(b))

(* The start-up ends, and the loop over the templates begins.              *)
ScopeEnds == <>(step = "done")

(* What config.yaml says of its lists: without ips nothing is scanned for  *)
(* its address (line 20), a list of domains that is not empty is all that  *)
(* is scanned (23), and what is excluded is not, even if it is in the scope*)
(* otherwise (26, 27).                                                     *)
ListsObeyed ==
    \A a \in accepted :
        LET d == GetDomainFromArtifact(a)
            ip == GetIPFromArtifact(a)
        IN  /\ config.ips = <<>> => d # None /\ IsDomainInScope(d)
            /\ domains # <<>> /\ d # None => d \in ToSet(domains)
            /\ ip # None => ~ \E n \in ToSet(config.excludedIPs) : Denotes(n, ip)
            /\ d \notin ToSet(config.excludedDomains)
=============================================================================
