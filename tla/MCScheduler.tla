---------------------------- MODULE MCScheduler ----------------------------
(***************************************************************************)
(* Small instances of Scheduler: one template, or a chain of three in which*)
(* containers post a host of the target and pages of another site; a scope *)
(* of one target.                                                          *)
(***************************************************************************)
EXTENDS Scheduler

CONSTANTS d1, d2, ip1, product, version, path1, n1, k1, a1

NoUrl(type, value, ip) ==
    [type |-> type, value |-> value, port |-> None, ip |-> ip, url |-> None, version |-> None]

MCInputs == [nuclei |-> {"domain", "ip"}, katana |-> {"host"},
             wapalyzer |-> {"httpmsg"}]
MCRateLimitType == [t \in Template |->
    IF t = "wapalyzer" THEN "disabled" ELSE "per_domain"]
MCTemplateOf == [i \in Instance |->
    CASE i = n1 -> "nuclei" [] i = k1 -> "katana" [] i = a1 -> "wapalyzer"]
MCResolve == [d \in Domain |-> IF d = d1 THEN ip1 ELSE None]
NoVserver == [n \in Name |-> None]

OneTemplate == <<"nuclei">>
ThreeTemplates == <<"nuclei", "katana", "wapalyzer">>

ADomain == NoUrl("domain", d1, None)
AHost == NoUrl("host", d1, ip1)

APage == [type |-> "httpmsg", value |-> None, port |-> None, ip |-> None,
          url |-> [scheme |-> "http", host |-> d2, path |-> path1], version |-> None]

OnlyDomains == {ADomain}
HostAndPage == {AHost, APage}
DomainScope == <<ADomain>>
=============================================================================
