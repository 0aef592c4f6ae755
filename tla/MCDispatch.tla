----------------------------- MODULE MCDispatch -----------------------------
(***************************************************************************)
(* Small instances of Dispatch.  The templates have the inputs and the     *)
(* rate_limit_type of the scanners in the repository; the contents are     *)
(* artifacts those scanners, the scope and the derivation of hosts send.   *)
(***************************************************************************)
EXTENDS Dispatch

CONSTANTS d1, d2, ip1, product, version, path1, path2,
          vs,                  \* a virtual server
          n1, n2, k1, m1, a1, w1   \* instances of nuclei, katana, nmap,
                                   \* wapalyzer and wpscan

NoUrl(type, value, ip) ==
    [type |-> type, value |-> value, port |-> None, ip |-> ip, url |-> None, version |-> None]
Url(scheme, host, path) == [scheme |-> scheme, host |-> host, path |-> path]
Tech(url, v) ==
    [type |-> "technology", value |-> product, port |-> None, ip |-> None, url |-> url, version |-> v]

MCInputs == [nuclei |-> {"domain", "ip"}, katana |-> {"host"},
             nmap |-> {"ip"}, wapalyzer |-> {"httpmsg"}, wpscan |-> {"technology"}]
MCRateLimitType == [t \in Template |->
    CASE t = "nmap" -> "per_ip" [] t = "wapalyzer" -> "disabled" [] OTHER -> "per_domain"]
MCTemplateOf == [i \in Instance |->
    CASE i \in {n1, n2} -> "nuclei" [] i = k1 -> "katana"
      [] i = m1 -> "nmap" [] i = a1 -> "wapalyzer" [] i = w1 -> "wpscan"]
MCResolve == [d \in Domain |-> IF d = d1 THEN ip1 ELSE None]
NoVserver == [n \in Name |-> None]
OneVserver == [n \in Name |-> IF n \in Domain THEN vs ELSE None]

(* nuclei and katana compete for one domain, and all three templates for   *)
(* one address: that of the domain, and of a host known by its address.    *)
Targets ==
    {NoUrl("domain", d1, None), NoUrl("host", d1, ip1),
     NoUrl("ip", ip1, None), NoUrl("host", ip1, ip1)}

(* One technology on two pages of a site, with and without its version,    *)
(* the domain of the site, and another domain.                             *)
Technologies ==
    {NoUrl("domain", d1, None), NoUrl("domain", d2, None),
     Tech(Url("http", d1, path1), None), Tech(Url("http", d1, path2), version)}

(* The same technology behind http and https.                              *)
BothSchemes ==
    {Tech(Url("http", d1, path1), None), Tech(Url("https", d1, path1), None)}

(* A technology found at the address of a site that has no domain.         *)
AddressSite == {NoUrl("ip", ip1, None), Tech(Url("http", ip1, path1), None)}
=============================================================================
