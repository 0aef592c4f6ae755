----------------------------- MODULE MCPipeline -----------------------------
(***************************************************************************)
(* Four small scans, of an address and of a domain.                        *)
(*                                                                         *)
(*  - d1 and its address: WordPress on http and on https, with one version *)
(*    on both.  A merge of the two reports loses the site.                 *)
(*  - d2 and its address.  d2 redirects; its subdomain d3 on the same      *)
(*    address is in scope for that reason and answers on https only.       *)
(*  - 127.0.0.1, which katana crawls by the name of localhost: WordPress on*)
(*    two pages, with and without its version.                             *)
(*  - d5, whose subdomain d4 is out of scope.                              *)
(*                                                                         *)
(* The default templates have the inputs and flags of their config.yaml.   *)
(***************************************************************************)
EXTENDS Pipeline

CONSTANTS d1, d2, d3, d4, d5, localhost, ip1, ip2, ip3, loopback, wp, theme, bug, leak, v1,
          root, blog, p80, p443

MCInputs == [nuclei |-> {"domain", "ip"}, nmap |-> {"ip"}, subfinder |-> {"domain"},
             katana |-> {"host"}, wapalyzer |-> {"httpmsg"}, wpscan |-> {"technology"},
             deriver |-> {"host", "domain"}]
MCInstances == [t \in Template |-> IF t = "katana" THEN 2 ELSE 1]

MCResolve == [d \in Domain |->
    CASE d = d1 -> ip1 [] d \in {d2, d3, d5} -> ip2 [] d = d4 -> ip3 [] d = localhost -> loopback]
MCEvent ==
    LET Place(x, s) == CHOOSE i \in DOMAIN s : s[i] = x
    IN  [h \in Domain \X Port |-> MaxArtifacts + 2 * Place(h[1], <<d1, d2, d3, d4, d5, localhost>>)
                                    + Place(h[2], <<p80, p443>>)]
TargetsOf(addrs, doms) ==
    [i \in DOMAIN addrs |-> Message("ip", addrs[i], None, None, None)]
    \o [i \in DOMAIN doms |-> Message("domain", doms[i], None, None, None)]
MCScopes == {TargetsOf(<<ip1>>, <<d1>>), TargetsOf(<<ip2>>, <<d2>>), TargetsOf(<<loopback>>, <<>>), TargetsOf(<<>>, <<d5>>)}

MCOpenPorts == [i \in IP |->
    CASE i = ip1 -> {p80, p443} [] i \in {ip2, loopback} -> {p80} [] i = ip3 -> {}]
MCProtocols == [h \in Name \X Port |->
    CASE h \in {<<d1, p80>>, <<localhost, p80>>} -> {"http", "https"}
      [] h = <<d2, p80>> -> {"http"}
      [] h \in {<<d1, p443>>, <<d3, p80>>} -> {"https"}
      [] OTHER -> {}]
Page(scheme, n, path) == [scheme |-> scheme, host |-> n, path |-> path]
MCRedirects == {<<d2, p80>>}
MCScopeIPs == IP \ {ip3}
MCPages == [h \in Name \X Port |->
    CASE h = <<d1, p80>> -> {Page("http", d1, root)}
      [] h = <<d1, p443>> -> {Page("https", d1, root)}
      [] h = <<localhost, p80>> -> {Page("http", localhost, p) : p \in {root, blog}}
      [] OTHER -> {}]
MCAborted == [h \in Name \X Port |->
    IF h = <<d3, p80>> THEN {Page("https", d3, root)} ELSE {}]
MCFingerprints == [u \in AnyURL |->
    IF u.host \notin {d1, localhost} THEN {}
    ELSE {<<wp, IF u.path = blog THEN None ELSE v1>>}]
MCReport == [n \in Name |->
    [version |-> v1, vulnerabilities |-> {},
     findings |-> IF n = localhost THEN {<<bug, Page("http", n, blog)>>} ELSE {},
     themes |-> IF n = localhost THEN {<<theme, v1, Page("http", n, blog)>>} ELSE {},
     plugins |-> {}]]
MCSubdomains == [d \in Domain |-> CASE d = d2 -> {d3} [] d = d5 -> {d4} [] OTHER -> {}]
MCPartOf == {<<d, d>> : d \in Domain} \cup {<<d2, d3>>, <<d5, d4>>}
MCMatches == [n \in Name |-> IF n = d2 THEN {leak} ELSE {}]
=============================================================================
