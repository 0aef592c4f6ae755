------------------------------ MODULE Scanners ------------------------------
(***************************************************************************)
(* The work functions of the Go scanners (scanners/*/main.go): for an      *)
(* artifact, the set of artifacts a container posts to the master.  What   *)
(* the scanned sites and the tools answer are constants; texts, severities *)
(* and scores are left out.  Findings keep their title as value.           *)
(***************************************************************************)
EXTENDS Artifact

CONSTANTS
    WordPress,     \* the product that wpscan scans
    OpenPorts,     \* OpenPorts[ip]: the open ports of an address
    Loopback,      \* 127.0.0.1, or None if it is no address of the scan,
    Localhost,     \* and the name that katana uses in its place
    Protocols,     \* Protocols[h]: the protocols in which h, a name with a port, does not answer 400
    Redirects,     \* those h whose URL redirects to https of the name itself
    Pages,         \* Pages[h]: the URLs of the name that a crawl of h gets with a response
    Aborted,       \* Aborted[h]: those whose request is aborted
    Fingerprints,  \* Fingerprints[u]: products with versions, on the page u
    Report,        \* Report[n]: what wpscan reports
    Subdomains,    \* Subdomains[d]: what subfinder finds
    PartOf,        \* pairs <<d, e>> such that the text of e contains that of d
    Matches        \* Matches[n]: the titles that nuclei matches

HostPort == Name \X Port
SiteURL(n) == [scheme : {"http", "https"}, host : {n}, path : Path \cup {None}]
AnyURL == UNION {SiteURL(n) : n \in Name}

(* Themes and interesting findings have a URL of their own.  The value of a*)
(* theme has a prefix, and that of a plugin is its version: neither is     *)
(* "WordPress".                                                            *)
ReportType == [version : Version \cup {None},
               vulnerabilities : SUBSET Product,
               findings : SUBSET (Product \X AnyURL),
               themes : SUBSET ((Product \ {WordPress}) \X Version \X AnyURL),
               plugins : SUBSET (Product \ {WordPress})]

ASSUME ScannersAssumption ==
    /\ WordPress \in Product /\ None \notin Port
    /\ OpenPorts \in [IP -> SUBSET Port]
    /\ Loopback \in IP => Localhost \in Domain
    /\ Loopback \notin IP => Loopback = None
    /\ Protocols \in [HostPort -> SUBSET {"http", "https"}] /\ Redirects \subseteq HostPort
    /\ DOMAIN Pages = HostPort /\ DOMAIN Aborted = HostPort
    /\ \A h \in HostPort : Pages[h] \cup Aborted[h] \subseteq SiteURL(h[1])
    /\ Fingerprints \in [AnyURL -> SUBSET (Product \X (Version \cup {None}))]
    /\ Report \in [Name -> ReportType] /\ Matches \in [Name -> SUBSET Product]
    /\ Subdomains \in [Domain -> SUBSET Domain] /\ PartOf \subseteq Domain \X Domain
    /\ \A d \in Domain : <<d, d>> \in PartOf

Message(type, value, ip, url, version) ==
    [type |-> type, value |-> value, port |-> None, ip |-> ip, url |-> url, version |-> version]
Host(n, p, ip) == [Message("host", n, ip, None, None) EXCEPT !.port = p]

(* The types with which a work function does not panic.                    *)
Accepts(t) ==
    CASE t = "nuclei" -> {"domain", "ip"}
      [] t = "nmap" -> {"ip"}
      [] t = "subfinder" -> {"domain"}
      [] t = "katana" -> {"host"}
      [] t = "wapalyzer" -> {"httpmsg"}
      [] t = "wpscan" -> {"technology"}

-----------------------------------------------------------------------------
Front(n) == [scheme |-> "http", host |-> n, path |-> None]

nuclei(a) == {Message("finding", title, None, Front(a.value), None) : title \in Matches[a.value]}

nmap(a) == {Host(a.value, p, a.value) : p \in OpenPorts[a.value]}

(* d is a subdomain of one that was enumerated, or only looks like one.    *)
SkipsDomain(d, scanned) == \E e \in scanned : <<e, d>> \in PartOf

subfinder(a) == {Message("domain", d, None, Front(d), None) : d \in Subdomains[a.value]}

(* katana does not take 127.0.0.1 as a scope.                              *)
CrawlName(n) == IF n = Loopback THEN Localhost ELSE n
CrawlHost(h) == <<CrawlName(h[1]), h[2]>>

(* Plain http is preferred, and the first answer decides, for each port.   *)
getProtcolString(h) ==
    IF "http" \in Protocols[h] THEN "http"
    ELSE IF "https" \in Protocols[h] THEN "https" ELSE None

checkForRedirectToHTTPS(h) == h \in Redirects

Crawls(h) == getProtcolString(h) # None /\ ~checkForRedirectToHTTPS(h)

(* handleResult of what is crawled, with and without a response.  A crawl  *)
(* stays on its host name; it may leave its port and its scheme.           *)
katana(a) ==
    LET h == CrawlHost(<<a.value, a.port>>)
    IN  IF ~Crawls(h) THEN {}
        ELSE {Message("httpmsg", u, None, u, None) : u \in Pages[h]}
             \cup {Message("url", u, None, u, None) : u \in Aborted[h]}

(* The location of the page is copied.                                     *)
wapalyzer(a) == {Message("technology", f[1], a.ip, a.url, f[2]) : f \in Fingerprints[a.url]}

(* Themes and interesting findings are located where they were found, all  *)
(* else at the URL scanned.  A URL that names no site is not scanned: the  *)
(* tool fails.                                                             *)
ScansSite(a) == a.value = WordPress /\ HostOf(a.url) # None
wpscan(a) ==
    LET r == Report[a.url.host]
    IN  IF ~ScansSite(a) THEN {}
        ELSE {Message("technology", WordPress, None, a.url, r.version)}
             \cup {Message("finding", title, None, a.url, None) : title \in r.vulnerabilities}
             \cup {Message("finding", f[1], None, f[2], None) : f \in r.findings}
             \cup {Message("technology", th[1], None, th[3], th[2]) : th \in r.themes}
             \cup {Message("technology", v, None, a.url, None) : v \in r.plugins}

(* What the work function of t posts for a, given subfinder's memory.      *)
Work(t, a, scanned) ==
    CASE t = "nuclei" -> nuclei(a)
      [] t = "nmap" -> nmap(a)
      [] t = "subfinder" -> IF SkipsDomain(a.value, scanned) THEN {} ELSE subfinder(a)
      [] t = "katana" -> katana(a)
      [] t = "wapalyzer" -> wapalyzer(a)
      [] t = "wpscan" -> wpscan(a)

(* The tools that may fail, of which the log alone says "skipping".        *)
Skippable(t, a) ==
    \/ t = "katana" /\ Crawls(CrawlHost(<<a.value, a.port>>))
    \/ t = "wapalyzer"
    \/ t = "wpscan" /\ ScansSite(a)

(* What has been posted by then: katana posts while it crawls.             *)
PostedBefore(t, a) == IF t = "katana" THEN SUBSET katana(a) ELSE {{}}
=============================================================================
