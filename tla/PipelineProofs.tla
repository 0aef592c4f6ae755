--------------------------- MODULE PipelineProofs ---------------------------
(***************************************************************************)
(* Proofs about a whole scan: what the scanners get and post, how often a  *)
(* WordPress site is scanned, and that "Finished!" means explored.         *)
(***************************************************************************)
EXTENDS Pipeline, FiniteSetTheorems, TLAPS

-----------------------------------------------------------------------------
(* The inductive invariant.                                                *)

ShowsScheme(scheme, n) == \E p \in Port : \E u \in Pages[<<n, p>>] : u.scheme = scheme

(* A page is located by the URL it is named by; WordPress is located on a  *)
(* scheme of one of its site's pages, unless a merge has lost the site.    *)
(* Nothing names an address that is not its own.                           *)
Located(a) ==
    /\ WellTyped(a)
    /\ a.port # None => a.type = "host"
    /\ a.type \in {"ip", "domain"} => a.ip = None /\ HostOf(a.url) \in {None, a.value}
    /\ a.type = "host" =>
          /\ a.url = None /\ a.port \in Port
          /\ a.ip = IF a.value \in IP THEN a.value ELSE Resolve[a.value]
    /\ a.type \in {"httpmsg", "technology"} => a.ip = None /\ a.url \in URL
    /\ a.type \in {"httpmsg", "url"} =>
          a.value = a.url /\ a.url \in URL /\ a.url.host \in Name
    /\ a.type = "httpmsg" => \E p \in Port : a.url \in Pages[<<a.url.host, p>>]
    /\ a.type = "technology" /\ a.value = WordPress /\ a.url.host # None =>
          ShowsScheme(a.url.scheme, a.url.host)

(* What points to an artifact that template t subscribes to.               *)
PointersFor(t) ==
    {k \in DOMAIN artifacts : artifacts[k].type \in Inputs[t]}
    \cup {e \in {Event[h] : h \in derived} : "host" \in Inputs[t]}

TypesInv ==
    /\ artifacts \in Seq(Artifact) /\ Len(artifacts) <= MaxArtifacts
    /\ \A k \in DOMAIN artifacts : Located(artifacts[k])
    /\ \A s \in Subscriber : inflight[s] \subseteq PointersFor(s)
    /\ DOMAIN inflight = Subscriber
    /\ \A w \in tasks :
          /\ w = [template |-> w.template, event |-> w.event,
                  artifact |-> w.artifact, results |-> w.results]
          /\ w.template \in Template /\ w.artifact.type \in Inputs[w.template]
          /\ \A a \in w.results : Located(a) /\ ~NamesNoSite(a)
    /\ domains \subseteq Domain /\ ips \subseteq IP \X Port /\ scannedDomains \subseteq Domain
    /\ derived = Joined(domains, ips)

(* A technology of a site is stored once.  Each scan of a site was started *)
(* for another WordPress artifact that has, or had before a merge, that    *)
(* site; and a merge loses a site only if it has pages on both schemes.    *)
TechnologyOf(k, value, n) ==
    /\ k \in DOMAIN artifacts
    /\ artifacts[k].type = "technology" /\ artifacts[k].value = value
    /\ artifacts[k].url.host = n

Sites(n) == {k \in DOMAIN artifacts : TechnologyOf(k, WordPress, n)} \cup Torn(WordPress, n)
Started(n) == {k \in Sites(n) : "wpscan" \in Template /\ k \notin inflight["wpscan"]}

ScansInv ==
    /\ \A j, k \in DOMAIN artifacts : \A value : \A n \in Name :
          TechnologyOf(j, value, n) /\ TechnologyOf(k, value, n) => j = k
    /\ scans \in [Name -> Nat]
    /\ \A n \in Name : scans[n] <= Cardinality(Started(n))
    /\ \A n \in Name : OneScheme(n) => Torn(WordPress, n) = {}
    /\ \A x \in torn : x[1] \in DOMAIN artifacts

(* What the storage keeps of an artifact whatever it is merged with, unless*)
(* that loses the site.                                                    *)
Trace(a) == <<a.type, a.value, a.port, HostOf(a.url)>>

(* It is stored, or posted before long, or was stored and lost its site.   *)
Lost(trace) == \E v, n : trace = <<"technology", v, None, n>> /\ Torn(v, n) # {}
Comes(trace) ==
    \/ \E k \in DOMAIN artifacts : Trace(artifacts[k]) = trace
    \/ \E w \in tasks : \E a \in w.results : Trace(a) = trace
    \/ Lost(trace)

(* Template t has had artifact a: dropped it, failed with it, or posted    *)
(* what its work function makes of it.                                     *)
Failed(t, a) == <<t, Subject(t, a)>> \in skipped

Handled(t, a) ==
    \/ t \notin IgnoreScope /\ ~InScope(a)
    \/ t \in {"katana", "wapalyzer", "wpscan"} /\ Failed(t, a)
    \/ t = "subfinder" /\ SkipsDomain(a.value, scannedDomains)
    \/ t # "subfinder" /\ \A r \in Work(t, a, {}) : Comes(Trace(r))

(* The deriver has filed the name of artifact a.                           *)
Filed(a) == a.value \in domains \/ (a.type = "host" /\ <<a.value, a.port>> \in ips)

ExploreInv ==
    /\ \A t \in Template : \A e \in PointersFor(t) : e \in inflight[t] \/ Handled(t, At(e))
    /\ \A d \in scannedDomains : \A e \in Subdomains[d] : Comes(<<"domain", e, None, e>>)
    /\ \A k \in PointersFor("deriver") : k \in inflight["deriver"] \/ Filed(At(k))
    /\ finished => tasks = {} /\ \A s \in Subscriber : inflight[s] = {}

PipelineInv == TypesInv /\ ScansInv /\ ExploreInv

-----------------------------------------------------------------------------
(* What the work functions post.                                           *)

(* The six scanners, and what each is subscribed to.                       *)
LEMMA Subscribed ==
    ASSUME NEW t \in Template
    PROVE  /\ t \in {"nuclei", "nmap", "subfinder", "katana", "wapalyzer", "wpscan"}
           /\ t = "nuclei" => Inputs[t] \subseteq {"domain", "ip"}
           /\ t = "nmap" => Inputs[t] \subseteq {"ip"}
           /\ t = "subfinder" => Inputs[t] \subseteq {"domain"}
           /\ t = "katana" => Inputs[t] \subseteq {"host"}
           /\ t = "wapalyzer" => Inputs[t] \subseteq {"httpmsg"}
           /\ t = "wpscan" => Inputs[t] \subseteq {"technology"}
<1>1. Inputs[t] \subseteq Accepts(t)
  BY PipelineAssumption
<1>2. t \in {"nuclei", "nmap", "subfinder", "katana", "wapalyzer", "wpscan"}
  BY PipelineAssumption
<1> QED
  BY <1>1, <1>2 DEF Accepts

(* A target, which has no location.                                        *)
LEMMA TargetLocated ==
    ASSUME NEW type \in {"domain", "ip"}, NEW value \in Name,
           type = "domain" => value \in Domain, type = "ip" => value \in IP
    PROVE  Located(Message(type, value, None, None, None))
<1>1. Message(type, value, None, None, None) \in Artifact
  BY DEF Message, Artifact, ArtifactType
<1> QED
  BY <1>1 DEF Message, Located, WellTyped, HostOf

(* A host is located by its address.                                       *)
LEMMA HostLocated ==
    ASSUME NEW n \in Name, NEW p \in Port, NEW ip \in IP \cup {None},
           ip = IF n \in IP THEN n ELSE Resolve[n]
    PROVE  Located(Host(n, p, ip)) /\ ~NamesNoSite(Host(n, p, ip))
<1> DEFINE h == Host(n, p, ip)
<1>1. /\ h = [type |-> "host", value |-> n, port |-> p, ip |-> ip, url |-> None, version |-> None]
  BY DEF Host, Message
<1>2. h \in Artifact
  BY <1>1 DEF Artifact, ArtifactType
<1> QED
  BY <1>1, <1>2 DEF Located, WellTyped, NamesNoSite

(* A message located by a URL of a site alone.                             *)
LEMMA SiteLocated ==
    ASSUME NEW type \in ArtifactType \ {"cms", "host", "ip"}, NEW value \in Name \cup Product \cup URL,
           NEW url \in URL, url.host \in Name, NEW version \in Version \cup {None},
           type = "domain" => value \in Domain /\ url.host = value,
           type \in {"httpmsg", "url"} => value = url,
           type = "httpmsg" => \E p \in Port : url \in Pages[<<url.host, p>>],
           type = "technology" /\ value = WordPress => ShowsScheme(url.scheme, url.host)
    PROVE  LET m == Message(type, value, None, url, version)
           IN  Located(m) /\ ~NamesNoSite(m)
<1>1. Message(type, value, None, url, version) \in Artifact
  BY DEF Message, Artifact
<1> QED
  BY <1>1, URLAssumption, NameAssumption
     DEF Message, Located, WellTyped, HostOf, NamesNoSite

LEMMA FrontType ==
    ASSUME NEW n \in Name
    PROVE  Front(n) \in URL /\ Front(n).host = n /\ Front(n) # None
BY URLAssumption DEF Front, URL

(* A URL of a site, and the site that is crawled for a host.               *)
LEMMA SiteURLType ==
    ASSUME NEW n \in Name, NEW u \in SiteURL(n)
    PROVE  u \in URL /\ u.host = n /\ u # None /\ u \in AnyURL
BY URLAssumption DEF SiteURL, URL, AnyURL

LEMMA AnyURLType ==
    ASSUME NEW u \in AnyURL
    PROVE  u \in URL /\ u.host \in Name /\ u # None
BY SiteURLType DEF AnyURL

LEMMA CrawlHostType ==
    ASSUME NEW n \in Name, NEW p \in Port
    PROVE  /\ CrawlHost(<<n, p>>) \in HostPort
           /\ CrawlHost(<<n, p>>) = <<CrawlName(n), p>> /\ CrawlName(n) \in Name
           /\ n \in Domain => CrawlName(n) = n
BY ScannersAssumption, NameAssumption DEF CrawlHost, CrawlName, HostPort, Name

(* What a work function posts can be stored and handed out again.          *)
LEMMA WorkLocated ==
    ASSUME NEW t \in Template, NEW a, Located(a), a.type \in Inputs[t], NEW scanned
    PROVE  \A r \in Work(t, a, scanned) : Located(r) /\ ~NamesNoSite(r)
<1> USE ScannersAssumption
<1>1. CASE t = "nuclei"
  <2>1. a.value \in Name
    BY <1>1, Subscribed DEF Located, WellTyped, Name
  <2>2. Matches[a.value] \subseteq Product
    BY <2>1
  <2>3. Front(a.value) \in URL /\ Front(a.value).host \in Name
    BY <2>1, FrontType
  <2>4. \A title \in Matches[a.value] :
           LET m == Message("finding", title, None, Front(a.value), None)
           IN  Located(m) /\ ~NamesNoSite(m)
    BY <2>2, <2>3, SiteLocated DEF ArtifactType
  <2> QED
    BY <1>1, <2>4 DEF Work, nuclei
<1>2. CASE t = "nmap"
  <2>1. a.value \in IP
    BY <1>2, Subscribed DEF Located, WellTyped
  <2>2. OpenPorts[a.value] \subseteq Port
    BY <2>1
  <2>3. \A p \in OpenPorts[a.value] :
           Located(Host(a.value, p, a.value)) /\ ~NamesNoSite(Host(a.value, p, a.value))
    BY <2>1, <2>2, HostLocated DEF Name
  <2> QED
    BY <1>2, <2>3 DEF Work, nmap
<1>3. CASE t = "subfinder"
  <2>1. a.value \in Domain
    BY <1>3, Subscribed DEF Located, WellTyped
  <2>2. Subdomains[a.value] \subseteq Domain
    BY <2>1
  <2>3. \A d \in Subdomains[a.value] :
           LET m == Message("domain", d, None, Front(d), None)
           IN  Located(m) /\ ~NamesNoSite(m)
    <3> TAKE d \in Subdomains[a.value]
    <3>1. d \in Domain /\ d \in Name
      BY <2>2 DEF Name
    <3>2. Front(d) \in URL /\ Front(d).host = d
      BY <3>1, FrontType
    <3> QED
      BY <3>1, <3>2, SiteLocated DEF ArtifactType
  <2> QED
    BY <1>3, <2>3 DEF Work, subfinder
<1>4. CASE t = "katana"
  <2>1. PICK h : h = CrawlHost(<<a.value, a.port>>)
    OBVIOUS
  <2>2. a.value \in Name /\ a.port \in Port
    BY <1>4, Subscribed DEF Located, WellTyped
  <2>3. PICK n \in Name, p \in Port : h = <<n, p>>
    BY <2>1, <2>2, CrawlHostType
  <2>4. Pages[h] \subseteq SiteURL(n) /\ Aborted[h] \subseteq SiteURL(n)
    BY <2>3 DEF HostPort
  <2>5. ASSUME NEW u \in Pages[h]
        PROVE  LET m == Message("httpmsg", u, None, u, None) IN Located(m) /\ ~NamesNoSite(m)
    <3>1. u \in URL /\ u.host = n
      BY <2>4, SiteURLType
    <3>2. \E q \in Port : u \in Pages[<<u.host, q>>]
      BY <2>3, <2>5, <3>1
    <3> QED
      BY <3>1, <3>2, SiteLocated DEF ArtifactType
  <2>6. ASSUME NEW u \in Aborted[h]
        PROVE  LET m == Message("url", u, None, u, None) IN Located(m) /\ ~NamesNoSite(m)
    <3>1. u \in URL /\ u.host = n
      BY <2>4, SiteURLType
    <3> QED
      BY <3>1, SiteLocated DEF ArtifactType
  <2>7. katana(a) \subseteq {Message("httpmsg", u, None, u, None) : u \in Pages[h]}
                    \cup {Message("url", u, None, u, None) : u \in Aborted[h]}
    BY <2>1 DEF katana
  <2> QED
    BY <1>4, <2>5, <2>6, <2>7 DEF Work
<1>5. CASE t = "wapalyzer"
  <2>1. /\ a.ip = None /\ a.url \in URL /\ a.url.host \in Name
        /\ \E p \in Port : a.url \in Pages[<<a.url.host, p>>]
    BY <1>5, Subscribed DEF Located
  <2>2. PICK p \in Port : a.url \in Pages[<<a.url.host, p>>]
    BY <2>1
  <2>3. a.url \in SiteURL(a.url.host)
    BY <2>1, <2>2 DEF HostPort
  <2>4. a.url \in AnyURL
    BY <2>1, <2>3, SiteURLType
  <2>5. Fingerprints[a.url] \subseteq Product \X (Version \cup {None})
    BY <2>4
  <2>6. ShowsScheme(a.url.scheme, a.url.host)
    BY <2>2 DEF ShowsScheme
  <2>7. \A f \in Fingerprints[a.url] :
           LET m == Message("technology", f[1], None, a.url, f[2])
           IN  Located(m) /\ ~NamesNoSite(m)
    <3> TAKE f \in Fingerprints[a.url]
    <3>1. f[1] \in Product /\ f[2] \in Version \cup {None}
      BY <2>5
    <3> QED
      BY <2>1, <2>6, <3>1, SiteLocated DEF ArtifactType
  <2> QED
    BY <1>5, <2>1, <2>7 DEF Work, wapalyzer
<1>6. CASE t = "wpscan"
  <2>1. CASE ~ScansSite(a)
    BY <1>6, <2>1 DEF Work, wpscan
  <2>2. CASE ScansSite(a)
    <3> DEFINE r == Report[a.url.host]
    <3>1. /\ a.type = "technology" /\ a.url \in URL /\ a.value = WordPress
          /\ a.url.host # None /\ a.url.host \in Name
      BY <1>6, <2>2, Subscribed, URLAssumption DEF Located, ScansSite, HostOf, URL
    <3>2. ShowsScheme(a.url.scheme, a.url.host)
      BY <3>1 DEF Located
    <3>3. r \in ReportType
      BY <3>1
    <3>4. /\ r.version \in Version \cup {None} /\ r.vulnerabilities \subseteq Product
          /\ r.findings \subseteq Product \X AnyURL
          /\ r.themes \subseteq (Product \ {WordPress}) \X Version \X AnyURL
          /\ r.plugins \subseteq Product \ {WordPress}
      BY <3>3 DEF ReportType
    <3> HIDE DEF r
    <3>5. LET m == Message("technology", WordPress, None, a.url, r.version)
          IN  Located(m) /\ ~NamesNoSite(m)
      BY <3>1, <3>2, <3>4, SiteLocated DEF ArtifactType
    <3>6. \A title \in r.vulnerabilities :
             LET m == Message("finding", title, None, a.url, None)
             IN  Located(m) /\ ~NamesNoSite(m)
      BY <3>1, <3>4, SiteLocated DEF ArtifactType
    <3>7. \A f \in r.findings :
             LET m == Message("finding", f[1], None, f[2], None)
             IN  Located(m) /\ ~NamesNoSite(m)
      <4> TAKE f \in r.findings
      <4>1. f[1] \in Product /\ f[2] \in URL /\ f[2].host \in Name
        BY <3>4, AnyURLType
      <4> QED
        BY <4>1, SiteLocated DEF ArtifactType
    <3>8. \A th \in r.themes :
             LET m == Message("technology", th[1], None, th[3], th[2])
             IN  Located(m) /\ ~NamesNoSite(m)
      <4> TAKE th \in r.themes
      <4>1. /\ th[1] \in Product \ {WordPress} /\ th[2] \in Version \cup {None}
            /\ th[3] \in URL /\ th[3].host \in Name
        BY <3>4, AnyURLType
      <4> QED
        BY <4>1, SiteLocated DEF ArtifactType
    <3>9. \A v \in r.plugins :
             LET m == Message("technology", v, None, a.url, None)
             IN  Located(m) /\ ~NamesNoSite(m)
      BY <3>1, <3>4, SiteLocated DEF ArtifactType
    <3> QED
      BY <1>6, <2>2, <3>5, <3>6, <3>7, <3>8, <3>9 DEF Work, wpscan, r
  <2> QED
    BY <2>1, <2>2
<1> QED
  BY <1>1, <1>2, <1>3, <1>4, <1>5, <1>6, Subscribed
-----------------------------------------------------------------------------
(* What a merge keeps.                                                     *)

(* A duplicate has the trace of the stored artifact, and so has what the   *)
(* merge leaves of it, unless the two are located on different schemes.    *)
LEMMA MergeLocated ==
    ASSUME NEW a, NEW b, Located(a), ~NamesNoSite(a), Located(b), Duplicates(b, a)
    PROVE  /\ Located(Merge(b, a))
           /\ Trace(a) = Trace(b) /\ ~NamesNoSite(b)
           /\ b.type # "technology" => Merge(b, a) = b
           /\ Merge(b, a).type = b.type /\ Merge(b, a).value = b.value
           /\ Merge(b, a).port = b.port
           /\ ~NamesNoSite(Merge(b, a)) => Trace(Merge(b, a)) = Trace(b)
           /\ NamesNoSite(Merge(b, a)) =>
                 /\ b.type = "technology" /\ b.url.host = a.url.host
                 /\ b.url.host \in Name /\ b.url.scheme # a.url.scheme
<1> DEFINE m == Merge(b, a)
<1>1. a \in Artifact /\ b \in Artifact /\ a.type = b.type
  BY DEF Located, WellTyped, Duplicates
<1>2. CASE a.type # "technology"
  <2>1. m = b
    BY <1>2 DEF Merge
  <2>2. a.type \in {"url", "httpmsg"}
    BY <1>2 DEF Duplicates
  <2>3. Trace(a) = Trace(b)
    BY <1>1, <1>2, <2>2 DEF Duplicates, Trace, Located
  <2>4. ~NamesNoSite(b)
    BY <1>1, <2>2, NameAssumption DEF NamesNoSite, Located
  <2> QED
    BY <1>1, <1>2, <2>1, <2>3, <2>4
<1>3. CASE a.type = "technology"
  <2>1. /\ a.url \in URL /\ b.url \in URL /\ a.url # None /\ b.url # None
        /\ b.ip = None /\ a.ip = None /\ a.port = None /\ b.port = None
    BY <1>1, <1>3, URLAssumption DEF Located
  <2>2. a.value = b.value /\ a.url.host = b.url.host /\ a.url.host # None
    BY <1>1, <1>3, <2>1 DEF Duplicates, GetDomainFromArtifact, HostOf
  <2>3. a.url.host \in Name
    BY <2>1, <2>2 DEF URL
  <2>4. Trace(a) = Trace(b) /\ ~NamesNoSite(b)
    BY <1>1, <2>1, <2>2 DEF Trace, HostOf, NamesNoSite
  <2> DEFINE u == unifyURL(b.url, a.url)
  <2>5. /\ u \in URL
        /\ \/ u.host = b.url.host /\ u.scheme = b.url.scheme
           \/ u.host = None /\ b.url.scheme # a.url.scheme
    BY <2>1, <2>2 DEF unifyURL, URL
  <2> HIDE DEF u
  <2>6. /\ m = [b EXCEPT !.url = IF b.version = a.version THEN u ELSE b.url,
                         !.version = IF b.version = None THEN a.version ELSE b.version]
    BY <1>3 DEF Merge, u
  <2>7. /\ m \in Artifact /\ m.type = b.type /\ m.value = b.value /\ m.ip = b.ip
        /\ m.port = b.port /\ m.url \in {u, b.url}
    BY <1>1, <1>3, <2>1, <2>5, <2>6 DEF Artifact
  <2> HIDE DEF m
  <2>8. /\ m.url \in URL /\ m.url # None
        /\ \/ m.url.host = b.url.host /\ m.url.scheme = b.url.scheme
           \/ m.url.host = None /\ b.url.scheme # a.url.scheme
    BY <2>1, <2>5, <2>7, URLAssumption
  <2>9. Located(m)
    BY <1>1, <1>3, <2>1, <2>7, <2>8 DEF Located, WellTyped
  <2>10. ~NamesNoSite(m) => Trace(m) = Trace(b)
    BY <2>1, <2>7, <2>8 DEF Trace, HostOf, NamesNoSite
  <2>11. NamesNoSite(m) => b.url.scheme # a.url.scheme
    BY <2>2, <2>8 DEF NamesNoSite
  <2> QED
    BY <1>1, <1>3, <2>2, <2>3, <2>4, <2>7, <2>9, <2>10, <2>11 DEF m
<1> QED
  BY <1>2, <1>3

(* Two WordPress reports of different schemes come from such pages.        *)
LEMMA SchemesDiffer ==
    ASSUME NEW a, NEW b, Located(a), Located(b), Duplicates(b, a),
           b.type = "technology", b.value = WordPress, b.url.host = a.url.host,
           b.url.host \in Name, b.url.scheme # a.url.scheme
    PROVE  ~OneScheme(b.url.host)
<1>1. a.type = "technology" /\ a.value = WordPress
  BY DEF Duplicates
<1>2. b.url.host # None
  BY NameAssumption
<1>3. ShowsScheme(b.url.scheme, b.url.host) /\ ShowsScheme(a.url.scheme, b.url.host)
  BY <1>1, <1>2 DEF Located
<1>4. PICK p \in Port : \E u \in Pages[<<b.url.host, p>>] : u.scheme = b.url.scheme
  BY <1>3 DEF ShowsScheme
<1>5. PICK q \in Port : \E u \in Pages[<<b.url.host, q>>] : u.scheme = a.url.scheme
  BY <1>3 DEF ShowsScheme
<1> QED
  BY <1>4, <1>5 DEF OneScheme

(* Two technologies with one trace are handled alike.                      *)
LEMMA SameTrace ==
    ASSUME NEW t \in Template, NEW a, NEW b, Located(a), Located(b),
           b.type \in Inputs[t], b.type = "technology", Trace(a) = Trace(b)
    PROVE  /\ InScope(a) <=> InScope(b)
           /\ Failed(t, a) <=> Failed(t, b)
           /\ t = "wpscan"
           /\ \A r \in Work(t, a, {}) : \E q \in Work(t, b, {}) : Trace(r) = Trace(q)
<1>1. t = "wpscan"
  BY Subscribed
<1>2. /\ a.type = "technology" /\ a.value = b.value
      /\ HostOf(a.url) = HostOf(b.url)
  BY DEF Trace
<1>3. /\ a.url \in URL /\ b.url \in URL /\ a.url # None /\ b.url # None
      /\ a.ip = None /\ b.ip = None
  BY <1>2, URLAssumption DEF Located
<1>4. a.url.host = b.url.host
  BY <1>2, <1>3 DEF HostOf
<1>5. /\ GetDomainFromArtifact(a) = GetDomainFromArtifact(b)
      /\ GetIPFromArtifact(a) = GetIPFromArtifact(b)
  BY <1>2, <1>3 DEF GetDomainFromArtifact, GetIPFromArtifact, ValueIP
<1>6. InScope(a) <=> InScope(b)
  BY <1>5 DEF InScope
<1>7. Failed(t, a) <=> Failed(t, b)
  BY <1>1, <1>4 DEF Failed, Subject
<1>8. \A r \in wpscan(a) : \E q \in wpscan(b) : Trace(r) = Trace(q)
  <2> DEFINE rep == Report[b.url.host]
  <2>1. Report[a.url.host] = rep
    BY <1>4
  <2> HIDE DEF rep
  <2>2. \A type, value, version :
           Trace(Message(type, value, None, a.url, version))
                 = Trace(Message(type, value, None, b.url, version))
    BY <1>2 DEF Trace, Message
  <2>3. CASE ScansSite(a)
    <3> DEFINE Results(c) ==
           {Message("technology", WordPress, None, c.url, rep.version)}
           \cup {Message("finding", title, None, c.url, None) : title \in rep.vulnerabilities}
           \cup {Message("finding", f[1], None, f[2], None) : f \in rep.findings}
           \cup {Message("technology", th[1], None, th[3], th[2]) : th \in rep.themes}
           \cup {Message("technology", v, None, c.url, None) : v \in rep.plugins}
    <3>0. ScansSite(b)
      BY <1>2, <2>3 DEF ScansSite
    <3>1. wpscan(a) = Results(a) /\ wpscan(b) = Results(b)
      BY <2>1, <2>3, <3>0 DEF wpscan, rep
    <3>2. \A r \in Results(a) : \E q \in Results(b) : Trace(r) = Trace(q)
      BY <2>2
    <3> QED
      BY <3>1, <3>2
  <2>4. CASE ~ScansSite(a)
    BY <2>4 DEF wpscan
  <2> QED
    BY <2>3, <2>4
<1> QED
  BY <1>1, <1>6, <1>7, <1>8 DEF Work
-----------------------------------------------------------------------------
(* Pointers.                                                               *)

(* An event of the deriver points to nothing that is stored.               *)
LEMMA Pointers ==
    ASSUME TypesInv
    PROVE  /\ \A k \in DOMAIN artifacts : At(k) = artifacts[k]
           /\ \A h \in Domain \X Port :
                 /\ Event[h] \notin DOMAIN artifacts
                 /\ At(Event[h]) = DerivedHost(h)
                 /\ Located(DerivedHost(h)) /\ DerivedHost(h).type = "host"
                 /\ DerivedHost(h).value = h[1] /\ DerivedHost(h).port = h[2]
                 /\ DerivedHost(h).ip = Resolve[h[1]]
<1>1. /\ DOMAIN artifacts = 1..Len(artifacts) /\ Len(artifacts) \in Nat
      /\ Len(artifacts) <= MaxArtifacts /\ MaxArtifacts \in Nat
  BY StorageAssumption DEF TypesInv
<1>2. ASSUME NEW k \in DOMAIN artifacts PROVE At(k) = artifacts[k]
  BY <1>1, <1>2 DEF At
<1>3. ASSUME NEW h \in Domain \X Port
      PROVE  /\ Event[h] \notin DOMAIN artifacts
             /\ At(Event[h]) = DerivedHost(h)
             /\ Located(DerivedHost(h)) /\ DerivedHost(h).type = "host"
             /\ DerivedHost(h).value = h[1] /\ DerivedHost(h).port = h[2]
             /\ DerivedHost(h).ip = Resolve[h[1]]
  <2>1. Event[h] \in Nat /\ Event[h] > MaxArtifacts
    BY PipelineAssumption
  <2>2. PICK e : e = Event[h]
    OBVIOUS
  <2>3. At(Event[h]) = DerivedHost(h)
    <3>1. ~(e <= MaxArtifacts)
      BY <1>1, <2>1, <2>2
    <3>2. (CHOOSE x \in Domain \X Port : Event[x] = e) = h
      BY <2>2, PipelineAssumption
    <3>3. At(e) = DerivedHost(CHOOSE x \in Domain \X Port : Event[x] = e)
      BY <3>1 DEF At
    <3> QED
      BY <2>2, <3>2, <3>3
  <2>4. h[1] \in Domain /\ h[1] \in Name /\ h[2] \in Port /\ Resolve[h[1]] \in IP \cup {None}
    BY PipelineAssumption DEF Name
  <2>5. h[1] \notin IP
    BY <2>4, NameAssumption
  <2>6. Located(DerivedHost(h))
    BY <2>4, <2>5, HostLocated DEF DerivedHost
  <2>7. /\ DerivedHost(h).type = "host" /\ DerivedHost(h).value = h[1]
        /\ DerivedHost(h).port = h[2] /\ DerivedHost(h).ip = Resolve[h[1]]
    BY DEF DerivedHost, Host, Message
  <2> QED
    BY <1>1, <2>1, <2>3, <2>6, <2>7
<1> QED
  BY <1>2, <1>3

LEMMA DerivedType ==
    ASSUME TypesInv
    PROVE  derived \subseteq Domain \X Port
BY DEF TypesInv, Joined

LEMMA PointedTo ==
    ASSUME TypesInv, NEW s \in Subscriber, NEW e \in PointersFor(s)
    PROVE  Located(At(e)) /\ At(e).type \in Inputs[s]
<1>1. CASE e \in DOMAIN artifacts /\ artifacts[e].type \in Inputs[s]
  BY <1>1, Pointers DEF TypesInv
<1>2. CASE "host" \in Inputs[s] /\ e \in {Event[h] : h \in derived}
  <2>1. PICK h \in derived : e = Event[h]
    BY <1>2
  <2>2. h \in Domain \X Port
    BY <2>1, DerivedType
  <2> QED
    BY <1>2, <2>1, <2>2, Pointers
<1> QED
  BY <1>1, <1>2 DEF PointersFor

(* What is handled stays handled while traces are not lost.                *)
LEMMA HandledStays ==
    ASSUME NEW t, NEW a, Handled(t, a), \A trace : Comes(trace) => Comes(trace)',
           skipped \subseteq skipped', scannedDomains \subseteq scannedDomains'
    PROVE  Handled(t, a)'
<1>1. Failed(t, a) => Failed(t, a)'
  BY DEF Failed
<1>2. SkipsDomain(a.value, scannedDomains) => SkipsDomain(a.value, scannedDomains')
  BY DEF SkipsDomain
<1> QED
  BY <1>1, <1>2 DEF Handled

(* A task that is added loses no trace.                                    *)
LEMMA ComesStays ==
    ASSUME UNCHANGED <<artifacts, torn>>, tasks \subseteq tasks'
    PROVE  \A trace : Comes(trace) => Comes(trace)'
<1>1. \A v, n : Torn(v, n)' = Torn(v, n)
  BY DEF Torn
<1>2. \A trace : Lost(trace) => Lost(trace)'
  BY <1>1 DEF Lost
<1> QED
  BY <1>2 DEF Comes

(* The sites of the stored WordPress artifacts are a finite set.           *)
LEMMA SitesFinite ==
    ASSUME TypesInv, NEW n
    PROVE  IsFiniteSet(Sites(n)) /\ IsFiniteSet(Started(n)) /\ Started(n) \subseteq Sites(n)
<1>1. IsFiniteSet(1..Len(artifacts)) /\ DOMAIN artifacts = 1..Len(artifacts)
  <2>1. Len(artifacts) \in Nat /\ DOMAIN artifacts = 1..Len(artifacts)
    BY DEF TypesInv
  <2> QED
    BY <2>1, FS_Interval
<1>2. Sites(n) \subseteq DOMAIN artifacts /\ Started(n) \subseteq Sites(n)
  BY DEF Sites, Started, Torn
<1> QED
  BY <1>1, <1>2, FS_Subset

(* The bound on the scans holds on while the scans of no site and no       *)
(* started artifact become fewer.                                          *)
LEMMA BoundStays ==
    ASSUME TypesInv, TypesInv', NEW n, Started(n) \subseteq Started(n)', NEW c \in Nat,
           c <= Cardinality(Started(n))
    PROVE  c <= Cardinality(Started(n)')
<1>1. IsFiniteSet(Started(n)) /\ IsFiniteSet(Started(n)')
  <2>1. IsFiniteSet(Started(n))
    BY SitesFinite
  <2>2. IsFiniteSet(Sites(n)') /\ Started(n)' \subseteq Sites(n)'
    <3>1. IsFiniteSet(1..Len(artifacts')) /\ DOMAIN artifacts' = 1..Len(artifacts')
      <4>1. Len(artifacts') \in Nat /\ DOMAIN artifacts' = 1..Len(artifacts')
        BY DEF TypesInv
      <4> QED
        BY <4>1, FS_Interval
    <3>2. Sites(n)' \subseteq DOMAIN artifacts' /\ Started(n)' \subseteq Sites(n)'
      BY DEF Sites, Started, Torn
    <3> QED
      BY <3>1, <3>2, FS_Subset
  <2> QED
    BY <2>1, <2>2, FS_Subset
<1>2. /\ Cardinality(Started(n)) <= Cardinality(Started(n)')
      /\ Cardinality(Started(n)) \in Nat /\ Cardinality(Started(n)') \in Nat
  BY <1>1, FS_Subset, FS_CardinalityType
<1> QED
  BY <1>2

(* A step that takes e from t's queue leaves the others' pointers.         *)
LEMMA Taken ==
    ASSUME TypesInv, NEW t \in Template, NEW e \in inflight[t], Take(t, e)
    PROVE  /\ e \in PointersFor(t) /\ t \in Subscriber
           /\ DOMAIN inflight' = Subscriber
           /\ \A s \in Subscriber : inflight'[s] = IF s = t THEN inflight[s] \ {e} ELSE inflight[s]
           /\ t # "deriver"
BY PipelineAssumption DEF TypesInv, Take

(* Such a step leaves everything explored if e is handled by it,           *)
LEMMA TakenExplored ==
    ASSUME TypesInv, ExploreInv, NEW t \in Template, NEW e \in inflight[t], Take(t, e),
           UNCHANGED <<artifacts, deriverVars, finished, torn>>, ~finished,
           tasks \subseteq tasks', skipped \subseteq skipped', scannedDomains \subseteq scannedDomains',
           Handled(t, At(e))',
           \A d \in scannedDomains' \ scannedDomains : \A x \in Subdomains[d] :
               Comes(<<"domain", x, None, x>>)'
    PROVE  ExploreInv'
<1>1. \A trace : Comes(trace) => Comes(trace)'
  BY ComesStays
<1>2. /\ \A s : PointersFor(s)' = PointersFor(s)
      /\ \A x : At(x)' = At(x)
      /\ \A a : Filed(a)' = Filed(a)
  BY DEF PointersFor, At, DerivedHost, deriverVars, Filed
<1>3. ASSUME NEW u \in Template, NEW x \in PointersFor(u)
      PROVE  x \in inflight'[u] \/ Handled(u, At(x))'
  <2>1. PICK a : a = At(x)
    OBVIOUS
  <2>2. CASE Handled(u, a)
    <3>1. Handled(u, a)'
      BY <1>1, <2>2, HandledStays
    <3> QED
      BY <1>2, <2>1, <3>1
  <2>3. CASE u = t /\ x = e
    BY <2>3
  <2>4. CASE x \in inflight[u] /\ ~(u = t /\ x = e)
    <3>1. u \in Subscriber
      BY PipelineAssumption
    <3>2. inflight'[u] = IF u = t THEN inflight[u] \ {e} ELSE inflight[u]
      BY <3>1, Taken
    <3> QED
      BY <2>4, <3>2
  <2> QED
    BY <2>1, <2>2, <2>3, <2>4 DEF ExploreInv
<1>4. \A d \in scannedDomains' : \A x \in Subdomains[d] : Comes(<<"domain", x, None, x>>)'
  BY <1>1 DEF ExploreInv
<1>5. inflight'["deriver"] = inflight["deriver"]
  BY Taken, PipelineAssumption
<1>6. ASSUME NEW k \in PointersFor("deriver")
      PROVE  k \in inflight'["deriver"] \/ Filed(At(k))'
  <2>1. PICK a : a = At(k)
    OBVIOUS
  <2>2. k \in inflight["deriver"] \/ Filed(a)
    BY <2>1 DEF ExploreInv
  <2>3. Filed(a)' = Filed(a)
    BY <1>2
  <2> QED
    BY <1>2, <1>5, <2>1, <2>2, <2>3
<1> QED
  BY <1>2, <1>3, <1>4, <1>6 DEF ExploreInv

(* ... its types,                                                          *)
LEMMA TakenTyped ==
    ASSUME TypesInv, NEW t \in Template, NEW e \in inflight[t], Take(t, e),
           UNCHANGED <<artifacts, deriverVars>>, scannedDomains' \subseteq Domain,
           \A w \in tasks' \ tasks :
              /\ w = [template |-> t, event |-> w.event, artifact |-> At(e), results |-> w.results]
              /\ \A a \in w.results : Located(a) /\ ~NamesNoSite(a)
    PROVE  TypesInv'
<1>1. \A s : PointersFor(s)' = PointersFor(s)
  BY DEF PointersFor, deriverVars
<1>2. \A s \in Subscriber : inflight'[s] \subseteq PointersFor(s)'
  BY <1>1, Taken DEF TypesInv
<1>3. DOMAIN inflight' = Subscriber
  BY Taken
<1>4. At(e).type \in Inputs[t]
  BY Taken, PointedTo
<1>5. ASSUME NEW w \in tasks'
      PROVE  /\ w = [template |-> w.template, event |-> w.event,
                     artifact |-> w.artifact, results |-> w.results]
             /\ w.template \in Template /\ w.artifact.type \in Inputs[w.template]
             /\ \A a \in w.results : Located(a) /\ ~NamesNoSite(a)
  <2>1. CASE w \in tasks
    BY <2>1 DEF TypesInv
  <2>2. CASE w \notin tasks
    <3>1. w.template = t /\ w.artifact = At(e)
      BY <2>2
    <3> QED
      BY <1>4, <2>2, <3>1
  <2> QED
    BY <2>1, <2>2
<1> QED
  BY <1>2, <1>3, <1>5 DEF TypesInv, deriverVars, Joined

(* ... and the bound on the scans: one more for an artifact of the site    *)
(* that has been started now.                                              *)
LEMMA TakenCounted ==
    ASSUME TypesInv, TypesInv', ScansInv, NEW t \in Template, NEW e \in inflight[t], Take(t, e),
           UNCHANGED <<artifacts, torn>>, CountScan(t, At(e)) \/ UNCHANGED scans
    PROVE  ScansInv'
<1>1. /\ \A k, value, n : TechnologyOf(k, value, n)' = TechnologyOf(k, value, n)
      /\ \A value, n : Torn(value, n)' = Torn(value, n)
  BY DEF TechnologyOf, Torn
<1>2. \A n : Sites(n)' = Sites(n)
  BY <1>1 DEF Sites
<1>3. "wpscan" \in Template => inflight'["wpscan"] \subseteq inflight["wpscan"]
  <2>1. Template \subseteq Subscriber
    BY PipelineAssumption
  <2>2. \A s \in Subscriber : inflight'[s] \subseteq inflight[s]
    BY Taken
  <2> QED
    BY <2>1, <2>2
<1>4. \A n : Started(n) \subseteq Started(n)'
  BY <1>2, <1>3 DEF Started
<1>5. ASSUME NEW n \in Name, scans'[n] = scans[n]
      PROVE  scans'[n] <= Cardinality(Started(n)')
  <2>1. scans[n] \in Nat /\ scans[n] <= Cardinality(Started(n))
    BY DEF ScansInv
  <2> QED
    BY <1>4, <1>5, <2>1, BoundStays
<1>6. /\ \A j, k \in DOMAIN artifacts' : \A value : \A n \in Name :
            TechnologyOf(j, value, n)' /\ TechnologyOf(k, value, n)' => j = k
      /\ \A n \in Name : OneScheme(n) => Torn(WordPress, n)' = {}
      /\ \A x \in torn' : x[1] \in DOMAIN artifacts'
  BY <1>1 DEF ScansInv
<1>7. CASE UNCHANGED scans
  BY <1>5, <1>6, <1>7 DEF ScansInv, OneScheme
<1>8. CASE t = "wpscan" /\ ScansSite(At(e)) /\ CountScan(t, At(e))
  <2>1. At(e).type = "technology" /\ Located(At(e)) /\ e \in PointersFor(t)
    BY <1>8, Taken, PointedTo, Subscribed
  <2>2. e \in DOMAIN artifacts
    BY <1>8, <2>1, Taken, Subscribed DEF PointersFor
  <2>3. PICK n : n = At(e).url.host
    OBVIOUS
  <2>4. n \in Name /\ TechnologyOf(e, WordPress, n)
    BY <1>8, <2>1, <2>2, <2>3, Pointers, URLAssumption
       DEF Located, ScansSite, HostOf, TechnologyOf, URL
  <2>5. scans' = [scans EXCEPT ![n] = @ + 1]
    BY <1>8, <2>3 DEF CountScan
  <2>6. scans' \in [Name -> Nat] /\ scans'[n] = scans[n] + 1
    BY <2>4, <2>5 DEF ScansInv
  <2>7. \A m \in Name \ {n} : scans'[m] = scans[m]
    BY <2>5 DEF ScansInv
  <2>8. e \in Sites(n) /\ e \notin Started(n) /\ e \in Started(n)'
    <3>1. e \in Sites(n)
      BY <2>2, <2>4 DEF Sites
    <3>2. e \notin Started(n)
      BY <1>8 DEF Started
    <3>3. e \notin inflight'["wpscan"]
      BY <1>8, Taken
    <3> QED
      BY <1>2, <1>8, <3>1, <3>2, <3>3 DEF Started
  <2>9. scans'[n] <= Cardinality(Started(n)')
    <3>1. scans[n] \in Nat /\ scans[n] <= Cardinality(Started(n))
      BY <2>4 DEF ScansInv
    <3>2. IsFiniteSet(Started(n)) /\ IsFiniteSet(Started(n)')
      <4>1. IsFiniteSet(Sites(n)) /\ IsFiniteSet(Started(n))
        BY SitesFinite
      <4>2. Started(n)' \subseteq Sites(n)
        BY <1>2 DEF Started
      <4> QED
        BY <4>1, <4>2, FS_Subset
    <3>3. Cardinality(Started(n) \cup {e}) = Cardinality(Started(n)) + 1
      BY <2>8, <3>2, FS_AddElement
    <3>4. Cardinality(Started(n) \cup {e}) <= Cardinality(Started(n)')
      BY <1>4, <2>8, <3>2, FS_Subset
    <3>5. Cardinality(Started(n)) \in Nat /\ Cardinality(Started(n)') \in Nat
      BY <3>2, FS_CardinalityType
    <3> QED
      BY <2>6, <3>1, <3>3, <3>4, <3>5
  <2>10. \A m \in Name : scans'[m] <= Cardinality(Started(m)')
    BY <1>5, <2>7, <2>9
  <2> QED
    BY <1>6, <2>6, <2>10 DEF ScansInv, OneScheme
<1> QED
  BY <1>7, <1>8 DEF CountScan

LEMMA DropStep ==
    ASSUME PipelineInv, ~finished, NEW t \in Template, NEW e \in inflight[t], Drop(t, e)
    PROVE  PipelineInv'
<1>1. Take(t, e) /\ UNCHANGED <<artifacts, tasks, scannedDomains, deriverVars, finished, skipped, torn, scans>>
  BY DEF Drop, historyVars
<1>2. At(e)' = At(e)
  BY <1>1 DEF At, DerivedHost
<1>3. Handled(t, At(e))'
  BY <1>2 DEF Drop, Handled
<1>4. TypesInv'
  BY <1>1, TakenTyped DEF PipelineInv, TypesInv
<1>5. ScansInv'
  BY <1>1, <1>4, TakenCounted DEF PipelineInv
<1>6. ExploreInv'
  BY <1>1, <1>3, TakenExplored DEF PipelineInv
<1> QED
  BY <1>4, <1>5, <1>6 DEF PipelineInv

(* The results of a task come, whether it has any or not.                  *)
LEMMA StartStep ==
    ASSUME PipelineInv, ~finished, NEW t \in Template, NEW e \in inflight[t], Start(t, e)
    PROVE  PipelineInv'
<1>1. PICK a : a = At(e)
  OBVIOUS
<1>2. PICK results : results = Work(t, a, scannedDomains)
  OBVIOUS
<1>3. PICK w : w = [template |-> t, event |-> e, artifact |-> a, results |-> results]
  OBVIOUS
<1>4. /\ Take(t, e) /\ CountScan(t, At(e))
      /\ tasks' = tasks \cup Unsent(w)
      /\ scannedDomains' = IF t = "subfinder" /\ ~SkipsDomain(a.value, scannedDomains)
                           THEN scannedDomains \cup {a.value} ELSE scannedDomains
      /\ UNCHANGED <<artifacts, deriverVars, finished, skipped, torn>>
  BY <1>1, <1>2, <1>3 DEF Start
<1>5. w.template = t /\ w.artifact = a /\ w.results = results
  BY <1>3
<1>6. /\ Located(a) /\ a.type \in Inputs[t] /\ e \in PointersFor(t)
  BY <1>1, <1>4, Taken, PointedTo DEF PipelineInv
<1>7. \A r \in results : Located(r) /\ ~NamesNoSite(r)
  BY <1>2, <1>6, WorkLocated
<1>8. t = "subfinder" => a.value \in Domain
  BY <1>6, Subscribed DEF Located, WellTyped
<1>9. \A r \in results : Comes(Trace(r))'
  BY <1>4, <1>5 DEF Unsent, Comes
<1>10. TypesInv'
  <2>1. scannedDomains' \subseteq Domain
    BY <1>4, <1>8 DEF PipelineInv, TypesInv
  <2>2. \A v \in tasks' \ tasks : v = w
    BY <1>4 DEF Unsent
  <2>3. w = [template |-> t, event |-> w.event, artifact |-> At(e), results |-> w.results]
    BY <1>1, <1>3
  <2> QED
    BY <1>4, <1>5, <1>7, <2>1, <2>2, <2>3, TakenTyped DEF PipelineInv
<1>11. ScansInv'
  BY <1>4, <1>10, TakenCounted DEF PipelineInv
<1>12. Handled(t, a)'
  <2>1. CASE t = "subfinder"
    <3>1. SkipsDomain(a.value, scannedDomains')
      BY <1>4, <1>8, <2>1, ScannersAssumption DEF SkipsDomain
    <3> QED
      BY <2>1, <3>1 DEF Handled
  <2>2. CASE t # "subfinder"
    <3>1. results = Work(t, a, {})
      BY <1>2, <2>2, Subscribed DEF Work
    <3> QED
      BY <1>9, <2>2, <3>1 DEF Handled
  <2> QED
    BY <2>1, <2>2
<1>13. Handled(t, At(e))'
  <2>1. At(e)' = a
    BY <1>1, <1>4 DEF At, DerivedHost
  <2> QED
    BY <1>12, <2>1
<1>14. ASSUME NEW d \in scannedDomains' \ scannedDomains, NEW x \in Subdomains[d]
       PROVE  Comes(<<"domain", x, None, x>>)'
  <2>1. t = "subfinder" /\ d = a.value /\ ~SkipsDomain(a.value, scannedDomains)
    BY <1>4
  <2>2. PICK r : r = Message("domain", x, None, Front(x), None)
    OBVIOUS
  <2>3. r \in results
    BY <1>2, <2>1, <2>2 DEF Work, subfinder
  <2>4. x \in Name
    BY <1>8, <2>1, ScannersAssumption DEF Name
  <2>5. Trace(r) = <<"domain", x, None, x>>
    BY <2>2, <2>4, FrontType DEF Trace, Message, HostOf
  <2> QED
    BY <1>9, <2>3, <2>5
<1>15. /\ tasks \subseteq tasks' /\ scannedDomains \subseteq scannedDomains'
       /\ skipped \subseteq skipped'
  BY <1>4
<1>16. ExploreInv'
  BY <1>4, <1>13, <1>14, <1>15, TakenExplored DEF PipelineInv
<1> QED
  BY <1>10, <1>11, <1>16 DEF PipelineInv

(* A failed tool is remembered, and what it posted before is well formed.  *)
LEMMA SkipStep ==
    ASSUME PipelineInv, ~finished, NEW t \in Template, NEW e \in inflight[t], Skip(t, e)
    PROVE  PipelineInv'
<1>1. PICK a : a = At(e)
  OBVIOUS
<1>2. PICK results \in PostedBefore(t, a) :
         tasks' = tasks \cup Unsent([template |-> t, event |-> e, artifact |-> a,
                                     results |-> results])
  BY <1>1 DEF Skip
<1>3. PICK w : w = [template |-> t, event |-> e, artifact |-> a, results |-> results]
  OBVIOUS
<1>4. /\ Take(t, e) /\ CountScan(t, At(e)) /\ Skippable(t, a)
      /\ tasks' = tasks \cup Unsent(w)
      /\ skipped' = skipped \cup {<<t, Subject(t, a)>>}
      /\ UNCHANGED <<artifacts, scannedDomains, deriverVars, finished, torn>>
  BY <1>1, <1>2, <1>3 DEF Skip
<1>5. w.template = t /\ w.artifact = a /\ w.results = results
  BY <1>3
<1>6. /\ Located(a) /\ a.type \in Inputs[t] /\ e \in PointersFor(t)
  BY <1>1, <1>4, Taken, PointedTo DEF PipelineInv
<1>7. results \subseteq Work(t, a, {})
  BY <1>2 DEF PostedBefore, Work
<1>8. \A r \in results : Located(r) /\ ~NamesNoSite(r)
  BY <1>6, <1>7, WorkLocated
<1>9. TypesInv'
  <2>1. scannedDomains' \subseteq Domain
    BY <1>4 DEF PipelineInv, TypesInv
  <2>2. \A v \in tasks' \ tasks : v = w
    BY <1>4 DEF Unsent
  <2>3. w = [template |-> t, event |-> w.event, artifact |-> At(e), results |-> w.results]
    BY <1>1, <1>3
  <2> QED
    BY <1>4, <1>5, <1>8, <2>1, <2>2, <2>3, TakenTyped DEF PipelineInv
<1>10. ScansInv'
  BY <1>4, <1>9, TakenCounted DEF PipelineInv
<1>11. Handled(t, a)'
  BY <1>4 DEF Skippable, Handled, Failed
<1>12. Handled(t, At(e))'
  <2>1. At(e)' = a
    BY <1>1, <1>4 DEF At, DerivedHost
  <2> QED
    BY <1>11, <2>1
<1>13. /\ tasks \subseteq tasks' /\ scannedDomains \subseteq scannedDomains'
       /\ skipped \subseteq skipped'
  BY <1>4
<1>14. ExploreInv'
  BY <1>4, <1>12, <1>13, TakenExplored DEF PipelineInv
<1> QED
  BY <1>9, <1>10, <1>14 DEF PipelineInv
-----------------------------------------------------------------------------
(* The storage.                                                            *)

(* A merge loses the site of artifact k.                                   *)
Tears(k) == ~NamesNoSite(artifacts[k]) /\ NamesNoSite(artifacts'[k])

(* What is stored keeps its type and value, and its trace unless it loses  *)
(* its site; a result is merged into an artifact of its trace or is new,   *)
(* and then sent to every subscriber of its type.                          *)
LEMMA AddStores ==
    ASSUME TypesInv, NEW a, Located(a), ~NamesNoSite(a), AddArtifact(a)
    PROVE  /\ artifacts' \in Seq(Artifact) /\ Len(artifacts') <= MaxArtifacts
           /\ \A k \in DOMAIN artifacts' : Located(artifacts'[k])
           /\ DOMAIN artifacts \subseteq DOMAIN artifacts'
           /\ \A k \in DOMAIN artifacts :
                 /\ artifacts'[k].type = artifacts[k].type
                 /\ artifacts'[k].value = artifacts[k].value
                 /\ artifacts'[k].port = artifacts[k].port
                 /\ artifacts[k].type # "technology" => artifacts'[k] = artifacts[k]
                 /\ ~Tears(k) => Trace(artifacts'[k]) = Trace(artifacts[k])
                 /\ Tears(k) =>
                       /\ artifacts[k].type = "technology" /\ artifacts[k].url.host \in Name
                       /\ artifacts[k].value = WordPress => ~OneScheme(artifacts[k].url.host)
           /\ \/ \E k \in DOMAIN artifacts : Trace(artifacts[k]) = Trace(a)
              \/ \E k \in DOMAIN artifacts' : Trace(artifacts'[k]) = Trace(a)
           /\ \A k \in DOMAIN artifacts' \ DOMAIN artifacts :
                 /\ DOMAIN artifacts' = DOMAIN artifacts \cup {k}
                 /\ artifacts'[k] = a
                 /\ \A j \in DOMAIN artifacts : /\ artifacts'[j] = artifacts[j]
                                                /\ ~Duplicates(artifacts[j], a)
           /\ DOMAIN inflight' = Subscriber
           /\ \A s \in Subscriber :
                 inflight'[s] = inflight[s]
                    \cup {k \in DOMAIN artifacts' \ DOMAIN artifacts : artifacts'[k].type \in Inputs[s]}
<1>0. /\ artifacts \in Seq(Artifact) /\ Len(artifacts) <= MaxArtifacts
      /\ \A k \in DOMAIN artifacts : Located(artifacts[k])
      /\ DOMAIN inflight = Subscriber /\ a \in Artifact
  BY DEF TypesInv, Located, WellTyped
<1>1. CASE DropDuplicate(a)
  <2>1. PICK k \in DOMAIN artifacts :
           /\ Duplicates(artifacts[k], a)
           /\ artifacts' = [artifacts EXCEPT ![k] = Merge(artifacts[k], a)]
           /\ UNCHANGED busVars
    BY <1>1 DEF DropDuplicate
  <2>2. PICK m : m = Merge(artifacts[k], a)
    OBVIOUS
  <2>3. /\ Located(m) /\ Trace(a) = Trace(artifacts[k]) /\ ~NamesNoSite(artifacts[k])
        /\ artifacts[k].type # "technology" => m = artifacts[k]
        /\ m.type = artifacts[k].type /\ m.value = artifacts[k].value
        /\ m.port = artifacts[k].port
        /\ ~NamesNoSite(m) => Trace(m) = Trace(artifacts[k])
        /\ NamesNoSite(m) =>
              /\ artifacts[k].type = "technology" /\ artifacts[k].url.host = a.url.host
              /\ artifacts[k].url.host \in Name /\ artifacts[k].url.scheme # a.url.scheme
    BY <1>0, <2>1, <2>2, MergeLocated
  <2>4. NamesNoSite(m) /\ artifacts[k].value = WordPress => ~OneScheme(artifacts[k].url.host)
    BY <1>0, <2>1, <2>3, SchemesDiffer
  <2>5. m \in Artifact
    BY <2>3 DEF Located, WellTyped
  <2>6. /\ artifacts' \in Seq(Artifact) /\ Len(artifacts') = Len(artifacts)
        /\ DOMAIN artifacts' = DOMAIN artifacts
        /\ artifacts'[k] = m
        /\ \A j \in DOMAIN artifacts : j # k => artifacts'[j] = artifacts[j]
    BY <1>0, <2>1, <2>2, <2>5
  <2>7. inflight' = inflight
    BY <2>1 DEF busVars
  <2>8. ASSUME NEW j \in DOMAIN artifacts
        PROVE  /\ artifacts'[j].type = artifacts[j].type
               /\ artifacts'[j].value = artifacts[j].value
               /\ artifacts'[j].port = artifacts[j].port
               /\ artifacts[j].type # "technology" => artifacts'[j] = artifacts[j]
               /\ ~Tears(j) => Trace(artifacts'[j]) = Trace(artifacts[j])
               /\ Tears(j) =>
                     /\ artifacts[j].type = "technology" /\ artifacts[j].url.host \in Name
                     /\ artifacts[j].value = WordPress => ~OneScheme(artifacts[j].url.host)
    <3>1. CASE j # k
      <4>1. artifacts'[j] = artifacts[j]
        BY <2>6, <3>1
      <4>2. ~Tears(j)
        BY <4>1 DEF Tears
      <4> QED
        BY <4>1, <4>2
    <3>2. CASE j = k
      <4>1. Tears(j) <=> NamesNoSite(m)
        BY <2>3, <2>6, <3>2 DEF Tears
      <4> QED
        BY <2>3, <2>4, <2>6, <3>2, <4>1
    <3> QED
      BY <3>1, <3>2
  <2>9. \A j \in DOMAIN artifacts' : Located(artifacts'[j])
    BY <1>0, <2>3, <2>6
  <2>10. Trace(artifacts[k]) = Trace(a)
    BY <2>3
  <2> QED
    BY <1>0, <2>6, <2>7, <2>8, <2>9, <2>10
<1>2. CASE StoreNew(a)
  <2>1. /\ Len(artifacts) < MaxArtifacts /\ artifacts' = Append(artifacts, a)
        /\ \A k \in DOMAIN artifacts : ~Duplicates(artifacts[k], a)
        /\ Publish(a.type, Len(artifacts) + 1)
    BY <1>2 DEF StoreNew
  <2>2. PICK new : new = Len(artifacts) + 1
    OBVIOUS
  <2>3. /\ artifacts' \in Seq(Artifact) /\ Len(artifacts') <= MaxArtifacts
        /\ DOMAIN artifacts' = DOMAIN artifacts \cup {new} /\ new \notin DOMAIN artifacts
        /\ artifacts'[new] = a
        /\ \A j \in DOMAIN artifacts : artifacts'[j] = artifacts[j]
    BY <1>0, <2>1, <2>2, StorageAssumption
  <2>4. inflight' = [s \in Subscriber |->
            IF a.type \in Inputs[s] THEN inflight[s] \cup {new} ELSE inflight[s]]
    BY <2>1, <2>2 DEF Publish
  <2>5. DOMAIN artifacts' \ DOMAIN artifacts = {new}
    BY <2>3
  <2>6. ASSUME NEW s \in Subscriber
        PROVE  inflight'[s] = inflight[s]
                    \cup {k \in DOMAIN artifacts' \ DOMAIN artifacts : artifacts'[k].type \in Inputs[s]}
    <3>1. {k \in DOMAIN artifacts' \ DOMAIN artifacts : artifacts'[k].type \in Inputs[s]}
             = IF a.type \in Inputs[s] THEN {new} ELSE {}
      BY <2>3, <2>5
    <3> QED
      BY <2>4, <3>1
  <2>7. \A j \in DOMAIN artifacts : ~Tears(j)
    BY <2>3 DEF Tears
  <2>8. /\ \E k \in DOMAIN artifacts' : Trace(artifacts'[k]) = Trace(a)
        /\ \A k \in DOMAIN artifacts' : Located(artifacts'[k])
    BY <1>0, <2>3
  <2> QED
    BY <2>1, <2>3, <2>4, <2>5, <2>6, <2>7, <2>8
<1> QED
  BY <1>1, <1>2 DEF AddArtifact

(* A task that has posted one of its results.                              *)
LEMMA TaskGoesOn ==
    ASSUME TypesInv, NEW w \in tasks, NEW a \in w.results,
           tasks' = (tasks \ {w}) \cup Unsent([w EXCEPT !.results = @ \ {a}])
    PROVE  /\ \A v \in tasks' :
                 /\ v = [template |-> v.template, event |-> v.event,
                         artifact |-> v.artifact, results |-> v.results]
                 /\ v.template \in Template /\ v.artifact.type \in Inputs[v.template]
                 /\ \A r \in v.results : Located(r) /\ ~NamesNoSite(r)
           /\ \A v \in tasks : \A r \in v.results :
                 r = a \/ \E u \in tasks' : r \in u.results
<1>1. PICK rest : rest = [w EXCEPT !.results = @ \ {a}]
  OBVIOUS
<1>2. w = [template |-> w.template, event |-> w.event,
           artifact |-> w.artifact, results |-> w.results]
  BY DEF TypesInv
<1>3. rest = [template |-> w.template, event |-> w.event,
              artifact |-> w.artifact, results |-> w.results \ {a}]
  BY <1>1, <1>2
<1>4. /\ rest.template = w.template /\ rest.artifact = w.artifact /\ rest.event = w.event
      /\ rest.results = w.results \ {a}
  BY <1>3
<1>5. tasks' = (tasks \ {w}) \cup Unsent(rest)
  BY <1>1
<1>6. ASSUME NEW v \in tasks'
      PROVE  /\ v = [template |-> v.template, event |-> v.event,
                     artifact |-> v.artifact, results |-> v.results]
             /\ v.template \in Template /\ v.artifact.type \in Inputs[v.template]
             /\ \A r \in v.results : Located(r) /\ ~NamesNoSite(r)
  <2>1. CASE v \in tasks
    BY <2>1 DEF TypesInv
  <2>2. CASE v = rest
    <3>1. /\ w.template \in Template /\ w.artifact.type \in Inputs[w.template]
          /\ \A r \in w.results : Located(r) /\ ~NamesNoSite(r)
      BY DEF TypesInv
    <3> QED
      BY <1>3, <1>4, <2>2, <3>1
  <2> QED
    BY <1>5, <2>1, <2>2 DEF Unsent
<1>7. ASSUME NEW v \in tasks, NEW r \in v.results
      PROVE  r = a \/ \E u \in tasks' : r \in u.results
  <2>1. CASE v # w
    BY <1>5, <2>1
  <2>2. CASE v = w /\ r # a
    <3>1. r \in rest.results /\ rest \in Unsent(rest)
      BY <1>4, <2>2 DEF Unsent
    <3> QED
      BY <1>5, <3>1
  <2> QED
    BY <2>1, <2>2
<1> QED
  BY <1>6, <1>7

(* What Post makes of the artifacts, and of the history of lost sites.     *)
LEMMA PostStores ==
    ASSUME TypesInv, NEW w \in tasks, NEW a \in w.results, Post(w, a)
    PROVE  /\ Located(a) /\ ~NamesNoSite(a) /\ AddArtifact(a)
           /\ tasks' = (tasks \ {w}) \cup Unsent([w EXCEPT !.results = @ \ {a}])
           /\ torn' = torn \cup {<<k, HostOf(artifacts[k].url)>> : k \in {j \in DOMAIN artifacts : Tears(j)}}
           /\ UNCHANGED <<scannedDomains, domains, ips, derived, finished, skipped, scans>>
BY DEF Post, TypesInv, deriverVars, Tears

LEMMA TornGrows ==
    ASSUME TypesInv, NEW w \in tasks, NEW a \in w.results, Post(w, a)
    PROVE  /\ \A v, n : Torn(v, n) \subseteq Torn(v, n)'
           /\ \A k \in DOMAIN artifacts : Tears(k) =>
                 \A v, n : v = artifacts[k].value /\ n = artifacts[k].url.host =>
                    k \in Torn(v, n)' /\ Trace(artifacts[k]) = <<"technology", v, None, n>>
           /\ \A v, n : \A k \in Torn(v, n)' : k \in DOMAIN artifacts =>
                 \/ k \in Torn(v, n)
                 \/ Tears(k) /\ artifacts[k].url.host = n /\ artifacts[k].value = v
<1>1. /\ DOMAIN artifacts \subseteq DOMAIN artifacts'
      /\ \A k \in DOMAIN artifacts :
            /\ artifacts'[k].type = artifacts[k].type
            /\ artifacts'[k].value = artifacts[k].value
            /\ Tears(k) => artifacts[k].type = "technology"
  BY PostStores, AddStores
<1>2. torn' = torn \cup {<<k, HostOf(artifacts[k].url)>> : k \in {j \in DOMAIN artifacts : Tears(j)}}
  BY PostStores
<1>3. \A k \in DOMAIN artifacts : artifacts[k].type = "technology" =>
         HostOf(artifacts[k].url) = artifacts[k].url.host /\ artifacts[k].port = None
  BY URLAssumption DEF TypesInv, Located, HostOf
<1>4. \A v, n : Torn(v, n) \subseteq Torn(v, n)'
  BY <1>1, <1>2 DEF Torn
<1>5. ASSUME NEW k \in DOMAIN artifacts, Tears(k),
             NEW v, NEW n, v = artifacts[k].value, n = artifacts[k].url.host
      PROVE  k \in Torn(v, n)' /\ Trace(artifacts[k]) = <<"technology", v, None, n>>
  <2>1. <<k, HostOf(artifacts[k].url)>> \in torn'
    BY <1>2, <1>5
  <2> QED
    BY <1>1, <1>3, <1>5, <2>1 DEF Torn, Trace
<1>6. ASSUME NEW v, NEW n, NEW k \in Torn(v, n)', k \in DOMAIN artifacts
      PROVE  \/ k \in Torn(v, n)
             \/ Tears(k) /\ artifacts[k].url.host = n /\ artifacts[k].value = v
  <2>1. <<k, n>> \in torn' /\ artifacts[k].type = "technology" /\ artifacts[k].value = v
    BY <1>1, <1>6 DEF Torn
  <2>2. CASE <<k, n>> \in torn
    BY <1>6, <2>1, <2>2 DEF Torn
  <2>3. CASE <<k, n>> \notin torn
    <3>1. Tears(k) /\ n = HostOf(artifacts[k].url)
      BY <1>2, <2>1, <2>3
    <3> QED
      BY <1>3, <1>6, <2>1, <3>1
  <2> QED
    BY <2>2, <2>3
<1> QED
  BY <1>4, <1>5, <1>6

(* Nothing that was to come is lost.                                       *)
LEMMA PostComes ==
    ASSUME TypesInv, NEW w \in tasks, NEW a \in w.results, Post(w, a)
    PROVE  \A trace : Comes(trace) => Comes(trace)'
<1>1. /\ Located(a) /\ ~NamesNoSite(a) /\ AddArtifact(a)
      /\ tasks' = (tasks \ {w}) \cup Unsent([w EXCEPT !.results = @ \ {a}])
  BY PostStores
<1>2. /\ DOMAIN artifacts \subseteq DOMAIN artifacts'
      /\ \A k \in DOMAIN artifacts : ~Tears(k) => Trace(artifacts'[k]) = Trace(artifacts[k])
      /\ \/ \E k \in DOMAIN artifacts : Trace(artifacts[k]) = Trace(a)
         \/ \E k \in DOMAIN artifacts' : Trace(artifacts'[k]) = Trace(a)
  BY <1>1, AddStores
<1>3. \A trace : Lost(trace) => Lost(trace)'
  <2> SUFFICES ASSUME NEW trace, Lost(trace) PROVE Lost(trace)'
    OBVIOUS
  <2>1. PICK v, n : trace = <<"technology", v, None, n>> /\ Torn(v, n) # {}
    BY DEF Lost
  <2>2. Torn(v, n)' # {}
    BY <2>1, TornGrows
  <2> QED
    BY <2>1, <2>2 DEF Lost
<1>4. ASSUME NEW k \in DOMAIN artifacts, NEW trace, Trace(artifacts[k]) = trace
      PROVE  Comes(trace)'
  <2>2. CASE ~Tears(k)
    <3>1. k \in DOMAIN artifacts' /\ Trace(artifacts'[k]) = trace
      BY <1>2, <1>4, <2>2
    <3> QED
      BY <3>1 DEF Comes
  <2>3. CASE Tears(k)
    <3>1. PICK v, n : v = artifacts[k].value /\ n = artifacts[k].url.host
      OBVIOUS
    <3>2. trace = <<"technology", v, None, n>> /\ Torn(v, n)' # {}
      BY <1>4, <2>3, <3>1, TornGrows
    <3> QED
      BY <3>2 DEF Lost, Comes
  <2> QED
    BY <2>2, <2>3
<1>5. Comes(Trace(a))'
  BY <1>2, <1>4 DEF Comes
<1> SUFFICES ASSUME NEW trace, Comes(trace) PROVE Comes(trace)'
  OBVIOUS
<1>6. CASE \E k \in DOMAIN artifacts : Trace(artifacts[k]) = trace
  BY <1>4, <1>6
<1>7. CASE \E v \in tasks : \E r \in v.results : Trace(r) = trace
  <2>1. PICK v \in tasks : \E r \in v.results : Trace(r) = trace
    BY <1>7
  <2>2. PICK r \in v.results : Trace(r) = trace
    BY <2>1
  <2>3. r = a \/ \E u \in tasks' : r \in u.results
    <3>1. \A x \in tasks : \A q \in x.results : q = a \/ \E u \in tasks' : q \in u.results
      BY <1>1, TaskGoesOn
    <3> QED
      BY <3>1
  <2> QED
    BY <1>5, <2>2, <2>3 DEF Comes
<1> QED
  BY <1>3, <1>6, <1>7 DEF Comes
LEMMA TechnologyTrace ==
    ASSUME NEW a, Located(a), NEW value, NEW n
    PROVE  (a.type = "technology" /\ a.value = value /\ a.url.host = n)
              <=> Trace(a) = <<"technology", value, None, n>>
BY URLAssumption DEF Trace, HostOf, Located

(* A result adds nothing to the technologies of a site that has one, and a *)
(* merge that loses a site leaves the artifact among those it had.         *)
LEMMA PostScans ==
    ASSUME TypesInv, TypesInv', ScansInv, NEW w \in tasks, NEW a \in w.results, Post(w, a)
    PROVE  ScansInv'
<1>1. /\ Located(a) /\ ~NamesNoSite(a) /\ AddArtifact(a) /\ UNCHANGED scans
      /\ torn' = torn \cup {<<k, HostOf(artifacts[k].url)>> : k \in {j \in DOMAIN artifacts : Tears(j)}}
  BY PostStores
<1>2. /\ \A k \in DOMAIN artifacts' : Located(artifacts'[k])
      /\ DOMAIN artifacts \subseteq DOMAIN artifacts'
      /\ \A k \in DOMAIN artifacts :
            /\ artifacts'[k].type = artifacts[k].type
            /\ artifacts'[k].value = artifacts[k].value
            /\ ~Tears(k) => Trace(artifacts'[k]) = Trace(artifacts[k])
            /\ Tears(k) => /\ artifacts[k].type = "technology" /\ artifacts[k].url.host \in Name
                           /\ artifacts[k].value = WordPress => ~OneScheme(artifacts[k].url.host)
      /\ \A k \in DOMAIN artifacts' \ DOMAIN artifacts :
            /\ DOMAIN artifacts' = DOMAIN artifacts \cup {k}
            /\ artifacts'[k] = a
            /\ \A j \in DOMAIN artifacts : /\ artifacts'[j] = artifacts[j]
                                           /\ ~Duplicates(artifacts[j], a)
      /\ \A s \in Subscriber :
            inflight'[s] = inflight[s]
               \cup {k \in DOMAIN artifacts' \ DOMAIN artifacts : artifacts'[k].type \in Inputs[s]}
  BY <1>1, AddStores
<1>3. ASSUME NEW k \in DOMAIN artifacts, NEW value, NEW n \in Name
      PROVE  /\ TechnologyOf(k, value, n)' => TechnologyOf(k, value, n)
             /\ TechnologyOf(k, value, n) => TechnologyOf(k, value, n)' \/ k \in Torn(value, n)'
  <2>1. k \in DOMAIN artifacts' /\ Located(artifacts[k]) /\ Located(artifacts'[k])
    BY <1>2 DEF TypesInv
  <2>2. CASE ~Tears(k)
    <3>1. PICK b, c : b = artifacts[k] /\ c = artifacts'[k]
      OBVIOUS
    <3>2. Located(b) /\ Located(c) /\ Trace(b) = Trace(c)
      BY <1>2, <2>1, <2>2, <3>1
    <3>3. (b.type = "technology" /\ b.value = value /\ b.url.host = n)
             <=> Trace(b) = <<"technology", value, None, n>>
      BY <3>2, TechnologyTrace
    <3>4. (c.type = "technology" /\ c.value = value /\ c.url.host = n)
             <=> Trace(c) = <<"technology", value, None, n>>
      BY <3>2, TechnologyTrace
    <3> QED
      BY <2>1, <3>1, <3>2, <3>3, <3>4 DEF TechnologyOf
  <2>3. CASE Tears(k)
    <3>1. artifacts'[k].url.host = None
      BY <2>3 DEF Tears, NamesNoSite
    <3>2. ~TechnologyOf(k, value, n)'
      BY <3>1, NameAssumption DEF TechnologyOf
    <3>3. TechnologyOf(k, value, n) => k \in Torn(value, n)'
      BY <2>3, TornGrows DEF TechnologyOf
    <3> QED
      BY <3>2, <3>3
  <2> QED
    BY <2>2, <2>3
<1>4. ASSUME NEW j \in DOMAIN artifacts', NEW k \in DOMAIN artifacts', NEW value, NEW n \in Name,
             TechnologyOf(j, value, n)', TechnologyOf(k, value, n)',
             k \notin DOMAIN artifacts
      PROVE  j = k
  <2> SUFFICES ASSUME j # k PROVE FALSE
    OBVIOUS
  <2>1. /\ artifacts'[k] = a /\ j \in DOMAIN artifacts /\ artifacts'[j] = artifacts[j]
        /\ ~Duplicates(artifacts[j], a)
    <3>1. /\ DOMAIN artifacts' = DOMAIN artifacts \cup {k}
          /\ artifacts'[k] = a
          /\ \A i \in DOMAIN artifacts : /\ artifacts'[i] = artifacts[i]
                                         /\ ~Duplicates(artifacts[i], a)
      BY <1>2, <1>4
    <3>2. j \in DOMAIN artifacts
      BY <3>1
    <3> QED
      BY <3>1, <3>2
  <2>2. PICK b : b = artifacts[j]
    OBVIOUS
  <2>3. /\ a.type = "technology" /\ a.value = value /\ a.url.host = n
        /\ b.type = "technology" /\ b.value = value /\ b.url.host = n
    BY <1>4, <2>1, <2>2 DEF TechnologyOf
  <2>4. a.url # None /\ b.url # None
    BY <1>1, <2>1, <2>2, <2>3, URLAssumption DEF TypesInv, Located
  <2>5. n # None /\ GetDomainFromArtifact(a) = n /\ GetDomainFromArtifact(b) = n
    BY <2>3, <2>4, NameAssumption DEF GetDomainFromArtifact, HostOf
  <2> QED
    BY <2>1, <2>2, <2>3, <2>5 DEF Duplicates
<1>5. \A j, k \in DOMAIN artifacts' : \A value : \A n \in Name :
         TechnologyOf(j, value, n)' /\ TechnologyOf(k, value, n)' => j = k
  <2> SUFFICES ASSUME NEW j \in DOMAIN artifacts', NEW k \in DOMAIN artifacts',
                      NEW value, NEW n \in Name,
                      TechnologyOf(j, value, n)', TechnologyOf(k, value, n)'
               PROVE  j = k
    OBVIOUS
  <2>1. CASE j \in DOMAIN artifacts /\ k \in DOMAIN artifacts
    BY <1>3, <2>1 DEF ScansInv
  <2>2. CASE k \notin DOMAIN artifacts
    BY <1>4, <2>2
  <2>3. CASE j \notin DOMAIN artifacts
    BY <1>4, <2>3
  <2> QED
    BY <2>1, <2>2, <2>3
<1>6. ASSUME NEW n \in Name PROVE Started(n) \subseteq Started(n)'
  <2>1. ASSUME NEW k \in Sites(n) PROVE k \in Sites(n)' /\ k \in DOMAIN artifacts
    <3>1. k \in DOMAIN artifacts /\ k \in DOMAIN artifacts'
      BY <1>2, <2>1 DEF Sites, Torn
    <3>2. CASE TechnologyOf(k, WordPress, n)
      BY <1>3, <3>1, <3>2 DEF Sites
    <3>3. CASE k \in Torn(WordPress, n)
      <4>1. Torn(WordPress, n) \subseteq Torn(WordPress, n)'
        BY TornGrows
      <4> QED
        BY <3>1, <3>3, <4>1 DEF Sites
    <3> QED
      BY <2>1, <3>1, <3>2, <3>3 DEF Sites
  <2>2. ASSUME "wpscan" \in Template, NEW k \in DOMAIN artifacts, k \notin inflight["wpscan"]
        PROVE  k \notin inflight'["wpscan"]
    <3>1. "wpscan" \in Subscriber
      BY <2>2, PipelineAssumption
    <3> QED
      BY <1>2, <2>2, <3>1
  <2> QED
    BY <2>1, <2>2 DEF Started
<1>7. \A n \in Name : scans'[n] <= Cardinality(Started(n)')
  <2> TAKE n \in Name
  <2>1. scans[n] \in Nat /\ scans[n] <= Cardinality(Started(n)) /\ scans'[n] = scans[n]
    BY <1>1 DEF ScansInv
  <2> QED
    BY <1>6, <2>1, BoundStays
<1>8. ASSUME NEW n \in Name, OneScheme(n) PROVE Torn(WordPress, n)' = {}
  <2> SUFFICES ASSUME NEW k \in Torn(WordPress, n)' PROVE FALSE
    OBVIOUS
  <2>1. k \in DOMAIN artifacts
    BY <1>1 DEF Torn, ScansInv
  <2>2. CASE k \in Torn(WordPress, n)
    BY <1>8, <2>2 DEF ScansInv
  <2>3. CASE Tears(k) /\ artifacts[k].url.host = n /\ artifacts[k].value = WordPress
    BY <1>2, <1>8, <2>1, <2>3
  <2> QED
    BY <2>1, <2>2, <2>3, TornGrows
<1>9. \A x \in torn' : x[1] \in DOMAIN artifacts'
  BY <1>1, <1>2 DEF ScansInv
<1> QED
  BY <1>1, <1>5, <1>7, <1>8, <1>9 DEF ScansInv, OneScheme

(* Without its site a technology makes no work.                            *)
LEMMA NoSiteNoWork ==
    ASSUME NEW t \in Template, NEW a, Located(a), a.type \in Inputs[t], a.type = "technology",
           NamesNoSite(a)
    PROVE  t = "wpscan" /\ Work(t, a, {}) = {}
<1>1. t = "wpscan"
  BY Subscribed
<1>2. ~ScansSite(a)
  BY DEF NamesNoSite, ScansSite, HostOf
<1> QED
  BY <1>1, <1>2 DEF Work, wpscan

(* The result is stored, so that nothing that was to come is lost.         *)
LEMMA PostStep ==
    ASSUME PipelineInv, ~finished, NEW w \in tasks, NEW a \in w.results, Post(w, a)
    PROVE  PipelineInv'
<1>1. /\ Located(a) /\ ~NamesNoSite(a) /\ AddArtifact(a)
      /\ tasks' = (tasks \ {w}) \cup Unsent([w EXCEPT !.results = @ \ {a}])
      /\ UNCHANGED <<scannedDomains, domains, ips, derived, finished, skipped, scans>>
      /\ TypesInv /\ ScansInv /\ ExploreInv
  BY PostStores DEF PipelineInv
<1>2. /\ artifacts' \in Seq(Artifact) /\ Len(artifacts') <= MaxArtifacts
      /\ \A k \in DOMAIN artifacts' : Located(artifacts'[k])
      /\ DOMAIN artifacts \subseteq DOMAIN artifacts'
      /\ \A k \in DOMAIN artifacts :
            /\ artifacts'[k].type = artifacts[k].type
            /\ artifacts'[k].value = artifacts[k].value
            /\ artifacts'[k].port = artifacts[k].port
            /\ artifacts[k].type # "technology" => artifacts'[k] = artifacts[k]
            /\ ~Tears(k) => Trace(artifacts'[k]) = Trace(artifacts[k])
      /\ DOMAIN inflight' = Subscriber
      /\ \A s \in Subscriber :
            inflight'[s] = inflight[s]
               \cup {k \in DOMAIN artifacts' \ DOMAIN artifacts : artifacts'[k].type \in Inputs[s]}
  BY <1>1, AddStores
<1>3. \A s \in Subscriber : PointersFor(s)' =
         PointersFor(s) \cup {k \in DOMAIN artifacts' \ DOMAIN artifacts : artifacts'[k].type \in Inputs[s]}
  BY <1>1, <1>2 DEF PointersFor
<1>4. TypesInv'
  <2>1. \A s \in Subscriber : inflight'[s] \subseteq PointersFor(s)'
    BY <1>1, <1>2, <1>3 DEF TypesInv
  <2> QED
    BY <1>1, <1>2, <2>1, TaskGoesOn DEF TypesInv, Joined
<1>5. ScansInv'
  BY <1>1, <1>4, PostScans
<1>6. \A trace : Comes(trace) => Comes(trace)'
  BY <1>1, PostComes
<1>7. ASSUME NEW s \in Subscriber, NEW e \in PointersFor(s)
      PROVE  /\ At(e)' = At(e) \/ (At(e).type = "technology" /\ Located(At(e)'))
             /\ Trace(At(e)') = Trace(At(e)) \/ NamesNoSite(At(e)')
             /\ /\ At(e)'.type = At(e).type /\ At(e)'.value = At(e).value
                /\ At(e)'.port = At(e).port
  <2>1. CASE e \in DOMAIN artifacts
    <3>1. e \in DOMAIN artifacts'
      BY <1>2, <2>1
    <3>2. e <= MaxArtifacts
      BY <1>1, <2>1, StorageAssumption DEF TypesInv
    <3>3. At(e) = artifacts[e] /\ At(e)' = artifacts'[e]
      BY <3>2 DEF At
    <3>4. ~Tears(e) \/ NamesNoSite(artifacts'[e])
      BY DEF Tears
    <3> QED
      BY <1>2, <2>1, <3>1, <3>3, <3>4
  <2>2. CASE e \in {Event[h] : h \in derived}
    <3>1. ~(e <= MaxArtifacts)
      <4>1. PICK h \in Domain \X Port : e = Event[h]
        BY <1>1, <2>2, DerivedType
      <4> QED
        BY <4>1, PipelineAssumption, StorageAssumption
    <3> QED
      BY <3>1 DEF At, DerivedHost
  <2> QED
    BY <2>1, <2>2 DEF PointersFor
<1>8. ASSUME NEW t \in Template, NEW e \in PointersFor(t)'
      PROVE  e \in inflight'[t] \/ Handled(t, At(e))'
  <2>0. t \in Subscriber
    BY PipelineAssumption
  <2>1. CASE e \notin PointersFor(t)
    BY <1>2, <1>3, <2>0, <2>1
  <2>2. CASE e \in inflight[t]
    BY <1>2, <2>0, <2>2
  <2>3. CASE e \in PointersFor(t) /\ Handled(t, At(e))
    <3>1. PICK b : b = At(e)
      OBVIOUS
    <3>2. PICK c : c = At(e)'
      OBVIOUS
    <3>3. Handled(t, b)'
      BY <1>1, <1>6, <2>3, <3>1, HandledStays
    <3>4. CASE c # b
      <4>1. /\ b.type = "technology" /\ Located(c) /\ c.type = b.type
            /\ Located(b) /\ b.type \in Inputs[t]
            /\ Trace(c) = Trace(b) \/ NamesNoSite(c)
        BY <1>1, <1>7, <2>0, <2>3, <3>1, <3>2, <3>4, PointedTo
      <4>2. CASE Trace(c) = Trace(b)
        <5>1. /\ InScope(c) <=> InScope(b)
              /\ Failed(t, c) <=> Failed(t, b)
              /\ t = "wpscan"
              /\ \A r \in Work(t, c, {}) : \E q \in Work(t, b, {}) : Trace(r) = Trace(q)
          BY <4>1, <4>2, SameTrace
        <5>2. /\ Failed(t, c)' <=> Failed(t, c)
              /\ Failed(t, b)' <=> Failed(t, b)
          BY <1>1 DEF Failed
        <5>3. Handled(t, c)'
          BY <3>3, <5>1, <5>2 DEF Handled
        <5> QED
          BY <3>2, <5>3
      <4>3. CASE NamesNoSite(c)
        <5>1. t = "wpscan" /\ Work(t, c, {}) = {}
          BY <4>1, <4>3, NoSiteNoWork
        <5>2. Handled(t, c)'
          BY <5>1 DEF Handled
        <5> QED
          BY <3>2, <5>2
      <4> QED
        BY <4>1, <4>2, <4>3
    <3> QED
      BY <3>2, <3>3, <3>4
  <2> QED
    BY <1>1, <2>1, <2>2, <2>3 DEF ExploreInv
<1>9. ExploreInv'
  <2>1. \A d \in scannedDomains' : \A x \in Subdomains[d] : Comes(<<"domain", x, None, x>>)'
    BY <1>1, <1>6 DEF ExploreInv
  <2>2. ASSUME NEW k \in PointersFor("deriver")'
        PROVE  k \in inflight'["deriver"] \/ Filed(At(k))'
    <3>0. "deriver" \in Subscriber
      BY PipelineAssumption
    <3>1. CASE k \notin PointersFor("deriver")
      BY <1>2, <1>3, <3>0, <3>1
    <3>2. CASE k \in PointersFor("deriver")
      <4>1. /\ At(k)'.value = At(k).value /\ At(k)'.type = At(k).type
            /\ At(k)'.port = At(k).port
        BY <1>7, <3>0, <3>2
      <4>2. k \in inflight["deriver"] => k \in inflight'["deriver"]
        BY <1>2, <3>0
      <4>3. k \in inflight["deriver"] \/ Filed(At(k))
        BY <1>1, <3>2 DEF ExploreInv
      <4> QED
        BY <1>1, <4>1, <4>2, <4>3 DEF Filed
    <3> QED
      BY <3>1, <3>2
  <2> QED
    BY <1>1, <1>8, <2>1, <2>2 DEF ExploreInv
<1> QED
  BY <1>4, <1>5, <1>9 DEF PipelineInv
-----------------------------------------------------------------------------
(* Deriver, start and end.                                                 *)

(* A handler adds to one of the two sets and publishes what is then new.   *)
LEMMA DeriveStep ==
    ASSUME PipelineInv, ~finished, NEW e \in inflight["deriver"], Derive(e)
    PROVE  PipelineInv'
<1>1. PICK a : a = At(e)
  OBVIOUS
<1>2. PICK new : new = NewHosts(e)
  OBVIOUS
<1>3. /\ domains' = domains \cup ({a.value} \cap Domain)
      /\ ips' = ips \cup (IF a.type = "host" THEN {<<a.value, a.port>>} \cap (IP \X Port) ELSE {})
      /\ derived' = derived \cup new
      /\ inflight' = [s \in Subscriber |->
             (inflight[s] \ (IF s = "deriver" THEN {e} ELSE {}))
             \cup (IF "host" \in Inputs[s] THEN {Event[h] : h \in new} ELSE {})]
      /\ UNCHANGED <<artifacts, tasks, scannedDomains, finished, skipped, torn, scans>>
  BY <1>1, <1>2 DEF Derive, historyVars
<1>4. new = Joined(domains', ips') \ derived
  BY <1>2 DEF NewHosts
<1>5. TypesInv /\ ScansInv /\ ExploreInv /\ "deriver" \in Subscriber /\ Template \subseteq Subscriber
  BY PipelineAssumption DEF PipelineInv
<1>6. e \in PointersFor("deriver")
  BY <1>5 DEF TypesInv
<1>7. Located(a) /\ a.type \in {"host", "domain"}
  BY <1>1, <1>5, <1>6, PointedTo, PipelineAssumption
<1>8. /\ domains' \subseteq Domain /\ ips' \subseteq IP \X Port
      /\ derived' = Joined(domains', ips')
      /\ domains \subseteq domains' /\ ips \subseteq ips'
  <2>1. domains' \subseteq Domain /\ domains \subseteq domains'
    BY <1>3, <1>5 DEF TypesInv
  <2>2. ips' \subseteq IP \X Port /\ ips \subseteq ips'
    BY <1>3, <1>5 DEF TypesInv
  <2>3. derived \subseteq Joined(domains', ips')
    BY <1>5, <2>1, <2>2 DEF TypesInv, Joined
  <2> QED
    BY <1>3, <1>4, <2>1, <2>2, <2>3
<1>9. \A s : PointersFor(s)' = PointersFor(s)
                 \cup (IF "host" \in Inputs[s] THEN {Event[h] : h \in new} ELSE {})
  BY <1>3 DEF PointersFor
<1>10. \A k : At(k)' = At(k)
  BY <1>3 DEF At, DerivedHost
<1>11. DOMAIN inflight' = Subscriber /\ \A s \in Subscriber :
          /\ inflight'[s] \subseteq inflight[s]
                \cup (IF "host" \in Inputs[s] THEN {Event[h] : h \in new} ELSE {})
          /\ (IF "host" \in Inputs[s] THEN {Event[h] : h \in new} ELSE {}) \subseteq inflight'[s]
          /\ \A k \in inflight[s] : k \in inflight'[s] \/ (s = "deriver" /\ k = e)
  BY <1>3
<1>12. TypesInv'
  <2>1. \A s \in Subscriber : inflight'[s] \subseteq PointersFor(s)'
    BY <1>5, <1>9, <1>11 DEF TypesInv
  <2> QED
    BY <1>3, <1>5, <1>8, <1>11, <2>1 DEF TypesInv, Joined
<1>13. ScansInv'
  <2>1. /\ \A k, value, n : TechnologyOf(k, value, n)' = TechnologyOf(k, value, n)
        /\ \A value, n : Torn(value, n)' = Torn(value, n)
    BY <1>3 DEF TechnologyOf, Torn
  <2>2. "wpscan" \in Template => inflight'["wpscan"] \subseteq inflight["wpscan"]
    BY <1>5, <1>11, Subscribed
  <2>3. \A n : Started(n) \subseteq Started(n)'
    BY <1>3, <2>1, <2>2 DEF Started, Sites
  <2>4. \A n \in Name : scans'[n] <= Cardinality(Started(n)')
    <3> TAKE n \in Name
    <3>1. scans[n] \in Nat /\ scans[n] <= Cardinality(Started(n)) /\ scans'[n] = scans[n]
      BY <1>3, <1>5 DEF ScansInv
    <3> QED
      BY <1>5, <1>12, <2>3, <3>1, BoundStays
  <2> QED
    BY <1>3, <1>5, <2>1, <2>4 DEF ScansInv, OneScheme
<1>14. \A trace : Comes(trace) => Comes(trace)'
  BY <1>3, ComesStays
<1>15. ASSUME NEW t \in Template, NEW x \in PointersFor(t)'
       PROVE  x \in inflight'[t] \/ Handled(t, At(x))'
  <2>0. t \in Subscriber /\ t # "deriver"
    BY <1>5, PipelineAssumption
  <2>1. CASE x \notin PointersFor(t)
    BY <1>9, <1>11, <2>0, <2>1
  <2>2. CASE x \in inflight[t]
    BY <1>11, <2>0, <2>2
  <2>3. CASE Handled(t, At(x))
    <3>1. PICK b : b = At(x)
      OBVIOUS
    <3>2. Handled(t, b)'
      BY <1>3, <1>14, <2>3, <3>1, HandledStays
    <3> QED
      BY <1>10, <3>1, <3>2
  <2> QED
    BY <1>5, <2>1, <2>2, <2>3 DEF ExploreInv
<1>16. ASSUME NEW k \in PointersFor("deriver")'
       PROVE  k \in inflight'["deriver"] \/ Filed(At(k))'
  <2>0. At(k)' = At(k)
    BY <1>10
  <2>1. CASE k \notin PointersFor("deriver")
    BY <1>5, <1>9, <1>11, <2>1
  <2>2. CASE k \in inflight["deriver"] /\ k # e
    BY <1>5, <1>11, <2>2
  <2>3. CASE Filed(At(k))
    BY <1>8, <2>0, <2>3 DEF Filed
  <2>4. CASE k = e
    <3>1. CASE a.type = "domain"
      BY <1>1, <1>3, <1>7, <2>0, <2>4, <3>1 DEF Located, WellTyped, Filed
    <3>2. CASE a.type = "host"
      <4>1. a.value \in Name /\ a.port \in Port
        BY <1>7, <3>2 DEF Located, WellTyped
      <4>2. CASE a.value \in Domain
        BY <1>1, <1>3, <2>0, <2>4, <4>2 DEF Filed
      <4>3. CASE a.value \in IP
        <5>1. <<a.value, a.port>> \in ips'
          BY <1>3, <3>2, <4>1, <4>3
        <5> QED
          BY <1>1, <2>0, <2>4, <3>2, <5>1 DEF Filed
      <4> QED
        BY <4>1, <4>2, <4>3 DEF Name
    <3> QED
      BY <1>7, <3>1, <3>2
  <2> QED
    BY <1>5, <2>1, <2>2, <2>3, <2>4 DEF ExploreInv
<1>17. \A d \in scannedDomains' : \A x \in Subdomains[d] : Comes(<<"domain", x, None, x>>)'
  BY <1>3, <1>5, <1>14 DEF ExploreInv
<1>18. ExploreInv'
  BY <1>3, <1>15, <1>16, <1>17 DEF ExploreInv
<1> QED
  BY <1>12, <1>13, <1>18 DEF PipelineInv

LEMMA FinishStep ==
    ASSUME PipelineInv, Finish \/ UNCHANGED pipelineVars
    PROVE  PipelineInv'
<1>1. /\ UNCHANGED <<inflight, artifacts, tasks, scannedDomains, domains, ips, derived, skipped, torn, scans>>
      /\ finished' => finished \/ (tasks = {} /\ \A s \in Subscriber : inflight[s] = {})
  BY DEF Finish, pipelineVars, busVars, deriverVars, historyVars
<1>2. /\ \A s : PointersFor(s)' = PointersFor(s)
      /\ \A k : At(k)' = At(k)
      /\ \A value, n : Torn(value, n)' = Torn(value, n)
      /\ \A k, value, n : TechnologyOf(k, value, n)' = TechnologyOf(k, value, n)
      /\ \A a : Filed(a)' = Filed(a)
  BY <1>1 DEF PointersFor, At, DerivedHost, Torn, TechnologyOf, Filed
<1>3. \A n : Started(n)' = Started(n)
  BY <1>1, <1>2 DEF Started, Sites
<1>4. \A trace : Lost(trace)' = Lost(trace)
  BY <1>2 DEF Lost
<1>5. \A trace : Comes(trace)' = Comes(trace)
  BY <1>1, <1>4 DEF Comes
<1>6. \A t, a : Handled(t, a)' = Handled(t, a)
  BY <1>1, <1>5 DEF Handled, Failed
<1>7. TypesInv' /\ ScansInv'
  BY <1>1, <1>2, <1>3 DEF PipelineInv, TypesInv, ScansInv, Joined, OneScheme
<1>8. \A t \in Template : \A e \in PointersFor(t)' : e \in inflight'[t] \/ Handled(t, At(e))'
  <2> TAKE t \in Template
  <2> TAKE e \in PointersFor(t)'
  <2>1. PICK a : a = At(e)
    OBVIOUS
  <2>2. e \in inflight[t] \/ Handled(t, a)
    BY <1>2, <2>1 DEF PipelineInv, ExploreInv
  <2>3. Handled(t, a)' = Handled(t, a)
    BY <1>6
  <2> QED
    BY <1>1, <1>2, <2>1, <2>2, <2>3
<1>9. \A k \in PointersFor("deriver")' : k \in inflight'["deriver"] \/ Filed(At(k))'
  <2> TAKE k \in PointersFor("deriver")'
  <2>1. PICK a : a = At(k)
    OBVIOUS
  <2>2. k \in inflight["deriver"] \/ Filed(a)
    BY <1>2, <2>1 DEF PipelineInv, ExploreInv
  <2>3. Filed(a)' = Filed(a)
    BY <1>2
  <2> QED
    BY <1>1, <1>2, <2>1, <2>2, <2>3
<1>10. ExploreInv'
  BY <1>1, <1>5, <1>8, <1>9 DEF PipelineInv, ExploreInv
<1> QED
  BY <1>7, <1>10 DEF PipelineInv

(* At the start the targets are on their way, and nothing else is there.   *)
THEOREM InitPipelineInv == PipelineInit => PipelineInv
<1> SUFFICES ASSUME PipelineInit PROVE PipelineInv
  OBVIOUS
<1>1. /\ artifacts \in Seq(Target) /\ Len(artifacts) <= MaxArtifacts
      /\ tasks = {} /\ scannedDomains = {} /\ domains = {} /\ ips = {} /\ derived = {}
      /\ finished = FALSE /\ torn = {} /\ scans = [n \in Name |-> 0]
      /\ inflight = [s \in Subscriber |-> {k \in DOMAIN artifacts : artifacts[k].type \in Inputs[s]}]
  BY PipelineAssumption DEF PipelineInit
<1>2. ASSUME NEW m \in Target PROVE Located(m) /\ m \in Artifact /\ m.type \in {"ip", "domain"}
  <2>1. \A i \in IP : Located(Message("ip", i, None, None, None))
    BY TargetLocated DEF Name
  <2>2. \A d \in Domain : Located(Message("domain", d, None, None, None))
    BY TargetLocated DEF Name
  <2>3. Located(m)
    BY <2>1, <2>2 DEF Target
  <2>4. m.type \in {"ip", "domain"}
    BY DEF Target, Message
  <2> QED
    BY <2>3, <2>4 DEF Located, WellTyped
<1>3. \A k \in DOMAIN artifacts : artifacts[k] \in Target
  BY <1>1
<1>4. artifacts \in Seq(Artifact)
  BY <1>1, <1>2
<1>5. \A s \in Subscriber : inflight[s] = PointersFor(s)
  BY <1>1 DEF PointersFor
<1>6. DOMAIN inflight = Subscriber
  BY <1>1
<1>7. TypesInv
  BY <1>1, <1>2, <1>3, <1>4, <1>5, <1>6 DEF TypesInv, Joined
<1>8. ScansInv
  <2>1. \A n : Torn(WordPress, n) = {}
    BY <1>1 DEF Torn
  <2>2. \A k, value, n : ~TechnologyOf(k, value, n)
    BY <1>2, <1>3 DEF TechnologyOf
  <2>3. \A n : Cardinality(Started(n)) \in Nat
    BY <1>7, SitesFinite, FS_CardinalityType
  <2> QED
    BY <1>1, <2>1, <2>2, <2>3 DEF ScansInv
<1>9. ExploreInv
  BY <1>1, <1>5, PipelineAssumption DEF ExploreInv
<1> QED
  BY <1>7, <1>8, <1>9 DEF PipelineInv

THEOREM NextPipelineInv == PipelineInv /\ [PipelineNext]_pipelineVars => PipelineInv'
<1> SUFFICES ASSUME PipelineInv, PipelineNext \/ UNCHANGED pipelineVars PROVE PipelineInv'
  OBVIOUS
<1>1. CASE ~finished /\ \E t \in Template : \E e \in inflight[t] : Drop(t, e) \/ Start(t, e) \/ Skip(t, e)
  BY <1>1, DropStep, StartStep, SkipStep
<1>2. CASE ~finished /\ \E w \in tasks : \E a \in w.results : Post(w, a)
  BY <1>2, PostStep
<1>3. CASE ~finished /\ \E e \in inflight["deriver"] : Derive(e)
  BY <1>3, DeriveStep
<1>4. CASE Finish \/ UNCHANGED pipelineVars
  BY <1>4, FinishStep
<1> QED
  BY <1>1, <1>2, <1>3, <1>4 DEF PipelineNext, PipelineStep

(* The inductive invariant of the whole scan, for sites that show pages on *)
(* one scheme and for sites that show them on both.                        *)
THEOREM PipelineInvHolds == PipelineSpec => []PipelineInv
BY InitPipelineInv, NextPipelineInv, PTL DEF PipelineSpec

(* Every pointer points to what is stored or derived, and no container     *)
(* gets an artifact on which its work function panics.                     *)
THEOREM PipelineTypeCorrect == PipelineSpec => []PipelineTypeOK
<1>1. ASSUME PipelineInv PROVE PipelineTypeOK
  <2>1. \A k \in DOMAIN artifacts : WellTyped(artifacts[k])
    BY <1>1 DEF PipelineInv, TypesInv, Located
  <2>2. \A s \in Subscriber : inflight[s] \subseteq DOMAIN artifacts \cup {Event[h] : h \in derived}
    BY <1>1 DEF PipelineInv, TypesInv, PointersFor
  <2>3. \A w \in tasks : w.artifact.type \in Accepts(w.template)
    BY <1>1, PipelineAssumption DEF PipelineInv, TypesInv
  <2> QED
    BY <2>1, <2>2, <2>3 DEF PipelineTypeOK
<1> QED
  BY <1>1, PipelineInvHolds, PTL

(* A site that has pages on one scheme is scanned at most once, although   *)
(* each scan posts the technology that starts one; any other at most once  *)
(* more than merges have lost it.                                          *)
THEOREM ScansAreBounded == PipelineSpec => []WordPressScannedOnce
<1>1. ASSUME PipelineInv, NEW n \in Name
      PROVE  /\ scans[n] <= 1 + Cardinality(Torn(WordPress, n))
             /\ OneScheme(n) => scans[n] <= 1
  <2>0. TypesInv /\ ScansInv
    BY <1>1 DEF PipelineInv
  <2> DEFINE now == {k \in DOMAIN artifacts : TechnologyOf(k, WordPress, n)}
  <2>1. IsFiniteSet(Sites(n)) /\ Sites(n) = now \cup Torn(WordPress, n)
    BY <2>0, SitesFinite DEF Sites
  <2>2. IsFiniteSet(Torn(WordPress, n)) /\ Cardinality(Torn(WordPress, n)) \in Nat
    BY <2>1, FS_Subset, FS_CardinalityType
  <2>3. Cardinality(Sites(n)) <= Cardinality(Torn(WordPress, n)) + 1
    <3>1. CASE now = {}
      <4>1. Sites(n) = Torn(WordPress, n)
        BY <2>1, <3>1
      <4> QED
        BY <2>2, <4>1
    <3>2. CASE now # {}
      <4>1. PICK k \in now : TRUE
        BY <3>2
      <4>2. \A j \in now : j = k
        BY <2>0, <4>1 DEF ScansInv
      <4>3. Sites(n) = Torn(WordPress, n) \cup {k}
        BY <2>1, <4>1, <4>2
      <4> HIDE DEF now
      <4>4. Cardinality(Sites(n)) = IF k \in Torn(WordPress, n) THEN Cardinality(Torn(WordPress, n))
                                    ELSE Cardinality(Torn(WordPress, n)) + 1
        BY <2>2, <4>3, FS_AddElement
      <4> QED
        BY <2>2, <4>4
    <3> QED
      BY <3>1, <3>2
  <2>4. /\ Cardinality(Started(n)) <= Cardinality(Sites(n))
        /\ Cardinality(Started(n)) \in Nat /\ Cardinality(Sites(n)) \in Nat
    BY <2>0, SitesFinite, FS_Subset, FS_CardinalityType
  <2>5. scans[n] \in Nat /\ scans[n] <= Cardinality(Started(n))
    BY <2>0 DEF ScansInv
  <2>6. OneScheme(n) => Cardinality(Torn(WordPress, n)) = 0
    BY <2>0, FS_EmptySet DEF ScansInv
  <2> QED
    BY <2>2, <2>3, <2>4, <2>5, <2>6
<1>2. PipelineInv => WordPressScannedOnce
  BY <1>1 DEF WordPressScannedOnce
<1> QED
  BY <1>2, PipelineInvHolds, PTL
-----------------------------------------------------------------------------
(* What "Finished!" means.                                                 *)

(* The scanners of the repository, with the inputs and the flag of their   *)
(* config.yaml.                                                            *)
DefaultTemplates ==
    /\ {"nuclei", "nmap", "subfinder", "katana", "wapalyzer", "wpscan"} \subseteq Template
    /\ "domain" \in Inputs["nuclei"] /\ "ip" \in Inputs["nmap"]
    /\ "domain" \in Inputs["subfinder"] /\ "host" \in Inputs["katana"]
    /\ "httpmsg" \in Inputs["wapalyzer"] /\ "technology" \in Inputs["wpscan"]
    /\ {"domain", "host"} \subseteq Inputs["deriver"]
    /\ "wapalyzer" \in IgnoreScope

(* At the end what was to come is stored, or lost its site, and every      *)
(* pointer was handled.                                                    *)
LEMMA AtTheEnd ==
    ASSUME PipelineInv, finished
    PROVE  /\ \A trace : Comes(trace) =>
                 (\E k \in DOMAIN artifacts : Trace(artifacts[k]) = trace) \/ Lost(trace)
           /\ \A t \in Template : \A e \in PointersFor(t) : Handled(t, At(e))
           /\ \A k \in PointersFor("deriver") : Filed(At(k))
<1>1. tasks = {} /\ (\A s \in Subscriber : inflight[s] = {})
  BY DEF PipelineInv, ExploreInv
<1>2. \A trace : Comes(trace) =>
         (\E k \in DOMAIN artifacts : Trace(artifacts[k]) = trace) \/ Lost(trace)
  BY <1>1 DEF Comes
<1>3. "deriver" \in Subscriber /\ Template \subseteq Subscriber
  BY PipelineAssumption
<1> QED
  BY <1>1, <1>2, <1>3 DEF PipelineInv, ExploreInv

(* Each open port of an address in scope is stored as a host.              *)
LEMMA HostOfAddress ==
    ASSUME PipelineInv, finished, DefaultTemplates, NEW i \in ScopeIPs, Known(i),
           NEW p \in OpenPorts[i]
    PROVE  \E e \in DOMAIN artifacts : /\ artifacts[e].type = "host" /\ artifacts[e].value = i
                                       /\ artifacts[e].port = p
<1>0. PICK k \in DOMAIN artifacts : artifacts[k].type \in {"ip", "domain"} /\ artifacts[k].value = i
  BY DEF Known
<1>1. PICK a : a = artifacts[k]
  OBVIOUS
<1>2. Located(a) /\ At(k) = a /\ i \in IP
  BY <1>1, Pointers, PipelineAssumption DEF PipelineInv, TypesInv
<1>3. a.type = "ip" /\ a.value = i
  BY <1>0, <1>1, <1>2, NameAssumption DEF Located, WellTyped
<1>4. "nmap" \in Template /\ k \in PointersFor("nmap")
  BY <1>1, <1>3 DEF DefaultTemplates, PointersFor
<1>5. Handled("nmap", a)
  BY <1>2, <1>4, AtTheEnd
<1>6. GetIPFromArtifact(a) = i
  BY <1>2, <1>3, NameAssumption DEF Located, GetIPFromArtifact, ValueIP, Name
<1>7. InScope(a)
  BY <1>6 DEF InScope
<1>8. PICK r : r = Host(i, p, i)
  OBVIOUS
<1>9. r \in Work("nmap", a, {})
  BY <1>3, <1>8 DEF Work, nmap
<1>10. Comes(Trace(r))
  BY <1>5, <1>7, <1>9 DEF Handled
<1>11. Trace(r) = <<"host", i, p, None>>
  BY <1>8 DEF Trace, Host, Message, HostOf
<1>12. ~Lost(Trace(r))
  BY <1>11 DEF Lost
<1>13. PICK e \in DOMAIN artifacts : Trace(artifacts[e]) = Trace(r)
  BY <1>10, <1>12, AtTheEnd
<1> QED
  BY <1>11, <1>13 DEF Trace

(* Every reachable host has a pointer with which katana was started.       *)
LEMMA ReachableIsHost ==
    ASSUME PipelineInv, finished, DefaultTemplates, NEW n \in Name, NEW p \in Port,
           Reachable(<<n, p>>)
    PROVE  \E e \in PointersFor("katana") :
              /\ At(e).type = "host" /\ At(e).value = n /\ At(e).port = p /\ InScope(At(e))
<1>1. /\ "katana" \in Subscriber /\ "deriver" \in Subscriber
      /\ ScopeIPs \subseteq IP /\ ScopeDomains \subseteq Domain
  BY PipelineAssumption DEF DefaultTemplates
<1>2. PICK ip : ip = IF n \in IP THEN n ELSE Resolve[n]
  OBVIOUS
<1>3. Known(n) /\ Known(ip) /\ ip \in ScopeIPs /\ ip \in IP /\ p \in OpenPorts[ip]
  BY <1>1, <1>2 DEF Reachable
<1>4. PICK e \in DOMAIN artifacts :
         artifacts[e].type = "host" /\ artifacts[e].value = ip /\ artifacts[e].port = p
  BY <1>3, HostOfAddress
<1>5. PICK a : a = artifacts[e]
  OBVIOUS
<1>6. Located(a) /\ At(e) = a
  BY <1>5, Pointers DEF PipelineInv, TypesInv
<1>7. e \in PointersFor("katana") /\ e \in PointersFor("deriver")
  BY <1>4 DEF PointersFor, DefaultTemplates
<1>8. CASE n \in IP
  <2>1. a.type = "host" /\ a.value = n /\ a.port = p /\ n \in ScopeIPs
    BY <1>2, <1>3, <1>4, <1>5, <1>8
  <2>2. GetIPFromArtifact(a) = n
    BY <1>6, <1>8, <2>1, NameAssumption DEF Located, GetIPFromArtifact, Name
  <2>3. InScope(a)
    BY <2>1, <2>2 DEF InScope
  <2> QED
    BY <1>6, <1>7, <2>1, <2>3
<1>9. CASE n \in Domain
  <2>1. n \notin IP /\ ip = Resolve[n] /\ ip \notin Domain
    BY <1>2, <1>3, <1>9, NameAssumption
  <2>2. n \in domains
    <3>1. PICK k \in DOMAIN artifacts : artifacts[k].type \in {"ip", "domain"} /\ artifacts[k].value = n
      BY <1>3 DEF Known
    <3>2. PICK d : d = artifacts[k]
      OBVIOUS
    <3>3. Located(d) /\ At(k) = d
      BY <3>2, Pointers DEF PipelineInv, TypesInv
    <3>4. d.type = "domain" /\ d.value = n
      BY <2>1, <3>1, <3>2, <3>3 DEF Located, WellTyped
    <3>5. k \in PointersFor("deriver")
      BY <3>2, <3>4 DEF PointersFor, DefaultTemplates
    <3> QED
      BY <3>3, <3>4, <3>5, AtTheEnd DEF Filed
  <2>3. <<ip, p>> \in ips
    <3>1. Filed(a) /\ a.value = ip /\ a.port = p
      BY <1>4, <1>5, <1>6, <1>7, AtTheEnd
    <3> QED
      BY <2>1, <3>1 DEF Filed, PipelineInv, TypesInv
  <2>4. <<n, p>> \in derived
    BY <2>1, <2>2, <2>3 DEF PipelineInv, TypesInv, Joined
  <2>5. PICK x : x = Event[<<n, p>>]
    OBVIOUS
  <2>6. x \in PointersFor("katana")
    BY <2>4, <2>5 DEF PointersFor, DefaultTemplates
  <2>7. At(x).type = "host" /\ At(x).value = n /\ At(x).port = p /\ At(x).ip = ip
    <3>1. <<n, p>> \in Domain \X Port
      BY <1>9
    <3>2. At(x) = DerivedHost(<<n, p>>)
      BY <2>5, <3>1, Pointers DEF PipelineInv
    <3> QED
      BY <2>1, <3>2 DEF DerivedHost, Host, Message
  <2>8. ip # None
    BY <1>3, NameAssumption DEF Name
  <2>9. GetIPFromArtifact(At(x)) = ip
    BY <2>7, <2>8 DEF GetIPFromArtifact
  <2>10. InScope(At(x))
    BY <1>3, <2>9 DEF InScope
  <2> QED
    BY <2>6, <2>7, <2>10
<1> QED
  BY <1>8, <1>9 DEF Name

LEMMA StoredTrace ==
    ASSUME PipelineInv, finished, NEW type, NEW value, NEW n, Comes(<<type, value, None, n>>)
    PROVE  Stored(type, value, n) \/ (type = "technology" /\ Torn(value, n) # {})
<1>1. CASE \E k \in DOMAIN artifacts : Trace(artifacts[k]) = <<type, value, None, n>>
  BY <1>1 DEF Trace, Stored
<1>2. CASE Lost(<<type, value, None, n>>)
  BY <1>2 DEF Lost
<1> QED
  BY <1>1, <1>2, AtTheEnd

(* Every page of a host that is crawled is stored, and its technologies.   *)
LEMMA HostCrawled ==
    ASSUME PipelineInv, finished, DefaultTemplates, NEW n \in Name, NEW p \in Port,
           Reachable(<<n, p>>), <<"katana", <<n, p>>>> \notin skipped
    PROVE  Crawled(CrawlHost(<<n, p>>))
<1>1. PICK e \in PointersFor("katana") :
         At(e).type = "host" /\ At(e).value = n /\ At(e).port = p /\ InScope(At(e))
  BY ReachableIsHost
<1>2. PICK b : b = At(e)
  OBVIOUS
<1>3. "katana" \in Template /\ "wapalyzer" \in Template
  BY DEF DefaultTemplates
<1>4. \A r \in Work("katana", b, {}) : Comes(Trace(r))
  <2>1. Handled("katana", b)
    BY <1>1, <1>2, <1>3, AtTheEnd
  <2>2. ~Failed("katana", b)
    BY <1>1, <1>2 DEF Failed, Subject
  <2> QED
    BY <1>1, <1>2, <2>1, <2>2 DEF Handled
<1>5. PICK g : g = CrawlHost(<<n, p>>)
  OBVIOUS
<1>6. PICK m \in Name, q \in Port : g = <<m, q>> /\ g[1] = m
  BY <1>5, CrawlHostType
<1>7. Pages[g] \subseteq SiteURL(m) /\ Aborted[g] \subseteq SiteURL(m)
  BY <1>6, ScannersAssumption DEF HostPort
<1>8. Crawls(g)
  BY <1>5 DEF Reachable
<1>9. Work("katana", b, {}) = {Message("httpmsg", u, None, u, None) : u \in Pages[g]}
                       \cup {Message("url", u, None, u, None) : u \in Aborted[g]}
  BY <1>1, <1>2, <1>5, <1>8 DEF Work, katana
<1>10. \A u \in SiteURL(m) : /\ Trace(Message("httpmsg", u, None, u, None)) = <<"httpmsg", u, None, m>>
                            /\ Trace(Message("url", u, None, u, None)) = <<"url", u, None, m>>
  BY SiteURLType DEF Trace, Message, HostOf
<1>11. ASSUME NEW u \in Pages[g] PROVE Comes(<<"httpmsg", u, None, m>>)
  <2>1. Comes(Trace(Message("httpmsg", u, None, u, None)))
    BY <1>4, <1>9
  <2> QED
    BY <1>7, <1>10, <2>1
<1>12. ASSUME NEW u \in Aborted[g] PROVE Comes(<<"url", u, None, m>>)
  <2>1. Comes(Trace(Message("url", u, None, u, None)))
    BY <1>4, <1>9
  <2> QED
    BY <1>7, <1>10, <2>1
<1>13. /\ \A u \in Pages[g] : Stored("httpmsg", u, m)
       /\ \A u \in Aborted[g] : Stored("url", u, m)
  <2>1. ASSUME NEW u \in Pages[g] PROVE Stored("httpmsg", u, m)
    <3>1. Comes(<<"httpmsg", u, None, m>>)
      BY <1>11
    <3> QED
      BY <3>1, StoredTrace
  <2>2. ASSUME NEW u \in Aborted[g] PROVE Stored("url", u, m)
    <3>1. Comes(<<"url", u, None, m>>)
      BY <1>12
    <3> QED
      BY <3>1, StoredTrace
  <2> QED
    BY <2>1, <2>2
<1>14. ASSUME NEW u \in Pages[g], <<"wapalyzer", u>> \notin skipped,
              NEW f \in Fingerprints[u]
       PROVE  Found(f[1], m)
  <2>1. PICK k \in DOMAIN artifacts :
           artifacts[k].type = "httpmsg" /\ artifacts[k].value = u
    BY <1>13 DEF Stored
  <2>2. PICK a : a = artifacts[k]
    OBVIOUS
  <2>3. Located(a) /\ At(k) = a /\ k \in PointersFor("wapalyzer")
    BY <2>1, <2>2, Pointers DEF PipelineInv, TypesInv, PointersFor, DefaultTemplates
  <2>4. a.url = u /\ a.ip = None
    BY <2>1, <2>2, <2>3 DEF Located
  <2>5. Handled("wapalyzer", a) /\ ~Failed("wapalyzer", a)
    BY <1>3, <1>14, <2>3, <2>4, AtTheEnd DEF Failed, Subject
  <2>6. PICK r : r = Message("technology", f[1], a.ip, a.url, f[2])
    OBVIOUS
  <2>7. r \in Work("wapalyzer", a, {})
    BY <2>4, <2>6 DEF Work, wapalyzer
  <2>8. Comes(Trace(r))
    BY <2>5, <2>7 DEF Handled, DefaultTemplates
  <2>9. Trace(r) = <<"technology", f[1], None, m>>
    BY <1>7, <2>4, <2>6, SiteURLType DEF Trace, Message, HostOf
  <2> QED
    BY <2>8, <2>9, StoredTrace DEF Found
<1> QED
  BY <1>5, <1>6, <1>13, <1>14 DEF Crawled

(* A site in scope that shows WordPress, and was never lost, is reported   *)
(* on.                                                                     *)
LEMMA SiteReported ==
    ASSUME PipelineInv, finished, DefaultTemplates, NEW g \in HostPort, Crawled(g),
           ShowsWordPress(g), NEW n \in Name, n = g[1],
           InScope(Message("domain", n, None, Front(n), None)),
           Torn(WordPress, n) = {}, <<"wpscan", n>> \notin skipped
    PROVE  Reported(n)
<1>1. Stored("technology", WordPress, n)
  <2>1. PICK u \in Pages[g] :
           <<"wapalyzer", u>> \notin skipped /\ \E f \in Fingerprints[u] : f[1] = WordPress
    BY DEF ShowsWordPress
  <2>2. Found(WordPress, n)
    BY <2>1 DEF Crawled
  <2> QED
    BY <2>2 DEF Found
<1>2. PICK k \in DOMAIN artifacts : /\ artifacts[k].type = "technology"
                                    /\ artifacts[k].value = WordPress
                                    /\ HostOf(artifacts[k].url) = n
  BY <1>1 DEF Stored
<1>3. PICK a : a = artifacts[k]
  OBVIOUS
<1>4. Located(a) /\ At(k) = a /\ k \in PointersFor("wpscan")
  BY <1>2, <1>3, Pointers DEF PipelineInv, TypesInv, PointersFor, DefaultTemplates
<1>5. /\ a.type = "technology" /\ a.value = WordPress /\ a.ip = None
      /\ a.url \in URL /\ a.url # None /\ a.url.host = n /\ n # None
  BY <1>2, <1>3, <1>4, URLAssumption, NameAssumption DEF Located, HostOf
<1>6. InScope(a)
  <2>1. PICK m : m = Message("domain", n, None, Front(n), None)
    OBVIOUS
  <2>2. m.type = "domain" /\ m.value = n /\ m.ip = None /\ HostOf(m.url) = n
    BY <2>1, FrontType DEF Message, HostOf
  <2>3. GetDomainFromArtifact(m) = n /\ GetDomainFromArtifact(a) = n
    BY <1>5, <2>2 DEF GetDomainFromArtifact, HostOf
  <2>4. GetIPFromArtifact(m) = GetIPFromArtifact(a)
    BY <1>5, <2>2 DEF GetIPFromArtifact, ValueIP, HostOf
  <2> QED
    BY <2>1, <2>3, <2>4 DEF InScope
<1>7. "wpscan" \in Template
  BY DEF DefaultTemplates
<1>8. Handled("wpscan", a) /\ ~Failed("wpscan", a)
  BY <1>4, <1>5, <1>7, AtTheEnd DEF Failed, Subject
<1>9. \A r \in wpscan(a) : Comes(Trace(r))
  BY <1>6, <1>8 DEF Handled, Work
<1>10. Report[n] \in ReportType
  BY ScannersAssumption
<1>11. ScansSite(a)
  BY <1>5 DEF ScansSite, HostOf
<1> DEFINE rep == Report[n]
<1>12. /\ \A title \in rep.vulnerabilities : Message("finding", title, None, a.url, None) \in wpscan(a)
       /\ \A f \in rep.findings : Message("finding", f[1], None, f[2], None) \in wpscan(a)
       /\ \A th \in rep.themes : Message("technology", th[1], None, th[3], th[2]) \in wpscan(a)
       /\ \A v \in rep.plugins : Message("technology", v, None, a.url, None) \in wpscan(a)
  BY <1>5, <1>11 DEF wpscan
<1>13. /\ \A f \in rep.findings : f[2] # None
       /\ \A th \in rep.themes : th[3] # None
  BY <1>10, AnyURLType DEF ReportType
<1> HIDE DEF rep
<1>14. \A type, value, version, u : u # None =>
          Trace(Message(type, value, None, u, version)) = <<type, value, None, u.host>>
  BY DEF Trace, Message, HostOf
<1>15. ASSUME NEW title \in rep.vulnerabilities PROVE Stored("finding", title, n)
  <2>1. Comes(Trace(Message("finding", title, None, a.url, None)))
    BY <1>9, <1>12
  <2> QED
    BY <1>5, <1>14, <2>1, StoredTrace
<1>16. ASSUME NEW f \in rep.findings PROVE Stored("finding", f[1], f[2].host)
  <2>1. Comes(Trace(Message("finding", f[1], None, f[2], None)))
    BY <1>9, <1>12
  <2> QED
    BY <1>13, <1>14, <2>1, StoredTrace
<1>17. ASSUME NEW th \in rep.themes PROVE Found(th[1], th[3].host)
  <2>1. Comes(Trace(Message("technology", th[1], None, th[3], th[2])))
    BY <1>9, <1>12
  <2> QED
    BY <1>13, <1>14, <2>1, StoredTrace DEF Found
<1>18. ASSUME NEW v \in rep.plugins PROVE Found(v, n)
  <2>1. Comes(Trace(Message("technology", v, None, a.url, None)))
    BY <1>9, <1>12
  <2> QED
    BY <1>5, <1>14, <2>1, StoredTrace DEF Found
<1> QED
  BY <1>15, <1>16, <1>17, <1>18 DEF Reported, rep

(* A domain in scope is enumerated, or skipped for one that was.           *)
LEMMA DomainEnumerated ==
    ASSUME PipelineInv, finished, DefaultTemplates, NEW d \in Domain, Known(d),
           InScope(Message("domain", d, None, None, None))
    PROVE  /\ SkipsDomain(d, scannedDomains)
           /\ \A f \in Matches[d] : Stored("finding", f, d)
<1>1. PICK k \in DOMAIN artifacts : artifacts[k].type \in {"ip", "domain"} /\ artifacts[k].value = d
  BY DEF Known
<1>2. PICK a : a = artifacts[k]
  OBVIOUS
<1>3. Located(a) /\ a.type = "domain" /\ a.value = d
  BY <1>1, <1>2, NameAssumption DEF PipelineInv, TypesInv, Located, WellTyped
<1>4. /\ At(k) = a /\ k \in PointersFor("subfinder") /\ k \in PointersFor("nuclei")
      /\ "subfinder" \in Template /\ "nuclei" \in Template
  BY <1>2, <1>3, Pointers DEF PipelineInv, PointersFor, DefaultTemplates
<1>5. InScope(a)
  <2>1. PICK m : m = Message("domain", d, None, None, None)
    OBVIOUS
  <2>2. m.type = "domain" /\ m.value = d /\ m.ip = None /\ m.url = None
    BY <2>1 DEF Message
  <2>3. GetDomainFromArtifact(m) = d /\ GetDomainFromArtifact(a) = d
    BY <1>3, <2>2 DEF GetDomainFromArtifact
  <2>4. GetIPFromArtifact(m) = None
    BY <2>2 DEF GetIPFromArtifact, HostOf, ValueIP
  <2>5. None \notin ScopeIPs
    BY PipelineAssumption, NameAssumption DEF Name
  <2> QED
    BY <2>1, <2>3, <2>4, <2>5 DEF InScope
<1>6. Handled("subfinder", a) /\ Handled("nuclei", a)
  BY <1>4, AtTheEnd
<1>7. SkipsDomain(d, scannedDomains)
  BY <1>3, <1>5, <1>6 DEF Handled
<1>8. ASSUME NEW f \in Matches[d] PROVE Stored("finding", f, d)
  <2>1. PICK r : r = Message("finding", f, None, Front(d), None)
    OBVIOUS
  <2>2. r \in Work("nuclei", a, {})
    BY <1>3, <2>1 DEF Work, nuclei
  <2>3. Comes(Trace(r))
    BY <1>5, <1>6, <2>2 DEF Handled
  <2>4. Trace(r) = <<"finding", f, None, d>>
    BY <2>1, FrontType DEF Trace, Message, HostOf, Name
  <2> QED
    BY <2>3, <2>4, StoredTrace
<1> QED
  BY <1>7, <1>8

(* "Finished!" means that whatever can be found from the targets is stored,*)
(* for every web, with pages on one scheme or on both, every set of        *)
(* scanners that has the repository's, and in whatever order scanners,     *)
(* deriver and storage take their turns.                                   *)
THEOREM FinishedIsExplored ==
    ASSUME DefaultTemplates
    PROVE  PipelineSpec => []FinishedMeansExplored
<1>1. ASSUME PipelineInv PROVE FinishedMeansExplored
  <2> SUFFICES ASSUME finished PROVE FinishedMeansExplored
    BY DEF FinishedMeansExplored
  <2>1. ASSUME NEW h \in HostPort, Reachable(h), <<"katana", h>> \notin skipped
        PROVE  /\ Crawled(CrawlHost(h))
               /\ (/\ ShowsWordPress(CrawlHost(h))
                   /\ InScope(Message("domain", CrawlHost(h)[1], None, Front(CrawlHost(h)[1]), None))
                   /\ Torn(WordPress, CrawlHost(h)[1]) = {}
                   /\ <<"wpscan", CrawlHost(h)[1]>> \notin skipped) => Reported(CrawlHost(h)[1])
    <3>1. PICK n \in Name, p \in Port : h = <<n, p>>
      BY DEF HostPort
    <3>2. Crawled(CrawlHost(h))
      BY <1>1, <2>1, <3>1, HostCrawled
    <3>3. CrawlHost(h) \in HostPort /\ CrawlHost(h)[1] \in Name
      BY <3>1, CrawlHostType
    <3>4. PICK g, m : g = CrawlHost(h) /\ m = g[1]
      OBVIOUS
    <3>5. (/\ ShowsWordPress(g) /\ InScope(Message("domain", m, None, Front(m), None))
           /\ Torn(WordPress, m) = {} /\ <<"wpscan", m>> \notin skipped) => Reported(m)
      BY <1>1, <3>2, <3>3, <3>4, SiteReported
    <3> QED
      BY <3>2, <3>4, <3>5
  <2>2. \A d \in Domain : Known(d) /\ InScope(Message("domain", d, None, None, None)) =>
              /\ SkipsDomain(d, scannedDomains)
              /\ \A f \in Matches[d] : Stored("finding", f, d)
    BY <1>1, DomainEnumerated
  <2>3. ASSUME NEW d \in scannedDomains, NEW e \in Domain, e \in Subdomains[d] PROVE Known(e)
    <3>1. Comes(<<"domain", e, None, e>>)
      BY <1>1, <2>3 DEF PipelineInv, ExploreInv
    <3>2. Stored("domain", e, e)
      BY <1>1, <3>1, StoredTrace
    <3> QED
      BY <3>2 DEF Stored, Known
  <2> QED
    BY <2>1, <2>2, <2>3 DEF FinishedMeansExplored
<1> QED
  BY <1>1, PipelineInvHolds, PTL
=============================================================================
