------------------------------ MODULE Pipeline ------------------------------
(***************************************************************************)
(* A whole scan, from the targets of the scope to "Finished!": scanners,   *)
(* storage, scope and deriver feed each other until nothing new is found.  *)
(*                                                                         *)
(* Bus, queue and hand-off are one set here: an event of a template is in  *)
(* inflight until it is dropped or started.  Dispatch shows that this set  *)
(* loses and doubles nothing and that all of it is served, and Deriver     *)
(* that every host is derived; Scheduler, under which assumption the end   *)
(* comes when nothing is left.  A container dies in no task.               *)
(***************************************************************************)
EXTENDS Scanners, Storage, FiniteSets

CONSTANTS
    Template,      \* scanner templates; the other subscriber is "deriver"
    Instances,     \* Instances[t]: the number of t's containers
    IgnoreScope, ScopeDomains, ScopeIPs,
    Resolve,       \* Resolve[d]: the address of d, or None
    Scopes,        \* lists of targets, one of which is the scope's
    Event          \* Event[h]: the pointer to the host h, a domain with a port

(* What deriveArtifactsFromScope publishes.                                *)
Target == {Message("ip", i, None, None, None) : i \in IP}
          \cup {Message("domain", d, None, None, None) : d \in Domain}

ASSUME PipelineAssumption ==
    /\ Subscriber = Template \cup {"deriver"}
    /\ Template \subseteq {"nuclei", "nmap", "subfinder", "katana", "wapalyzer", "wpscan"}
    /\ \A t \in Template : Inputs[t] \subseteq Accepts(t)
    /\ Inputs["deriver"] \subseteq {"host", "domain"}
    /\ ScopeDomains \subseteq Domain /\ ScopeIPs \subseteq IP
    /\ \A s \in Scopes : s \in Seq(Target) /\ Len(s) <= MaxArtifacts
    /\ Event \in [Domain \X Port -> Nat]
    /\ \A h, i \in Domain \X Port : Event[h] > MaxArtifacts /\ (Event[h] = Event[i] => h = i)
    /\ Resolve \in [Domain -> IP \cup {None}]

VARIABLES
    tasks,           \* tasks in containers: template, artifact and unsent results
    scannedDomains,  \* subfinder's memory
    domains, ips,    \* the deriver's: domains, and addresses with a port each
    derived,         \* the hosts it has published, as domains with a port
    finished,
    skipped,         \* history: template and subject for which a tool failed
    torn,            \* history: stored artifacts that a merge took a site from, and the site
    scans            \* history: scans[n]: how often wpscan scanned n

deriverVars == <<domains, ips, derived>>
historyVars == <<skipped, torn, scans>>
pipelineVars == <<busVars, artifacts, tasks, scannedDomains, deriverVars, finished, historyVars>>

PipelineInit ==
    /\ artifacts \in Scopes
    /\ inflight = [s \in Subscriber |-> {k \in DOMAIN artifacts : artifacts[k].type \in Inputs[s]}]
    /\ chan = [s \in Subscriber |-> <<>>]
    /\ tasks = {} /\ scannedDomains = {}
    /\ domains = {} /\ ips = {} /\ derived = {}
    /\ finished = FALSE /\ skipped = {} /\ torn = {}
    /\ scans = [n \in Name |-> 0]

(* A derived host, with the address that the domain is filed under.        *)
DerivedHost(h) == Host(h[1], h[2], Resolve[h[1]])
At(e) == IF e <= MaxArtifacts THEN artifacts[e]
         ELSE DerivedHost(CHOOSE h \in Domain \X Port : Event[h] = e)

InScope(a) ==
    LET d == GetDomainFromArtifact(a)
        ip == GetIPFromArtifact(a)
    IN  \/ d \in ScopeDomains \/ ip \in ScopeIPs
        \/ d \in Domain /\ Resolve[d] \in ScopeIPs

-----------------------------------------------------------------------------
Take(t, e) == inflight' = [inflight EXCEPT ![t] = @ \ {e}]

Drop(t, e) ==
    /\ t \notin IgnoreScope /\ ~InScope(At(e))
    /\ Take(t, e)
    /\ UNCHANGED <<chan, artifacts, tasks, scannedDomains, deriverVars, finished, historyVars>>

(* The scope was asked when the event was received, which for an artifact  *)
(* that has lost its site may have been before.                            *)
NamesNoSite(a) == a.url # None /\ a.url.host = None
Startable(t, e) ==
    /\ t \in IgnoreScope \/ InScope(At(e)) \/ NamesNoSite(At(e))
    /\ Cardinality({w \in tasks : w.template = t}) < Instances[t]

(* A task ends with its last result; the finish message is no step here.   *)
Unsent(w) == IF w.results = {} THEN {} ELSE {w}

CountScan(t, a) ==
    scans' = IF t = "wpscan" /\ ScansSite(a)
             THEN [scans EXCEPT ![a.url.host] = @ + 1] ELSE scans

Start(t, e) ==
    LET a == At(e)
    IN  /\ Startable(t, e)
        /\ Take(t, e)
        /\ tasks' = tasks \cup Unsent([template |-> t, event |-> e, artifact |-> a,
                                       results |-> Work(t, a, scannedDomains)])
        /\ scannedDomains' = IF t = "subfinder" /\ ~SkipsDomain(a.value, scannedDomains)
                             THEN scannedDomains \cup {a.value} ELSE scannedDomains
        /\ CountScan(t, a)
        /\ UNCHANGED <<chan, artifacts, deriverVars, finished, skipped, torn>>

(* What a log line says has been skipped: a host, a page or a site.        *)
Subject(t, a) == CASE t = "katana" -> <<a.value, a.port>>
                   [] t = "wapalyzer" -> a.url
                   [] t = "wpscan" -> a.url.host

(* The tool fails, which is logged; the task ends with what it has posted. *)
Skip(t, e) ==
    LET a == At(e)
    IN  /\ Startable(t, e) /\ Skippable(t, a)
        /\ Take(t, e)
        /\ \E results \in PostedBefore(t, a) :
              tasks' = tasks \cup Unsent([template |-> t, event |-> e, artifact |-> a,
                                         results |-> results])
        /\ skipped' = skipped \cup {<<t, Subject(t, a)>>}
        /\ CountScan(t, a)
        /\ UNCHANGED <<chan, artifacts, scannedDomains, deriverVars, finished, torn>>

(* One result reaches the storage; they may come in any order.             *)
Post(w, a) ==
    /\ AddArtifact(a)
    /\ torn' = torn \cup {<<k, HostOf(artifacts[k].url)>> :
                  k \in {j \in DOMAIN artifacts : ~NamesNoSite(artifacts[j]) /\ NamesNoSite(artifacts'[j])}}
    /\ tasks' = (tasks \ {w}) \cup Unsent([w EXCEPT !.results = @ \ {a}])
    /\ UNCHANGED <<scannedDomains, deriverVars, finished, skipped, scans>>

-----------------------------------------------------------------------------
(* The hosts to derive: each domain with the ports of its address.         *)
Joined(doms, addresses) == {h \in doms \X Port : <<Resolve[h[1]], h[2]>> \in addresses}

(* Variant: hosts are derived when a host is new, not when a domain is.    *)
NewHosts_OnHost(e) ==
    IF At(e).type = "host" THEN Joined(domains', ips') \ derived ELSE {}


NewHosts(e) == Joined(domains', ips') \ derived

(* The deriver takes a domain or a host and publishes, past the storage,   *)
(* the hosts that follow.                                                  *)
Derive(e) ==
    /\ LET a == At(e)
       IN  /\ domains' = domains \cup ({a.value} \cap Domain)
           /\ ips' = ips \cup (IF a.type = "host" THEN {<<a.value, a.port>>} \cap (IP \X Port) ELSE {})
    /\ derived' = derived \cup NewHosts(e)
    /\ inflight' = [s \in Subscriber |->
           (inflight[s] \ (IF s = "deriver" THEN {e} ELSE {}))
           \cup (IF "host" \in Inputs[s] THEN {Event[h] : h \in NewHosts(e)} ELSE {})]
    /\ UNCHANGED <<chan, artifacts, tasks, scannedDomains, finished, historyVars>>

(* IsBusy says no, and publishers, deriver and instances have settled.     *)
Finish ==
    /\ tasks = {} /\ \A s \in Subscriber : inflight[s] = {}
    /\ finished' = TRUE
    /\ UNCHANGED <<busVars, artifacts, tasks, scannedDomains, deriverVars, historyVars>>

PipelineStep ==
    \/ \E t \in Template : \E e \in inflight[t] : Drop(t, e) \/ Start(t, e) \/ Skip(t, e)
    \/ \E w \in tasks : \E a \in w.results : Post(w, a)
    \/ \E e \in inflight["deriver"] : Derive(e)

PipelineNext == ~finished /\ (PipelineStep \/ Finish)

PipelineSpec == PipelineInit /\ [][PipelineNext]_pipelineVars /\ WF_pipelineVars(PipelineNext)

-----------------------------------------------------------------------------
(* Types: pointers point to what is stored or derived, and no container    *)
(* gets an artifact on which its work function panics.                     *)
PipelineTypeOK ==
    /\ \A k \in DOMAIN artifacts : WellTyped(artifacts[k])
    /\ \A s \in Subscriber : inflight[s] \subseteq DOMAIN artifacts \cup {Event[h] : h \in derived}
    /\ \A w \in tasks : w.artifact.type \in Accepts(w.template)

(* The technologies v that a merge of an http and an https report has taken*)
(* the site n from.                                                        *)
Torn(v, n) == {k \in DOMAIN artifacts : /\ <<k, n>> \in torn /\ artifacts[k].type = "technology"
                                        /\ artifacts[k].value = v}

OneScheme(n) ==
    \A p, q \in Port : \A u \in Pages[<<n, p>>], v \in Pages[<<n, q>>] : u.scheme = v.scheme

(* The results of wpscan are technologies, WordPress among them, and come  *)
(* back to it: the storage is what stops it from scanning a site again.    *)
(* Where all pages have one scheme it does; else once more for each time   *)
(* that a merge has lost the site.                                         *)
WordPressScannedOnce ==
    \A n \in Name : /\ scans[n] <= 1 + Cardinality(Torn(WordPress, n))
                    /\ OneScheme(n) => scans[n] <= 1

Stored(type, value, n) ==
    \E k \in DOMAIN artifacts :
        artifacts[k].type = type /\ artifacts[k].value = value /\ HostOf(artifacts[k].url) = n
Known(n) == \E k \in DOMAIN artifacts : artifacts[k].type \in {"ip", "domain"} /\ artifacts[k].value = n

(* A technology of a site is stored, or was, until a merge lost the site.  *)
Found(v, n) == Stored("technology", v, n) \/ Torn(v, n) # {}

(* A web server, in scope by an address that has been heard of.            *)
Reachable(h) ==
    LET ip == IF h[1] \in IP THEN h[1] ELSE Resolve[h[1]]
    IN  /\ Known(h[1]) /\ Known(ip) /\ Crawls(CrawlHost(h))
        /\ ip \in ScopeIPs /\ h[2] \in OpenPorts[ip]

Crawled(h) ==
    /\ \A u \in Pages[h] :
          /\ Stored("httpmsg", u, h[1])
          /\ <<"wapalyzer", u>> \in skipped \/ \A f \in Fingerprints[u] : Found(f[1], h[1])
    /\ \A u \in Aborted[h] : Stored("url", u, h[1])

ShowsWordPress(h) ==
    \E u \in Pages[h] : <<"wapalyzer", u>> \notin skipped /\ \E f \in Fingerprints[u] : f[1] = WordPress

Reported(n) ==
    LET r == Report[n]
    IN  /\ \A title \in r.vulnerabilities : Stored("finding", title, n)
        /\ \A f \in r.findings : Stored("finding", f[1], f[2].host)
        /\ \A th \in r.themes : Found(th[1], th[3].host)
        /\ \A v \in r.plugins : Found(v, n)

(* "Finished!" means that what can be found from the targets is stored:    *)
(* every virtual host of an address with an open port is crawled, every    *)
(* technology of a page known, every WordPress site reported on unless its *)
(* site was lost in a merge, every domain of the scope enumerated or part  *)
(* of one that was, as far as its name tells.                              *)
FinishedMeansExplored ==
    finished =>
        /\ \A h \in HostPort : Reachable(h) /\ <<"katana", h>> \notin skipped =>
              LET g == CrawlHost(h)
                  n == g[1]
              IN  /\ Crawled(g)
                  /\ (/\ ShowsWordPress(g) /\ InScope(Message("domain", n, None, Front(n), None))
                      /\ Torn(WordPress, n) = {} /\ <<"wpscan", n>> \notin skipped) => Reported(n)
        /\ \A d \in Domain : Known(d) /\ InScope(Message("domain", d, None, None, None)) =>
              /\ SkipsDomain(d, scannedDomains)
              /\ \A f \in Matches[d] : Stored("finding", f, d)
        /\ \A d \in scannedDomains, e \in Domain : e \in Subdomains[d] => Known(e)

=============================================================================
