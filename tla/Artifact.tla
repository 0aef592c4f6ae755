------------------------------ MODULE Artifact ------------------------------
(***************************************************************************)
(* The artifacts that scanners, scheduler and storage exchange             *)
(* (data/artifact.go, data/location.go), reduced to the fields that decide *)
(* where an artifact is sent, which rate limit it needs and which stored   *)
(* artifact it duplicates.                                                 *)
(*                                                                         *)
(* A missing string is None.  A host value "name:port" is its name, with   *)
(* the port apart: no decision of the master depends on it.  A URL is      *)
(* scheme, host name and the rest of it; its host name may be an IP literal*)
(* and its port belongs to the rest.                                       *)
(***************************************************************************)

CONSTANTS
    Domain,    \* domain names
    IP,        \* IP addresses
    Product,   \* names of technologies and titles of findings
    Version,   \* versions of technologies
    Port,      \* port numbers
    Path,      \* what follows the host names of URLs
    None       \* the absent string

Name == Domain \cup IP

ASSUME NameAssumption == Domain \cap IP = {} /\ None \notin Name

ArtifactType == {"domain", "ip", "host", "url", "cms", "httpmsg",
                 "screenshot", "finding", "technology"}

(* host = None is what is left of two URLs that differ in their scheme.    *)
URL == [scheme : {"http", "https"}, host : Name \cup {None},
        path : Path \cup {None}]

Artifact == [type : ArtifactType,
             value : Name \cup Product \cup URL \cup {None},
             port : Port \cup {None},          \* of a host
             ip : IP \cup {None},              \* Location.IP
             url : URL \cup {None},            \* Location.URL
             version : Version \cup {None}]

ASSUME URLAssumption == None \notin URL

HostOf(u) == IF u = None THEN None ELSE u.host

(* The domain of an artifact.  TryGetDomainFromURL returns the host name   *)
(* of a URL as it is, IP literals included.                                *)
GetDomainFromArtifact(a) ==
    CASE a.type = "domain" -> a.value
      [] a.type = "host" /\ a.value \in Domain -> a.value
      [] OTHER -> HostOf(a.url)

(* The IP named by the value of an artifact of one of three types.          *)
ValueIP(a) ==
    LET name == IF a.type = "url" THEN a.value.host ELSE a.value
    IN  IF a.type \in {"ip", "host", "url"} /\ name \in IP THEN name ELSE None

GetIPFromArtifact(a) ==
    IF a.ip # None THEN a.ip
    ELSE IF HostOf(a.url) \in IP THEN HostOf(a.url)
    ELSE ValueIP(a)

(* The value has the shape its type promises, and a technology is located  *)
(* by its URL alone (wapalyzer, wpscan).  No scanner sends a cms.          *)
WellTyped(a) ==
    /\ a \in Artifact
    /\ a.type = "domain" => a.value \in Domain
    /\ a.type = "ip" => a.value \in IP
    /\ a.type = "host" => a.value \in Name
    /\ a.type = "url" => a.value \in URL
    /\ a.type = "technology" => a.ip = None
    /\ a.type # "cms"

(* What the scanners in the repository and the scope send.                 *)
WellFormed(a) ==
    /\ WellTyped(a)
    /\ a.url # None => a.url.host \in Name
=============================================================================
