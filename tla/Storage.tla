------------------------------- MODULE Storage -------------------------------
(***************************************************************************)
(* The deduplicating storage (internal/storage/storage.go).  artifacts is  *)
(* d.Artifacts; a pointer to a stored artifact is its index, and every     *)
(* queue, scanner instance and event holds such a pointer: a merge changes *)
(* what all of them see.                                                   *)
(***************************************************************************)
EXTENDS Artifact, EventBus

CONSTANT MaxArtifacts  \* bound on the number of stored artifacts

ASSUME StorageAssumption == MaxArtifacts \in Nat

VARIABLE artifacts

(* The pointers an execution can meet, and the absent one.                 *)
Pointer == 1..MaxArtifacts
Nil == 0

(* Variant: URLs with different paths share nothing that names a host.     *)
unifyURL_DropsHost(u1, u2) ==
    IF u1 = u2 THEN u1 ELSE [scheme |-> "http", host |-> None, path |-> None]

(* Of two URLs with the same host name and scheme the common prefix still  *)
(* names the host; "http://..." and "https://..." share no more than       *)
(* "http", whose host name is empty.                                       *)
unifyURL(u1, u2) ==
    CASE u1 = None -> u2
      [] u1 # None /\ (u2 = None \/ u1 = u2) -> u1
      [] u1 # None /\ u2 # None /\ u1 # u2 ->
            IF u1.scheme = u2.scheme /\ u1.host = u2.host
            THEN [u1 EXCEPT !.path = None]
            ELSE [scheme |-> "http", host |-> None, path |-> None]

(* b, stored, makes a a duplicate.  Domains, IPs and hosts have case       *)
(* clauses of their own with an empty body: they are never duplicates.     *)
Duplicates(b, a) ==
    /\ b.type = a.type
    /\ \/ a.type = "url" /\ b.value = a.value
       \/ a.type = "httpmsg" /\ b.url = a.url
       \/ /\ a.type = "technology"
          /\ GetDomainFromArtifact(a) # None
          /\ GetDomainFromArtifact(b) = GetDomainFromArtifact(a)
          /\ b.value = a.value

(* What a dropped duplicate a leaves in the stored artifact b.             *)
Merge(b, a) ==
    IF a.type # "technology" THEN b
    ELSE [b EXCEPT
            !.url = IF b.version = a.version THEN unifyURL(b.url, a.url) ELSE b.url,
            !.version = IF b.version = None THEN a.version ELSE b.version]

StorageInit == artifacts = <<>>

(* Variant: the merge is written to the first stored artifact.             *)
DropDuplicate_First(a) ==
    \E k \in DOMAIN artifacts :
        /\ Duplicates(artifacts[k], a)
        /\ artifacts' = [artifacts EXCEPT ![1] = Merge(artifacts[k], a)]
        /\ UNCHANGED busVars

(* Variant: a merged duplicate is published again.                         *)
DropDuplicate_Publishes(a) ==
    \E k \in DOMAIN artifacts :
        /\ Duplicates(artifacts[k], a)
        /\ artifacts' = [artifacts EXCEPT ![k] = Merge(artifacts[k], a)]
        /\ Publish(a.type, k)

DropDuplicate(a) ==
    \E k \in DOMAIN artifacts :
        /\ Duplicates(artifacts[k], a)
        /\ \A j \in 1..(k - 1) : ~Duplicates(artifacts[j], a)
        /\ artifacts' = [artifacts EXCEPT ![k] = Merge(artifacts[k], a)]
        /\ UNCHANGED busVars

(* Variant: an artifact is stored whether or not it was merged.            *)
StoreNew_Always(a) ==
    /\ Len(artifacts) < MaxArtifacts
    /\ artifacts' = Append(artifacts, a)
    /\ Publish(a.type, Len(artifacts) + 1)

(* Variant: the pointer that is published is one too high.                 *)
StoreNew_OffByOne(a) ==
    /\ Len(artifacts) < MaxArtifacts
    /\ \A k \in DOMAIN artifacts : ~Duplicates(artifacts[k], a)
    /\ artifacts' = Append(artifacts, a)
    /\ Publish(a.type, Len(artifacts) + 2)

StoreNew(a) ==
    /\ Len(artifacts) < MaxArtifacts
    /\ \A k \in DOMAIN artifacts : ~Duplicates(artifacts[k], a)
    /\ artifacts' = Append(artifacts, a)
    /\ Publish(a.type, Len(artifacts) + 1)

AddArtifact(a) == DropDuplicate(a) \/ StoreNew(a)
=============================================================================
