------------------------------ MODULE DNSCache ------------------------------
(***************************************************************************)
(* The DNS cache (internal/scheduler/dns_cache.go), shared under its mutex *)
(* by the scheduler's goroutine and the deriver.  Every answer is also     *)
(* saved to dns_cache.gob, which the next run of the program loads: the    *)
(* initial cache is whatever an earlier run may have saved (CacheFile).    *)
(* An entry that another goroutine's object lacks is looked up again, as an*)
(* expired one is.                                                         *)
(***************************************************************************)
EXTENDS Artifact

CONSTANT Answers   \* Answers[d]: the addresses the resolver may put first

ASSUME AnswersAssumption == \A d \in Domain : Answers[d] \subseteq IP

VARIABLES
    cache,    \* cache[d]: the cached address of d, or None
    expired   \* the domains whose entry is older than its week

dnsVars == <<cache, expired>>

DNSInit ==
    /\ cache \in [Domain -> IP \cup {None}]
    /\ \A d \in Domain : cache[d] \in Answers[d] \cup {None}
    /\ expired \in SUBSET {d \in Domain : cache[d] # None}

Cached(d) == cache[d] # None /\ d \notin expired

(* Variant: the answer is returned and not kept.                           *)
Lookup_NotKept(d, ip) ==
    /\ IF Cached(d) THEN ip = cache[d] ELSE ip \in Answers[d] \cup {None}
    /\ UNCHANGED dnsVars

(* Lookup of d returns ip; None is an error.  An expired entry is deleted  *)
(* even if the resolver then fails, and a failure is not cached.           *)
Lookup(d, ip) ==
    IF Cached(d)
    THEN ip = cache[d] /\ UNCHANGED dnsVars
    ELSE /\ ip \in Answers[d] \cup {None}
         /\ cache' = [cache EXCEPT ![d] = ip]
         /\ expired' = expired \ {d}

Expire(d) ==
    /\ Cached(d)
    /\ expired' = expired \cup {d}
    /\ UNCHANGED cache

(* GetDNSCache checks for nil without a lock: two goroutines may each make *)
(* an object, and one of them then finds that of the other in dnsCache.    *)
(* What it holds depends on when it was loaded, down to nothing; an entry  *)
(* in it that has expired is as good as none.                              *)
OtherObject ==
    /\ cache' \in [Domain -> IP \cup {None}]
    /\ \A d \in Domain : cache'[d] \in Answers[d] \cup {None}
    /\ expired' = {}

CacheStep(d) == Expire(d) \/ (\E ip \in IP \cup {None} : Lookup(d, ip)) \/ UNCHANGED dnsVars
=============================================================================
