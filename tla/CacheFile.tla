------------------------------ MODULE CacheFile ------------------------------
(***************************************************************************)
(* The DNS cache in detail (internal/scheduler/dns_cache.go): a singleton  *)
(* that two goroutines create without synchronisation, whose every new     *)
(* answer is written to dns_cache.gob, in a process that may end at any    *)
(* step and be started again.  A cache object has a mutex of its own, so   *)
(* that two objects may write the file at the same time.  What the rest of *)
(* the program relies on is the module DNSCache.                           *)
(***************************************************************************)
EXTENDS Artifact, Naturals

CONSTANTS
    Answers,  \* Answers[d]: the addresses the resolver may put first
    Caller    \* the goroutines that look domains up, two at most

ASSUME CacheFileAssumption ==
    /\ \A d \in Domain : Answers[d] \subseteq IP
    /\ Domain # {} /\ None \notin Caller
    /\ \A g, h, k \in Caller : g = h \/ g = k \/ h = k

VARIABLES
    dnsCache,  \* the global variable: an object, or 0 for nil
    made,      \* the number of objects this run has made
    mine,      \* mine[g]: the object g has made and not assigned yet, or 0
    loading,   \* the objects made that have not loaded the file yet
    using,     \* using[g]: what GetDNSCache has returned to g, or 0
    object,    \* object[n]: the entries of object n, and which have expired
    saving,    \* the objects whose Lookup has emptied the file to save them
    file,      \* dns_cache.gob: entries, or Unreadable
    answered,  \* history: domains answered in this run, and not expired since
    torn       \* history: the last run has ended within a save

singletonVars == <<dnsCache, made, mine, loading>>
cacheFileVars == <<singletonVars, using, object, saving, file, answered, torn>>

Entries == {e \in [ip : [Domain -> IP \cup {None}], expired : SUBSET Domain] :
               \A d \in e.expired : e.ip[d] # None}
NoEntries == [ip |-> [d \in Domain |-> None], expired |-> {}]
Unreadable == [ip |-> [d \in Domain |-> None], expired |-> Domain]
Object == 1..2

Live(e, d) == e.ip[d] # None /\ d \notin e.expired

CacheFileInit ==
    /\ dnsCache = 0 /\ made = 0 /\ loading = {}
    /\ mine = [g \in Caller |-> 0] /\ using = [g \in Caller |-> 0]
    /\ object = [n \in Object |-> NoEntries] /\ saving = {}
    /\ file \in {e \in Entries : \A d \in Domain : e.ip[d] \in Answers[d] \cup {None}}
                \cup {Unreadable}
    /\ answered = {} /\ torn = (file = Unreadable)

-----------------------------------------------------------------------------
(* GetDNSCache.                                                            *)

(* The error of a file that cannot be decoded is ignored.                  *)
loadCacheFromDisk == IF file = Unreadable THEN NoEntries ELSE file

(* The variable is nil: g makes an empty object, ...                       *)
newDNSCache(g) ==
    /\ dnsCache = 0 /\ mine[g] = 0
    /\ made' = made + 1
    /\ mine' = [mine EXCEPT ![g] = made + 1]
    /\ loading' = loading \cup {made + 1}
    /\ UNCHANGED <<dnsCache, using, object, saving, file, answered, torn>>

(* ... and loads the file into it, as the other goroutine has left it.     *)
LoadCache(g) ==
    /\ mine[g] \in loading
    /\ loading' = loading \ {mine[g]}
    /\ object' = [object EXCEPT ![mine[g]] = loadCacheFromDisk]
    /\ UNCHANGED <<dnsCache, made, mine, using, saving, file, answered, torn>>

(* The object replaces the other goroutine's, if there is one.             *)
AssignCache(g) ==
    /\ mine[g] # 0 /\ mine[g] \notin loading
    /\ dnsCache' = mine[g]
    /\ mine' = [mine EXCEPT ![g] = 0]
    /\ UNCHANGED <<made, loading, using, object, saving, file, answered, torn>>

ReturnCache(g) ==
    /\ dnsCache # 0 /\ mine[g] = 0 /\ using[g] = 0
    /\ using' = [using EXCEPT ![g] = dnsCache]
    /\ UNCHANGED <<singletonVars, object, saving, file, answered, torn>>

-----------------------------------------------------------------------------
(* Lookup by g, on the object it has got, under the object's mutex.        *)
Locked(g) == using[g] # 0 /\ using[g] \notin saving

Put(e, d, ip) == [ip |-> [e.ip EXCEPT ![d] = ip], expired |-> e.expired \ {d}]

CacheHit(g, d) ==
    /\ Locked(g) /\ Live(object[using[g]], d)
    /\ answered' = answered \cup {d}
    /\ using' = [using EXCEPT ![g] = 0]
    /\ UNCHANGED <<singletonVars, object, saving, file, torn>>

(* Variant: the file is opened for writing before the resolver is asked.   *)
ResolverFails_FileOpen(g, d) ==
    /\ Locked(g) /\ ~Live(object[using[g]], d)
    /\ object' = [object EXCEPT ![using[g]] = Put(@, d, None)]
    /\ using' = [using EXCEPT ![g] = 0]
    /\ file' = Unreadable
    /\ UNCHANGED <<singletonVars, saving, answered, torn>>

(* Variant: the date of a deleted entry stays.                             *)
ResolverFails_DateStays(g, d) ==
    /\ Locked(g) /\ ~Live(object[using[g]], d)
    /\ object' = [object EXCEPT ![using[g]].ip[d] = None]
    /\ using' = [using EXCEPT ![g] = 0]
    /\ UNCHANGED <<singletonVars, saving, file, answered, torn>>

(* An expired entry is gone, and nothing is saved.                         *)
ResolverFails(g, d) ==
    /\ Locked(g) /\ ~Live(object[using[g]], d)
    /\ object' = [object EXCEPT ![using[g]] = Put(@, d, None)]
    /\ using' = [using EXCEPT ![g] = 0]
    /\ UNCHANGED <<singletonVars, saving, file, answered, torn>>

(* Variant: the date is not renewed.                                       *)
Resolve_OldDate(g, d) ==
    LET n == using[g]
    IN  /\ Locked(g) /\ ~Live(object[n], d)
        /\ \E ip \in Answers[d] : object' = [object EXCEPT ![n].ip[d] = ip]
        /\ answered' = answered \cup {d}
        /\ saving' = saving \cup {n}
        /\ file' = Unreadable
        /\ UNCHANGED <<singletonVars, using, torn>>

(* The answer is entered, and os.Create empties the file.                  *)
Resolve(g, d) ==
    LET n == using[g]
    IN  /\ Locked(g) /\ ~Live(object[n], d)
        /\ \E ip \in Answers[d] : object' = [object EXCEPT ![n] = Put(@, d, ip)]
        /\ answered' = answered \cup {d}
        /\ saving' = saving \cup {n}
        /\ file' = Unreadable
        /\ UNCHANGED <<singletonVars, using, torn>>

(* Variant: what was loaded is written back, without the new answer.       *)
saveCacheToDisk_OnlyOld(g) ==
    LET n == using[g]
    IN  /\ n \in saving
        /\ saving' = saving \ {n}
        /\ \E d \in answered : file' = Put(object[n], d, None)
        /\ using' = [using EXCEPT ![g] = 0]
        /\ UNCHANGED <<singletonVars, object, answered, torn>>

(* The encoder has written the object; the mutex is released and g has its *)
(* answer.  If the other object is being saved as well, its os.Create may  *)
(* have cut off the front of what was written, until it is written again.  *)
saveCacheToDisk(g) ==
    LET n == using[g]
    IN  /\ n \in saving
        /\ saving' = saving \ {n}
        /\ file' \in {object[n]} \cup (IF saving' = {} THEN {} ELSE {Unreadable})
        /\ using' = [using EXCEPT ![g] = 0]
        /\ UNCHANGED <<singletonVars, object, answered, torn>>

-----------------------------------------------------------------------------
(* The week of d's entries ends.  Copies of an answer have the same date;  *)
(* the answers of two objects, given in one run, lapse together as well.   *)
Lapse(e, d) == IF e.ip[d] = None THEN e ELSE [e EXCEPT !.expired = @ \cup {d}]

WeekEnds(d) ==
    /\ object' = [n \in Object |-> Lapse(object[n], d)]
    /\ file' = Lapse(file, d)
    /\ answered' = answered \ {d}
    /\ UNCHANGED <<singletonVars, using, saving, torn>>

(* The process ends, at any step, and is started again.                    *)
Restart ==
    /\ made > 0
    /\ dnsCache' = 0 /\ made' = 0 /\ loading' = {}
    /\ mine' = [g \in Caller |-> 0] /\ using' = [g \in Caller |-> 0]
    /\ object' = [n \in Object |-> NoEntries] /\ saving' = {}
    /\ answered' = {} /\ torn' = (file = Unreadable)
    /\ UNCHANGED file

CacheFileNext ==
    \/ \E g \in Caller : \/ newDNSCache(g) \/ LoadCache(g) \/ AssignCache(g)
                         \/ ReturnCache(g) \/ saveCacheToDisk(g)
    \/ \E g \in Caller, d \in Domain : CacheHit(g, d) \/ ResolverFails(g, d) \/ Resolve(g, d)
    \/ \E d \in Domain : WeekEnds(d)
    \/ Restart

CacheFileSpec == CacheFileInit /\ [][CacheFileNext]_cacheFileVars

-----------------------------------------------------------------------------
(* The cache as the next lookup finds it.                                  *)
Current == IF dnsCache = 0 THEN loadCacheFromDisk ELSE object[dnsCache]

A == INSTANCE DNSCache WITH cache <- Current.ip, expired <- Current.expired

(* Types: objects are counted, each goroutine is at one place.             *)
CacheFileTypeOK ==
    /\ dnsCache \in 0..made /\ made \in 0..2
    /\ mine \in [Caller -> 0..2] /\ using \in [Caller -> 0..2]
    /\ object \in [Object -> Entries] /\ saving \subseteq Object /\ loading \subseteq Object
    /\ file \in Entries \cup {Unreadable}
    /\ answered \subseteq Domain /\ torn \in BOOLEAN

(* What one goroutine has looked up, the other finds in the cache until it *)
(* expires; an answer is lost within a run only if both goroutines have    *)
(* made a cache.  addHost ends the process where this fails.               *)
AnswersKept == made < 2 => \A d \in answered : Live(Current, d)

(* Between two saves the file says what a cache object of the run says: no *)
(* answer is missing in it, and none has come back.                        *)
FileIsCurrent ==
    dnsCache # 0 /\ saving = {} =>
        \E n \in (1..made) \ loading : \A d \in Domain :
            IF Live(object[n], d) THEN file.ip[d] = object[n].ip[d] /\ Live(file, d)
                                  ELSE ~Live(file, d)

(* The file is unreadable only during a save, or because the process ended *)
(* during one; two saves at a time leave it readable.                      *)
UnreadableNeedsCrash == file = Unreadable => torn \/ saving # {}

(* The inductive strengthening of the four.  Until the variable is assigned*)
(* nobody has a cache, each object made is in the hands of one goroutine,  *)
(* and those that are loaded hold what the file holds; the object a gorou- *)
(* tine is about to assign is not the assigned one, and one that is loading*)
(* is not used; and all answers, in objects and file, are the resolver's.  *)
Unassigned ==
    dnsCache = 0 =>
        /\ saving = {} /\ answered = {} /\ \A g \in Caller : using[g] = 0
        /\ \A n \in 1..made : /\ n \in loading \/ object[n] = loadCacheFromDisk
                              /\ \E g \in Caller : mine[g] = n
InOneHand ==
    /\ dnsCache <= made /\ \A n \in saving : n <= made
    /\ \A g \in Caller : using[g] <= made /\ mine[g] <= made /\ using[g] \notin loading
    /\ dnsCache \notin loading /\ \A n \in loading : n <= made
    /\ \A g \in Caller : mine[g] # 0 => mine[g] # dnsCache /\ \A h \in Caller \ {g} : mine[h] # mine[g]
Resolved(e) == \A d \in Domain : e.ip[d] \in Answers[d] \cup {None}
CacheFileInv ==
    /\ CacheFileTypeOK /\ Unassigned /\ InOneHand
    /\ Resolved(file) /\ \A n \in Object : Resolved(object[n])
    /\ AnswersKept /\ FileIsCurrent /\ UnreadableNeedsCrash

(* One object with its file is the cache that Scope and Deriver are        *)
(* checked with, over restarts too: what a new run loads is an initial     *)
(* cache of theirs.                                                        *)
ImplementsCache ==
    [][IF made > 0 /\ made' = 0 THEN A!DNSInit'
                                ELSE made' < 2 => \E d \in Domain : A!CacheStep(d)]_cacheFileVars
=============================================================================
