--------------------------- MODULE CacheFileProofs ---------------------------
(***************************************************************************)
(* Proofs about CacheFile, for every set of domains, whatever the resolver *)
(* answers, and any number of runs: the properties of the cache file, and  *)
(* the step simulation of DNSCache.                                        *)
(***************************************************************************)
EXTENDS CacheFile, TLAPS

(* None is no address, so that a cached answer differs from a missing one. *)
LEMMA NoneIsNoAddress == None \notin IP
  BY NameAssumption DEF Name

(* The two special contents: a file that cannot be read is unlike every    *)
(* set of entries, since there is a domain; an empty cache is a set of     *)
(* entries that the resolver may have given.                               *)
LEMMA SpecialEntries ==
    /\ Unreadable \notin Entries
    /\ NoEntries \in Entries
    /\ Resolved(NoEntries) /\ Resolved(Unreadable)
    /\ \A d \in Domain : ~Live(NoEntries, d) /\ ~Live(Unreadable, d)
<1>1. Unreadable \notin Entries
  <2>1. PICK d \in Domain : TRUE
    BY CacheFileAssumption
  <2>2. d \in Unreadable.expired /\ Unreadable.ip[d] = None
    BY DEF Unreadable
  <2> QED
    BY <2>1, <2>2 DEF Entries
<1>2. NoEntries \in Entries
  BY DEF NoEntries, Entries
<1>3. Resolved(NoEntries) /\ Resolved(Unreadable)
  BY DEF NoEntries, Unreadable, Resolved
<1>4. \A d \in Domain : ~Live(NoEntries, d) /\ ~Live(Unreadable, d)
  BY DEF NoEntries, Unreadable, Live
<1> QED
  BY <1>1, <1>2, <1>3, <1>4

(* Put: one entry becomes the answer, or nothing, and is not expired.      *)
LEMMA PutEntry ==
    ASSUME NEW e \in Entries, NEW d \in Domain, NEW ip \in Answers[d] \cup {None}, Resolved(e)
    PROVE  /\ Put(e, d, ip) \in Entries /\ Resolved(Put(e, d, ip))
           /\ Live(Put(e, d, ip), d) <=> ip # None
           /\ \A c \in Domain \ {d} : /\ Live(Put(e, d, ip), c) <=> Live(e, c)
                                      /\ Put(e, d, ip).ip[c] = e.ip[c]
<1> DEFINE p == Put(e, d, ip)
<1>1. /\ p.ip = [e.ip EXCEPT ![d] = ip] /\ p.expired = e.expired \ {d}
      /\ p = [ip |-> p.ip, expired |-> p.expired]
  BY DEF Put
<1>2. /\ e.ip \in [Domain -> IP \cup {None}] /\ e.expired \subseteq Domain
      /\ \A c \in e.expired : e.ip[c] # None
  BY DEF Entries
<1>3. ip \in IP \cup {None}
  BY CacheFileAssumption
<1>4. /\ p.ip \in [Domain -> IP \cup {None}] /\ p.expired \in SUBSET Domain
      /\ \A c \in p.expired : p.ip[c] # None
  BY <1>1, <1>2, <1>3
<1>5. p \in Entries
  BY <1>1, <1>4 DEF Entries
<1> HIDE DEF p
<1>6. Resolved(p)
  BY <1>1, <1>2 DEF Resolved
<1>7. Live(p, d) <=> ip # None
  BY <1>1, <1>2 DEF Live
<1>8. \A c \in Domain \ {d} : (Live(p, c) <=> Live(e, c)) /\ p.ip[c] = e.ip[c]
  BY <1>1, <1>2 DEF Live
<1> QED
  BY <1>5, <1>6, <1>7, <1>8 DEF p

(* Lapse: an entry that exists is expired afterwards; answers stay.        *)
LEMMA LapseEntry ==
    ASSUME NEW e \in Entries \cup {Unreadable}, NEW d \in Domain
    PROVE  /\ e \in Entries => Lapse(e, d) \in Entries
           /\ e = Unreadable => Lapse(e, d) = e
           /\ Lapse(e, d).ip = e.ip
           /\ \A c \in Domain : Live(Lapse(e, d), c) <=> Live(e, c) /\ c # d
           /\ Lapse(NoEntries, d) = NoEntries
<1>1. CASE e.ip[d] = None
  BY <1>1 DEF Lapse, Live, NoEntries
<1>2. CASE e.ip[d] # None
  <2>1. e \in Entries
    BY <1>2 DEF Unreadable
  <2>2. /\ e = [ip |-> e.ip, expired |-> e.expired] /\ e.expired \subseteq Domain
        /\ e.ip \in [Domain -> IP \cup {None}] /\ \A c \in e.expired : e.ip[c] # None
    BY <2>1 DEF Entries
  <2>3. Lapse(e, d) = [ip |-> e.ip, expired |-> e.expired \cup {d}]
    BY <1>2, <2>2 DEF Lapse
  <2>4. Lapse(e, d) \in Entries
    BY <1>2, <2>2, <2>3 DEF Entries
  <2>5. \A c \in Domain : Live(Lapse(e, d), c) <=> Live(e, c) /\ c # d
    BY <2>3 DEF Live
  <2> QED
    BY <1>2, <2>3, <2>4, <2>5 DEF Lapse, NoEntries, Unreadable
<1> QED
  BY <1>1, <1>2

(* What a goroutine that has no cache of its own to look at would load.    *)
LEMMA LoadedEntries ==
    ASSUME CacheFileTypeOK, Resolved(file)
    PROVE  loadCacheFromDisk \in Entries /\ Resolved(loadCacheFromDisk)
  BY SpecialEntries DEF CacheFileTypeOK, loadCacheFromDisk

LEMMA CacheFileInitInv == CacheFileInit => CacheFileInv
<1> SUFFICES ASSUME CacheFileInit PROVE CacheFileInv
  OBVIOUS
<1>1. CacheFileTypeOK
  BY SpecialEntries DEF CacheFileInit, CacheFileTypeOK, Object
<1>2. Unassigned /\ InOneHand
  BY DEF CacheFileInit, Unassigned, InOneHand
<1>3. Resolved(file) /\ \A n \in Object : Resolved(object[n])
  BY SpecialEntries DEF CacheFileInit, Resolved
<1>4. AnswersKept /\ FileIsCurrent /\ UnreadableNeedsCrash
  BY DEF CacheFileInit, AnswersKept, FileIsCurrent, UnreadableNeedsCrash
<1> QED
  BY <1>1, <1>2, <1>3, <1>4 DEF CacheFileInv

-----------------------------------------------------------------------------
(* A goroutine that finds no cache makes the first object or the second.   *)
LEMMA newDNSCacheInv ==
    ASSUME CacheFileInv, NEW g \in Caller, newDNSCache(g)
    PROVE  CacheFileInv'
<1> USE DEF CacheFileInv
<1>1. /\ dnsCache = 0 /\ mine[g] = 0 /\ made' = made + 1
      /\ mine' = [mine EXCEPT ![g] = made + 1]
      /\ loading' = loading \cup {made + 1}
      /\ UNCHANGED <<dnsCache, using, object, saving, file, answered, torn>>
  BY DEF newDNSCache
<1>2. made \in 0..1
  <2>1. made \in 0..2
    BY DEF CacheFileTypeOK
  <2>2. ASSUME made = 2 PROVE FALSE
    <3>1. PICK h \in Caller : mine[h] = 1
      BY <1>1, <2>2 DEF Unassigned
    <3>2. PICK k \in Caller : mine[k] = 2
      BY <1>1, <2>2 DEF Unassigned
    <3> QED
      BY <1>1, <3>1, <3>2, CacheFileAssumption
  <2> QED
    BY <2>1, <2>2
<1>4. CacheFileTypeOK'
  BY <1>1, <1>2 DEF CacheFileTypeOK, Object
<1>5. loadCacheFromDisk' = loadCacheFromDisk
  BY <1>1 DEF loadCacheFromDisk
<1>6. Unassigned'
  <2>1. saving = {} /\ answered = {} /\ \A h \in Caller : using[h] = 0
    BY <1>1 DEF Unassigned
  <2>2. ASSUME NEW n \in 1..made'
        PROVE  /\ n \in loading' \/ object'[n] = loadCacheFromDisk
               /\ \E h \in Caller : mine'[h] = n
    <3>1. CASE n = made + 1
      BY <1>1, <1>2, <3>1 DEF CacheFileTypeOK, Object
    <3>2. CASE n # made + 1
      <4>1. n \in 1..made
        BY <1>1, <1>2, <3>2
      <4>2. PICK h \in Caller : mine[h] = n
        BY <1>1, <4>1 DEF Unassigned
      <4>3. mine'[h] = n
        BY <1>1, <4>1, <4>2 DEF CacheFileTypeOK
      <4> QED
        BY <1>1, <4>1, <4>3 DEF Unassigned
    <3> QED
      BY <3>1, <3>2
  <2> QED
    BY <1>1, <1>5, <2>1, <2>2 DEF Unassigned
<1>7. InOneHand'
  <2>1. /\ dnsCache <= made' /\ \A n \in saving : n <= made'
        /\ \A h \in Caller : using[h] <= made' /\ using[h] \notin loading'
        /\ dnsCache \notin loading' /\ \A n \in loading' : n <= made'
    BY <1>1, <1>2 DEF Unassigned, InOneHand, CacheFileTypeOK, Object
  <2>2. ASSUME NEW h \in Caller
        PROVE  /\ mine'[h] = IF h = g THEN made + 1 ELSE mine[h]
               /\ mine[h] \in 0..made
    BY <1>1, <1>2 DEF InOneHand, CacheFileTypeOK
  <2>3. ASSUME NEW h \in Caller, mine'[h] # 0
        PROVE  mine'[h] # dnsCache /\ \A k \in Caller \ {h} : mine'[k] # mine'[h]
    <3>1. \A k \in Caller \ {h} : mine'[k] # mine'[h]
      BY <1>2, <2>2, <2>3 DEF InOneHand
    <3> QED
      BY <1>1, <1>2, <2>2, <2>3, <3>1
  <2> QED
    BY <1>1, <1>2, <2>1, <2>2, <2>3 DEF InOneHand
<1>8. Resolved(file)' /\ \A n \in Object : Resolved(object[n])'
  BY <1>1 DEF Resolved
<1>9. AnswersKept' /\ FileIsCurrent' /\ UnreadableNeedsCrash'
  BY <1>1 DEF Unassigned, AnswersKept, FileIsCurrent, UnreadableNeedsCrash
<1> QED
  BY <1>4, <1>6, <1>7, <1>8, <1>9

(* An object that loads the file is not in use and does not stand for it.  *)
LEMMA LoadCacheInv ==
    ASSUME CacheFileInv, NEW g \in Caller, LoadCache(g)
    PROVE  CacheFileInv'
<1> USE DEF CacheFileInv
<1> DEFINE n == mine[g]
<1>1. /\ n \in loading /\ loading' = loading \ {n}
      /\ object' = [object EXCEPT ![n] = loadCacheFromDisk]
      /\ UNCHANGED <<dnsCache, made, mine, using, saving, file, answered, torn>>
  BY DEF LoadCache
<1>2. n \in 1..made /\ n \in Object /\ n # dnsCache
  BY <1>1 DEF InOneHand, CacheFileTypeOK, Object
<1> HIDE DEF n
<1>3. loadCacheFromDisk \in Entries /\ Resolved(loadCacheFromDisk)
  BY LoadedEntries
<1>4. object'[n] = loadCacheFromDisk /\ \A m \in Object \ {n} : object'[m] = object[m]
  BY <1>1, <1>2 DEF CacheFileTypeOK
<1>5. CacheFileTypeOK'
  BY <1>1, <1>2, <1>3 DEF CacheFileTypeOK
<1>6. Unassigned'
  <2>1. loadCacheFromDisk' = loadCacheFromDisk
    BY <1>1 DEF loadCacheFromDisk
  <2>2. \A m \in 1..made : m \in Object
    BY DEF CacheFileTypeOK, Object
  <2> QED
    BY <1>1, <1>4, <2>1, <2>2 DEF Unassigned
<1>7. InOneHand'
  BY <1>1 DEF InOneHand
<1>8. Resolved(file)' /\ \A m \in Object : Resolved(object[m])'
  BY <1>1, <1>3, <1>4 DEF Resolved
<1>9. FileIsCurrent'
  <2> SUFFICES ASSUME dnsCache # 0, saving = {}
               PROVE  \E m \in (1..made) \ loading' : \A d \in Domain :
                        IF Live(object'[m], d) THEN file.ip[d] = object'[m].ip[d] /\ Live(file, d)
                                               ELSE ~Live(file, d)
    BY <1>1 DEF FileIsCurrent, Live
  <2>1. PICK m \in (1..made) \ loading : \A d \in Domain :
          IF Live(object[m], d) THEN file.ip[d] = object[m].ip[d] /\ Live(file, d)
                                ELSE ~Live(file, d)
    BY DEF FileIsCurrent
  <2>2. m \in Object /\ m # n
    BY <1>1 DEF CacheFileTypeOK, Object
  <2> QED
    BY <1>1, <1>4, <2>1, <2>2
<1>10. AnswersKept'
  <2>1. CASE dnsCache = 0
    BY <1>1, <2>1 DEF Unassigned, AnswersKept
  <2>2. CASE dnsCache # 0
    BY <1>1, <1>2, <1>4, <2>2 DEF AnswersKept, Current, Live, CacheFileTypeOK, Object
  <2> QED
    BY <2>1, <2>2
<1>11. UnreadableNeedsCrash'
  BY <1>1 DEF UnreadableNeedsCrash
<1> QED
  BY <1>5, <1>6, <1>7, <1>8, <1>9, <1>10, <1>11

(* The second assignment replaces an object other than its own.            *)
LEMMA AssignCacheInv ==
    ASSUME CacheFileInv, NEW g \in Caller, AssignCache(g)
    PROVE  CacheFileInv'
<1> USE DEF CacheFileInv
<1>1. /\ mine[g] # 0 /\ mine[g] \notin loading /\ dnsCache' = mine[g] /\ mine' = [mine EXCEPT ![g] = 0]
      /\ UNCHANGED <<made, loading, using, object, saving, file, answered, torn>>
  BY DEF AssignCache
<1>2. mine[g] \in 1..made /\ made \in 1..2
  BY <1>1 DEF InOneHand, CacheFileTypeOK
<1>3. CacheFileTypeOK'
  BY <1>1, <1>2 DEF CacheFileTypeOK
<1>4. Unassigned'
  BY <1>1, <1>2 DEF Unassigned
<1>5. InOneHand'
  <2>1. ASSUME NEW h \in Caller
        PROVE  mine'[h] = (IF h = g THEN 0 ELSE mine[h]) /\ mine[h] \in 0..2
    BY <1>1 DEF CacheFileTypeOK
  <2>2. ASSUME NEW h \in Caller, mine'[h] # 0
        PROVE  mine'[h] # dnsCache' /\ \A k \in Caller \ {h} : mine'[k] # mine'[h]
    BY <1>1, <2>1, <2>2 DEF InOneHand
  <2> QED
    BY <1>1, <1>2, <2>1, <2>2 DEF InOneHand
<1>6. Resolved(file)' /\ \A n \in Object : Resolved(object[n])'
  BY <1>1 DEF Resolved
<1>7. FileIsCurrent'
  <2>1. CASE dnsCache = 0
    <3>1. object[mine[g]] = loadCacheFromDisk
      BY <1>1, <1>2, <2>1 DEF Unassigned
    <3>2. \A d \in Domain :
            IF Live(object[mine[g]], d)
            THEN file.ip[d] = object[mine[g]].ip[d] /\ Live(file, d)
            ELSE ~Live(file, d)
      <4>1. CASE file = Unreadable
        BY <3>1, <4>1, SpecialEntries DEF loadCacheFromDisk
      <4>2. CASE file # Unreadable
        BY <3>1, <4>2 DEF loadCacheFromDisk
      <4> QED
        BY <4>1, <4>2
    <3> QED
      BY <1>1, <1>2, <3>2 DEF FileIsCurrent, Live
  <2>2. CASE dnsCache # 0
    BY <1>1, <2>2 DEF FileIsCurrent, Live
  <2> QED
    BY <2>1, <2>2
<1>8. AnswersKept'
  <2>1. CASE dnsCache = 0
    BY <1>1, <2>1 DEF Unassigned, AnswersKept
  <2>2. CASE dnsCache # 0
    <3>1. made = 2
      BY <1>1, <1>2, <2>2 DEF InOneHand, CacheFileTypeOK
    <3> QED
      BY <1>1, <3>1 DEF AnswersKept
  <2> QED
    BY <2>1, <2>2
<1>9. UnreadableNeedsCrash'
  BY <1>1 DEF UnreadableNeedsCrash
<1> QED
  BY <1>3, <1>4, <1>5, <1>6, <1>7, <1>8, <1>9

LEMMA ReturnCacheInv ==
    ASSUME CacheFileInv, NEW g \in Caller, ReturnCache(g)
    PROVE  CacheFileInv'
<1> USE DEF CacheFileInv
<1>1. /\ dnsCache # 0 /\ using' = [using EXCEPT ![g] = dnsCache]
      /\ UNCHANGED <<dnsCache, made, mine, loading, object, saving, file, answered, torn>>
  BY DEF ReturnCache, singletonVars
<1>2. CacheFileTypeOK' /\ Unassigned' /\ InOneHand'
  BY <1>1 DEF CacheFileTypeOK, Unassigned, InOneHand
<1>3. /\ Resolved(file)' /\ \A n \in Object : Resolved(object[n])'
      /\ AnswersKept' /\ FileIsCurrent' /\ UnreadableNeedsCrash'
  BY <1>1 DEF Resolved, AnswersKept, FileIsCurrent, UnreadableNeedsCrash, Current, Live
<1> QED
  BY <1>2, <1>3

-----------------------------------------------------------------------------
(* Who has a cache has an object that was made, and the variable is set;   *)
(* with one object, it is the assigned one.                                *)
LEMMA UsedObject ==
    ASSUME CacheFileInv, NEW g \in Caller, using[g] # 0
    PROVE  /\ using[g] \in 1..made /\ using[g] \in Object /\ made \in 1..2
           /\ dnsCache # 0
           /\ made < 2 => using[g] = dnsCache
  BY DEF CacheFileInv, CacheFileTypeOK, InOneHand, Unassigned, Object

LEMMA CacheHitInv ==
    ASSUME CacheFileInv, NEW g \in Caller, NEW d \in Domain, CacheHit(g, d)
    PROVE  CacheFileInv'
<1> USE DEF CacheFileInv
<1>1. /\ using[g] # 0 /\ Live(object[using[g]], d)
      /\ answered' = answered \cup {d} /\ using' = [using EXCEPT ![g] = 0]
      /\ UNCHANGED <<dnsCache, made, mine, loading, object, saving, file, torn>>
  BY DEF CacheHit, Locked, singletonVars
<1>2. CacheFileTypeOK' /\ Unassigned' /\ InOneHand'
  BY <1>1, UsedObject DEF CacheFileTypeOK, Unassigned, InOneHand, Object
<1>3. /\ Resolved(file)' /\ \A n \in Object : Resolved(object[n])'
      /\ FileIsCurrent' /\ UnreadableNeedsCrash'
  BY <1>1 DEF Resolved, FileIsCurrent, UnreadableNeedsCrash, Live
<1>4. AnswersKept'
  BY <1>1, UsedObject DEF AnswersKept, Current, Live
<1> QED
  BY <1>2, <1>3, <1>4

(* A failed lookup removes what was not alive, in one object.              *)
LEMMA ResolverFailsInv ==
    ASSUME CacheFileInv, NEW g \in Caller, NEW d \in Domain, ResolverFails(g, d)
    PROVE  CacheFileInv'
<1> USE DEF CacheFileInv
<1> DEFINE n == using[g]
<1>1. /\ n # 0 /\ ~Live(object[n], d) /\ using' = [using EXCEPT ![g] = 0]
      /\ object' = [object EXCEPT ![n] = Put(object[n], d, None)]
      /\ UNCHANGED <<dnsCache, made, mine, loading, saving, file, answered, torn>>
  BY DEF ResolverFails, Locked, singletonVars
<1>2. /\ n \in 1..made /\ n \in Object /\ dnsCache # 0
      /\ made < 2 => n = dnsCache
      /\ object[n] \in Entries /\ Resolved(object[n])
  BY <1>1, UsedObject DEF CacheFileTypeOK
<1> HIDE DEF n
<1>3. /\ object'[n] \in Entries /\ Resolved(object'[n])
      /\ \A c \in Domain : /\ Live(object'[n], c) <=> Live(object[n], c)
                           /\ Live(object[n], c) => object'[n].ip[c] = object[n].ip[c]
      /\ \A m \in Object \ {n} : object'[m] = object[m]
  BY <1>1, <1>2, PutEntry DEF CacheFileTypeOK
<1>4. CacheFileTypeOK' /\ Unassigned' /\ InOneHand'
  BY <1>1, <1>2, <1>3 DEF CacheFileTypeOK, Unassigned, InOneHand, Object
<1>5. Resolved(file)' /\ \A m \in Object : Resolved(object[m])'
  BY <1>1, <1>2, <1>3 DEF Resolved
<1>6. FileIsCurrent'
  <2> SUFFICES ASSUME saving = {}
               PROVE  \E m \in (1..made) \ loading : \A c \in Domain :
                        IF Live(object'[m], c) THEN file.ip[c] = object'[m].ip[c] /\ Live(file, c)
                                               ELSE ~Live(file, c)
    BY <1>1 DEF FileIsCurrent, Live
  <2>1. PICK m \in (1..made) \ loading : \A c \in Domain :
          IF Live(object[m], c) THEN file.ip[c] = object[m].ip[c] /\ Live(file, c)
                                ELSE ~Live(file, c)
    BY <1>2 DEF FileIsCurrent
  <2>2. m \in Object
    BY DEF CacheFileTypeOK, Object
  <2> QED
    BY <1>3, <2>1, <2>2
<1>7. AnswersKept'
  <2> SUFFICES ASSUME made < 2, NEW c \in answered PROVE Live(Current, c)'
    BY <1>1 DEF AnswersKept
  <2>1. c \in Domain /\ Live(object[n], c)
    BY <1>2 DEF AnswersKept, Current, CacheFileTypeOK
  <2>2. Current' = object'[n]
    BY <1>1, <1>2 DEF Current
  <2> QED
    BY <1>3, <2>1, <2>2 DEF Live
<1>8. UnreadableNeedsCrash'
  BY <1>1 DEF UnreadableNeedsCrash
<1> QED
  BY <1>4, <1>5, <1>6, <1>7, <1>8

(* An answer is entered and the file emptied: a save begins.               *)
LEMMA ResolveInv ==
    ASSUME CacheFileInv, NEW g \in Caller, NEW d \in Domain, Resolve(g, d)
    PROVE  CacheFileInv'
<1> USE DEF CacheFileInv
<1> DEFINE n == using[g]
<1>1. PICK ip \in Answers[d] : object' = [object EXCEPT ![n] = Put(object[n], d, ip)]
  BY DEF Resolve
<1>2. /\ n # 0 /\ answered' = answered \cup {d} /\ saving' = saving \cup {n}
      /\ file' = Unreadable
      /\ UNCHANGED <<dnsCache, made, mine, loading, using, torn>>
  BY DEF Resolve, Locked, singletonVars
<1>3. /\ n \in 1..made /\ n \in Object /\ dnsCache # 0
      /\ made < 2 => n = dnsCache
      /\ object[n] \in Entries /\ Resolved(object[n])
  BY <1>2, UsedObject DEF CacheFileTypeOK
<1> HIDE DEF n
<1>4. /\ object'[n] \in Entries /\ Resolved(object'[n]) /\ Live(object'[n], d)
      /\ \A c \in Domain : Live(object[n], c) => Live(object'[n], c)
      /\ \A m \in Object \ {n} : object'[m] = object[m]
  <2>1. ip # None
    BY CacheFileAssumption, NoneIsNoAddress
  <2> QED
    BY <1>1, <1>3, <2>1, PutEntry DEF CacheFileTypeOK
<1>5. CacheFileTypeOK' /\ Unassigned' /\ InOneHand'
  BY <1>1, <1>2, <1>3, <1>4 DEF CacheFileTypeOK, Unassigned, InOneHand, Object
<1>6. Resolved(file)' /\ \A m \in Object : Resolved(object[m])'
  BY <1>1, <1>2, <1>3, <1>4, SpecialEntries DEF Resolved
<1>7. AnswersKept'
  <2> SUFFICES ASSUME made < 2, NEW c \in answered \cup {d} PROVE Live(Current, c)'
    BY <1>2 DEF AnswersKept
  <2>1. c \in Domain /\ c # d => Live(object[n], c)
    BY <1>3 DEF AnswersKept, Current, CacheFileTypeOK
  <2>2. Current' = object'[n]
    BY <1>2, <1>3 DEF Current
  <2> QED
    BY <1>4, <2>1, <2>2 DEF Live, CacheFileTypeOK
<1>8. FileIsCurrent' /\ UnreadableNeedsCrash'
  BY <1>2 DEF FileIsCurrent, UnreadableNeedsCrash
<1> QED
  BY <1>5, <1>6, <1>7, <1>8

(* A save ends: if it is the last one, the file says what its object says. *)
LEMMA saveCacheToDiskInv ==
    ASSUME CacheFileInv, NEW g \in Caller, saveCacheToDisk(g)
    PROVE  CacheFileInv'
<1> USE DEF CacheFileInv
<1> DEFINE n == using[g]
<1>1. /\ n \in saving /\ saving' = saving \ {n} /\ using' = [using EXCEPT ![g] = 0]
      /\ file' = object[n] \/ (file' = Unreadable /\ saving' # {})
      /\ UNCHANGED <<dnsCache, made, mine, loading, object, answered, torn>>
  BY DEF saveCacheToDisk, singletonVars
<1>2. /\ n \in Object /\ n \in 1..made
      /\ object[n] \in Entries /\ Resolved(object[n])
  BY <1>1 DEF CacheFileTypeOK, InOneHand, Object
<1>3. dnsCache # 0
  BY <1>1 DEF Unassigned
<1> HIDE DEF n
<1>4. CacheFileTypeOK' /\ Unassigned' /\ InOneHand'
  BY <1>1, <1>2, <1>3 DEF CacheFileTypeOK, Unassigned, InOneHand, Object
<1>5. Resolved(file)' /\ \A m \in Object : Resolved(object[m])'
  BY <1>1, <1>2, SpecialEntries DEF Resolved
<1>6. AnswersKept'
  BY <1>1, <1>3 DEF AnswersKept, Current, Live
<1>7. FileIsCurrent'
  <2>1. n \in (1..made) \ loading
    BY <1>2 DEF n, InOneHand
  <2> QED
    BY <1>1, <1>2, <2>1 DEF FileIsCurrent, Live
<1>8. UnreadableNeedsCrash'
  BY <1>1, <1>2, SpecialEntries DEF UnreadableNeedsCrash
<1> QED
  BY <1>4, <1>5, <1>6, <1>7, <1>8

-----------------------------------------------------------------------------
(* What a lapse leaves in an object or in the file.                        *)
LEMMA WeekEndsInv ==
    ASSUME CacheFileInv, NEW d \in Domain, WeekEnds(d)
    PROVE  CacheFileInv'
<1> USE DEF CacheFileInv
<1>1. /\ object' = [n \in Object |-> Lapse(object[n], d)] /\ file' = Lapse(file, d)
      /\ answered' = answered \ {d}
      /\ UNCHANGED <<dnsCache, made, mine, loading, using, saving, torn>>
  BY DEF WeekEnds, singletonVars
<1>2. /\ file' \in Entries \cup {Unreadable} /\ file'.ip = file.ip
      /\ file' = Unreadable <=> file = Unreadable
      /\ \A c \in Domain : Live(file', c) <=> Live(file, c) /\ c # d
  BY <1>1, LapseEntry, SpecialEntries DEF CacheFileTypeOK
<1>3. ASSUME NEW n \in Object
      PROVE  /\ object'[n] = Lapse(object[n], d)
             /\ object'[n] \in Entries /\ object'[n].ip = object[n].ip
             /\ \A c \in Domain : Live(object'[n], c) <=> Live(object[n], c) /\ c # d
  BY <1>1, LapseEntry DEF CacheFileTypeOK
<1>4. loadCacheFromDisk' = Lapse(loadCacheFromDisk, d)
  BY <1>1, <1>2, LapseEntry, SpecialEntries DEF loadCacheFromDisk
<1>5. 1..made \subseteq Object /\ dnsCache \in {0} \cup Object
  BY DEF CacheFileTypeOK, Object
<1>6. CacheFileTypeOK'
  BY <1>1, <1>2, <1>3 DEF CacheFileTypeOK
<1>7. Unassigned' /\ InOneHand'
  BY <1>1, <1>3, <1>4, <1>5 DEF Unassigned, InOneHand
<1>8. Resolved(file)' /\ \A n \in Object : Resolved(object[n])'
  BY <1>2, <1>3 DEF Resolved
<1>9. AnswersKept'
  <2> SUFFICES ASSUME made < 2, NEW c \in answered \ {d} PROVE Live(Current', c)
    BY <1>1 DEF AnswersKept, Live
  <2>1. c \in Domain /\ Live(Current, c) /\ dnsCache # 0
    BY DEF AnswersKept, CacheFileTypeOK, Unassigned
  <2> QED
    BY <1>1, <1>3, <1>5, <2>1 DEF Current
<1>10. FileIsCurrent'
  <2> SUFFICES ASSUME dnsCache # 0, saving = {}
               PROVE  \E n \in (1..made) \ loading : \A c \in Domain :
                        IF Live(object'[n], c) THEN file'.ip[c] = object'[n].ip[c] /\ Live(file', c)
                                               ELSE ~Live(file', c)
    BY <1>1 DEF FileIsCurrent, Live
  <2>1. PICK n \in (1..made) \ loading : \A c \in Domain :
          IF Live(object[n], c) THEN file.ip[c] = object[n].ip[c] /\ Live(file, c)
                                ELSE ~Live(file, c)
    BY DEF FileIsCurrent
  <2> QED
    BY <1>2, <1>3, <1>5, <2>1
<1>11. UnreadableNeedsCrash'
  BY <1>1, <1>2 DEF UnreadableNeedsCrash
<1> QED
  BY <1>6, <1>7, <1>8, <1>9, <1>10, <1>11

(* The file is all that is left of a run.                                  *)
LEMMA RestartInv ==
    ASSUME CacheFileInv, Restart
    PROVE  CacheFileInv'
<1> USE DEF CacheFileInv
<1>1. /\ dnsCache' = 0 /\ made' = 0 /\ loading' = {}
      /\ mine' = [g \in Caller |-> 0] /\ using' = [g \in Caller |-> 0]
      /\ object' = [n \in Object |-> NoEntries] /\ saving' = {}
      /\ answered' = {} /\ torn' = (file = Unreadable) /\ file' = file
  BY DEF Restart
<1>2. CacheFileTypeOK'
  BY <1>1, SpecialEntries DEF CacheFileTypeOK
<1>3. Unassigned' /\ InOneHand'
  BY <1>1 DEF Unassigned, InOneHand
<1>4. Resolved(file)' /\ \A n \in Object : Resolved(object[n])'
  BY <1>1, SpecialEntries DEF Resolved
<1>5. AnswersKept' /\ FileIsCurrent' /\ UnreadableNeedsCrash'
  BY <1>1 DEF AnswersKept, FileIsCurrent, UnreadableNeedsCrash
<1> QED
  BY <1>2, <1>3, <1>4, <1>5

LEMMA CacheFileNextInv == CacheFileInv /\ [CacheFileNext]_cacheFileVars => CacheFileInv'
<1> SUFFICES ASSUME CacheFileInv, [CacheFileNext]_cacheFileVars PROVE CacheFileInv'
  OBVIOUS
<1>1. CASE \E g \in Caller : newDNSCache(g)
  BY <1>1, newDNSCacheInv
<1>2. CASE \E g \in Caller : AssignCache(g)
  BY <1>2, AssignCacheInv
<1>3. CASE \E g \in Caller : ReturnCache(g)
  BY <1>3, ReturnCacheInv
<1>11. CASE \E g \in Caller : LoadCache(g)
  BY <1>11, LoadCacheInv
<1>4. CASE \E g \in Caller : saveCacheToDisk(g)
  BY <1>4, saveCacheToDiskInv
<1>5. CASE \E g \in Caller, d \in Domain : CacheHit(g, d)
  BY <1>5, CacheHitInv
<1>6. CASE \E g \in Caller, d \in Domain : ResolverFails(g, d)
  BY <1>6, ResolverFailsInv
<1>7. CASE \E g \in Caller, d \in Domain : Resolve(g, d)
  BY <1>7, ResolveInv
<1>8. CASE \E d \in Domain : WeekEnds(d)
  BY <1>8, WeekEndsInv
<1>9. CASE Restart
  BY <1>9, RestartInv
<1>10. CASE UNCHANGED cacheFileVars
  BY <1>10 DEF cacheFileVars, singletonVars, CacheFileInv, CacheFileTypeOK, Unassigned,
     InOneHand, Resolved, AnswersKept, FileIsCurrent, UnreadableNeedsCrash, Current,
     loadCacheFromDisk, Live
<1> QED
  BY <1>1, <1>2, <1>3, <1>4, <1>5, <1>6, <1>7, <1>8, <1>9, <1>10, <1>11 DEF CacheFileNext

-----------------------------------------------------------------------------
(* The inductive invariant of the cache: objects, file and goroutines, for *)
(* any number of runs that end at any step.                                *)
THEOREM CacheFileInvHolds == CacheFileSpec => []CacheFileInv
  BY CacheFileInitInv, CacheFileNextInv, PTL DEF CacheFileSpec

(* Lookup: until a second object is made, what one goroutine has looked up *)
(* the other finds, whatever expires, fails or is saved in between.        *)
THEOREM AnswersStay == CacheFileSpec => []AnswersKept
<1>1. CacheFileInv => AnswersKept
  BY DEF CacheFileInv
<1> QED
  BY <1>1, CacheFileInvHolds, PTL

(* saveCacheToDisk: when nobody saves, the file agrees with an object of   *)
(* the run, in every entry that is alive.                                  *)
THEOREM FileFollowsObject == CacheFileSpec => []FileIsCurrent
<1>1. CacheFileInv => FileIsCurrent
  BY DEF CacheFileInv
<1> QED
  BY <1>1, CacheFileInvHolds, PTL

(* The file is unreadable only within a save or after a run that ended in  *)
(* one: two saves at a time leave it readable.                             *)
THEOREM UnreadableExplained == CacheFileSpec => []UnreadableNeedsCrash
<1>1. CacheFileInv => UnreadableNeedsCrash
  BY DEF CacheFileInv
<1> QED
  BY <1>1, CacheFileInvHolds, PTL

-----------------------------------------------------------------------------
(* The refinement of DNSCache.                                             *)

(* With one object, what every goroutine uses is what the next finds.      *)
LEMMA CurrentObject ==
    ASSUME CacheFileInv, NEW g \in Caller, using[g] # 0, made < 2
    PROVE  /\ Current = object[using[g]] /\ dnsCache # 0
           /\ using[g] \in Object /\ object[using[g]] \in Entries
  BY UsedObject DEF CacheFileInv, CacheFileTypeOK, Current

LEMMA CurrentEntries ==
    ASSUME CacheFileInv
    PROVE  Current \in Entries /\ Resolved(Current)
<1>1. CASE dnsCache = 0
  BY <1>1, LoadedEntries DEF CacheFileInv, Current
<1>2. CASE dnsCache # 0
  BY <1>2 DEF CacheFileInv, CacheFileTypeOK, Current, Object
<1> QED
  BY <1>1, <1>2

(* Step by step.  A new run: what is loaded is an initial cache.           *)
LEMMA RestartStep ==
    ASSUME CacheFileInv, Restart
    PROVE  A!DNSInit'
<1>1. Current' = loadCacheFromDisk
  BY DEF Restart, Current, loadCacheFromDisk
<1>2. Current' \in Entries /\ Resolved(Current')
  BY <1>1, LoadedEntries DEF CacheFileInv
<1> QED
  BY <1>2 DEF A!DNSInit, Entries, Resolved

(* The creation of the cache and the encoder change nothing that a lookup  *)
(* sees, as long as there is one object.                                   *)
LEMMA SilentStep ==
    ASSUME CacheFileInv, made' < 2, NEW g \in Caller,
           \/ newDNSCache(g) \/ LoadCache(g) \/ AssignCache(g) \/ ReturnCache(g) \/ saveCacheToDisk(g)
           \/ \E d \in Domain : CacheHit(g, d)
    PROVE  Current' = Current
<1>1. CASE newDNSCache(g)
  BY <1>1 DEF newDNSCache, Current, loadCacheFromDisk
<1>6. CASE LoadCache(g)
  <2>1. /\ mine[g] \in loading /\ made < 2 /\ UNCHANGED <<dnsCache, file>>
    BY <1>6 DEF LoadCache
  <2>2. dnsCache = 0
    BY <2>1 DEF CacheFileInv, InOneHand, CacheFileTypeOK, Object
  <2> QED
    BY <2>1, <2>2 DEF Current, loadCacheFromDisk
<1>2. CASE AssignCache(g)
  <2>1. mine[g] # 0 /\ mine[g] \notin loading /\ dnsCache' = mine[g] /\ made' = made /\ object' = object
    BY <1>2 DEF AssignCache
  <2>2. mine[g] \in 1..made /\ dnsCache = 0
    BY <2>1 DEF CacheFileInv, InOneHand, CacheFileTypeOK
  <2> QED
    BY <2>1, <2>2 DEF CacheFileInv, Unassigned, Current
<1>3. CASE ReturnCache(g)
  BY <1>3 DEF ReturnCache, singletonVars, Current, loadCacheFromDisk
<1>4. CASE saveCacheToDisk(g)
  <2>1. dnsCache # 0
    BY <1>4 DEF saveCacheToDisk, CacheFileInv, Unassigned
  <2> QED
    BY <1>4, <2>1 DEF saveCacheToDisk, singletonVars, Current
<1>5. CASE \E d \in Domain : CacheHit(g, d)
  BY <1>5 DEF CacheHit, singletonVars, Current, loadCacheFromDisk
<1> QED
  BY <1>1, <1>2, <1>3, <1>4, <1>5, <1>6

(* A lookup that is not a hit enters the answer, or removes the entry.     *)
LEMMA MissStep ==
    ASSUME CacheFileInv, made' < 2, NEW g \in Caller, NEW d \in Domain,
           ResolverFails(g, d) \/ Resolve(g, d)
    PROVE  A!CacheStep(d)
<1>1. PICK ip \in Answers[d] \cup {None} :
         /\ using[g] # 0 /\ ~Live(object[using[g]], d)
         /\ object' = [object EXCEPT ![using[g]] = Put(object[using[g]], d, ip)]
         /\ dnsCache' = dnsCache /\ made' = made
  BY DEF ResolverFails, Resolve, Locked, singletonVars
<1>2. /\ Current = object[using[g]] /\ dnsCache # 0
      /\ using[g] \in Object /\ Current \in Entries
      /\ using[g] = dnsCache
  BY <1>1, CurrentObject, UsedObject
<1>3. Current' = Put(Current, d, ip)
  BY <1>1, <1>2 DEF Current, CacheFileInv, CacheFileTypeOK
<1>4. ip \in IP \cup {None}
  BY CacheFileAssumption
<1>5. /\ ~A!Cached(d)
      /\ Current'.ip = [Current.ip EXCEPT ![d] = ip]
      /\ Current'.expired = Current.expired \ {d}
  BY <1>1, <1>2, <1>3 DEF A!Cached, Live, Put
<1>6. A!Lookup(d, ip)
  BY <1>1, <1>5 DEF A!Lookup
<1> QED
  BY <1>4, <1>6 DEF A!CacheStep

LEMMA WeekEndsStep ==
    ASSUME CacheFileInv, NEW d \in Domain, WeekEnds(d)
    PROVE  A!CacheStep(d)
<1>1. /\ object' = [n \in Object |-> Lapse(object[n], d)] /\ file' = Lapse(file, d)
      /\ dnsCache' = dnsCache
  BY DEF WeekEnds, singletonVars
<1>2. dnsCache \in {0} \cup Object
  BY DEF CacheFileInv, CacheFileTypeOK, Object
<1>3. loadCacheFromDisk' = Lapse(loadCacheFromDisk, d)
  BY <1>1, LapseEntry, SpecialEntries DEF loadCacheFromDisk, CacheFileInv, CacheFileTypeOK
<1>4. Current' = Lapse(Current, d)
  BY <1>1, <1>2, <1>3 DEF Current
<1>5. Current \in Entries
  BY CurrentEntries
<1>6. CASE A!Cached(d)
  <2>1. Current.ip[d] # None
    BY <1>6 DEF A!Cached
  <2>2. Current'.ip = Current.ip /\ Current'.expired = Current.expired \cup {d}
    BY <1>4, <1>5, <2>1 DEF Lapse, Entries
  <2> QED
    BY <1>6, <2>2 DEF A!CacheStep, A!Expire
<1>7. CASE ~A!Cached(d)
  <2>1. Current.ip[d] = None \/ d \in Current.expired
    BY <1>7 DEF A!Cached
  <2>2. Current'.ip = Current.ip /\ Current'.expired = Current.expired
    BY <1>4, <1>5, <2>1 DEF Lapse, Entries
  <2> QED
    BY <2>2 DEF A!CacheStep, A!dnsVars
<1> QED
  BY <1>6, <1>7

(* One cache object with its file implements DNSCache: every step of the   *)
(* two goroutines, of the clock and of the encoder is a step of the cache, *)
(* or none, and a restart leads to one of its initial states.              *)
THEOREM CacheImplemented == CacheFileSpec => ImplementsCache
<1>1. ASSUME CacheFileInv, [CacheFileNext]_cacheFileVars, made > 0, made' = 0
      PROVE  A!DNSInit'
  <2>1. Restart
    BY <1>1 DEF CacheFileNext, newDNSCache, LoadCache, AssignCache, ReturnCache, saveCacheToDisk, CacheHit,
       ResolverFails, Resolve, WeekEnds, singletonVars, cacheFileVars, CacheFileInv, CacheFileTypeOK
  <2> QED
    BY <1>1, <2>1, RestartStep
<1>2. ASSUME CacheFileInv, [CacheFileNext]_cacheFileVars, ~(made > 0 /\ made' = 0), made' < 2
      PROVE  \E d \in Domain : A!CacheStep(d)
  <2>1. PICK c \in Domain : TRUE
    BY CacheFileAssumption
  <2>2. CASE Current' = Current
    BY <2>1, <2>2 DEF A!CacheStep, A!dnsVars
  <2>3. CASE \E g \in Caller : \/ newDNSCache(g) \/ LoadCache(g) \/ AssignCache(g) \/ ReturnCache(g)
                               \/ saveCacheToDisk(g) \/ \E d \in Domain : CacheHit(g, d)
    BY <1>2, <2>2, <2>3, SilentStep
  <2>4. CASE \E g \in Caller, d \in Domain : ResolverFails(g, d) \/ Resolve(g, d)
    BY <1>2, <2>4, MissStep
  <2>5. CASE \E d \in Domain : WeekEnds(d)
    BY <1>2, <2>5, WeekEndsStep
  <2>6. CASE UNCHANGED cacheFileVars
    BY <2>2, <2>6 DEF cacheFileVars, singletonVars, Current, loadCacheFromDisk
  <2>7. ~Restart
    BY <1>2 DEF Restart
  <2> QED
    BY <1>2, <2>3, <2>4, <2>5, <2>6, <2>7 DEF CacheFileNext
<1>3. CacheFileInv /\ [CacheFileNext]_cacheFileVars =>
        [IF made > 0 /\ made' = 0 THEN A!DNSInit'
                                  ELSE made' < 2 => \E d \in Domain : A!CacheStep(d)]_cacheFileVars
  BY <1>1, <1>2
<1> QED
  BY <1>3, CacheFileInvHolds, PTL DEF CacheFileSpec, ImplementsCache
=============================================================================
