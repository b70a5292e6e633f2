------------------------ MODULE WorkerdReplay_proofs ------------------------
(***************************************************************************)
(* Safety of WorkerdReplay for any number of requests, sessions and cache  *)
(* entries.                                                                *)
(***************************************************************************)
EXTENDS WorkerdReplay, FiniteSetTheorems, SequenceTheorems, TLAPS

\* The cache is a Map no larger than its limit.
CacheIsAMap ==
  /\ Len(cache) <= MaxCached
  /\ \A i, j \in DOMAIN cache : cache[i].key = cache[j].key => i = j

\* What an entry tells is true, and a pending one has its handshake.
EntriesTell ==
  \A i \in DOMAIN cache :
    LET e == cache[i] IN
    /\ e.value = "pending" => Awaits(e.by, e.by) /\ session[e.by] = e.key
    /\ e.value = "unavailable" => e.key \notin Recorded

\* A handshake has its entry unless the full cache dropped its session.
HandshakesCached ==
  \A r \in Requests :
    Awaits(r, r) /\ session[r] \notin evicted =>
      \E i \in DOMAIN cache : cache[i].by = r /\ cache[i].value = "pending"

\* Whom a request awaits, and why it runs live.
RequestsTell ==
  \A r \in Requests :
    /\ phase[r] = "awaiting" =>
         /\ Awaits(asker[r], asker[r])
         /\ session[asker[r]] = session[r]
    /\ phase[r] = "live" /\ session[r] \in Recorded => failed[r]
    /\ real[r] => phase[r] = "live"

Inv == TypeOK /\ CacheIsAMap /\ EntriesTell /\ HandshakesCached /\ RequestsTell

-----------------------------------------------------------------------------
(* The cache.                                                              *)

LEMMA RemoveAtElements ==
    ASSUME NEW S, NEW q \in Seq(S), NEW i \in DOMAIN q
    PROVE  /\ RemoveAt(q, i) \in Seq(S)
           /\ Len(RemoveAt(q, i)) = Len(q) - 1
           /\ \A j \in 1..(Len(q) - 1) :
                RemoveAt(q, i)[j] = q[IF j < i THEN j ELSE j + 1]
  <1> DEFINE a == SubSeq(q, 1, i-1)
             b == SubSeq(q, i+1, Len(q))
  <1>1. a \in Seq(S) /\ Len(a) = i - 1 /\ \A j \in 1..(i-1) : a[j] = q[j]
    BY SubSeqProperties, LenProperties
  <1>2. /\ b \in Seq(S) /\ Len(b) = Len(q) - i
        /\ \A j \in 1..(Len(q) - i) : b[j] = q[i + j]
    BY SubSeqProperties, LenProperties
  <1> HIDE DEF a, b
  <1>3. RemoveAt(q, i) = a \o b
    BY DEF RemoveAt, a, b
  <1>4. /\ a \o b \in Seq(S) /\ Len(a \o b) = Len(q) - 1
        /\ \A j \in 1..(Len(q) - 1) :
             (a \o b)[j] = IF j <= i - 1 THEN a[j] ELSE b[j - (i - 1)]
    <2>1. Len(a) + Len(b) = Len(q) - 1
      BY <1>1, <1>2, LenProperties
    <2>2. /\ a \o b \in Seq(S) /\ Len(a \o b) = Len(a) + Len(b)
          /\ \A j \in 1..(Len(a) + Len(b)) :
               (a \o b)[j] = IF j <= Len(a) THEN a[j] ELSE b[j - Len(a)]
      BY <1>1, <1>2, ConcatProperties
    <2> QED  BY <1>1, <2>1, <2>2
  <1>5. \A j \in 1..(Len(q) - 1) :
          (a \o b)[j] = q[IF j < i THEN j ELSE j + 1]
    <2> SUFFICES ASSUME NEW j \in 1..(Len(q) - 1)
                 PROVE  (a \o b)[j] = q[IF j < i THEN j ELSE j + 1]
      OBVIOUS
    <2>1. Len(q) \in Nat /\ i \in 1..Len(q)
      BY LenProperties
    <2>2. CASE j < i
      BY <1>1, <1>4, <2>1, <2>2
    <2>3. CASE ~(j < i)
      <3>1. j - (i - 1) \in 1..(Len(q) - i) /\ i + (j - (i - 1)) = j + 1
        BY <2>1, <2>3
      <3>2. (a \o b)[j] = b[j - (i - 1)]
        BY <1>4, <2>1, <2>3
      <3> QED  BY <1>2, <2>3, <3>1, <3>2
    <2> QED  BY <2>2, <2>3
  <1> QED  BY <1>3, <1>4, <1>5

\* Where the entries of the cache were before it was changed: Map.delete and
\* Map.set keep the order and the other entries.
LEMMA RememberEntries ==
    ASSUME TypeOK, CacheIsAMap, NEW r \in Requests, NEW s \in Sessions,
           Cached(s) = {}, Remember(r, s)
    PROVE  /\ cache' \in Seq(Entries) /\ Len(cache') <= MaxCached
           /\ \A j \in DOMAIN cache' :
                \/ j = Len(cache') /\ cache'[j] = Entry(s, r)
                \/ /\ j < Len(cache')
                   /\ \E i \in DOMAIN cache : cache'[j] = cache[i]
           /\ \A j, k \in DOMAIN cache' : cache'[j].key = cache'[k].key => j = k
           /\ \A i \in DOMAIN cache :
                \/ \E j \in DOMAIN cache' : cache'[j] = cache[i]
                \/ cache[i].key \in evicted'
           /\ Len(cache') \in DOMAIN cache' /\ cache'[Len(cache')] = Entry(s, r)
           /\ evicted \subseteq evicted' /\ evicted' \subseteq Sessions
  <1> DEFINE e == Entry(s, r)
  <1>1. e \in Entries /\ e.key = s
    BY DEF Entries, Entry
  <1>2. cache \in Seq(Entries) /\ Len(cache) \in Nat /\ DOMAIN cache = 1..Len(cache)
    BY LenProperties DEF TypeOK
  <1>3. \A i \in DOMAIN cache : cache[i].key # s
    BY DEF Cached
  <1> HIDE DEF e
  <1>4. CASE Len(cache) >= MaxCached
    <2>1. /\ cache' = Append(Tail(cache), e)
          /\ evicted' = evicted \cup {Head(cache).key}
      BY <1>4 DEF Remember, e
    <2>2. cache # <<>> /\ Len(cache) >= 1
      BY <1>2, <1>4, ConstantsAssumption, EmptySeq
    <2>3. /\ Tail(cache) \in Seq(Entries) /\ Len(Tail(cache)) = Len(cache) - 1
          /\ \A i \in 1..(Len(cache) - 1) : Tail(cache)[i] = cache[i + 1]
          /\ Head(cache) = cache[1]
      BY <1>2, <2>2, HeadTailProperties
    <2>4. /\ cache' \in Seq(Entries) /\ Len(cache') = Len(cache)
          /\ cache'[Len(cache)] = e
          /\ \A i \in 1..(Len(cache) - 1) : cache'[i] = cache[i + 1]
          /\ DOMAIN cache' = 1..Len(cache)
      BY <1>1, <1>2, <2>1, <2>3, AppendProperties, LenProperties
    <2>5. \A j \in DOMAIN cache' :
            \/ j = Len(cache') /\ cache'[j] = e
            \/ j < Len(cache') /\ j + 1 \in DOMAIN cache /\ cache'[j] = cache[j + 1]
      BY <1>2, <2>4
    <2>6. \A j, k \in DOMAIN cache' : cache'[j].key = cache'[k].key => j = k
      <3> SUFFICES ASSUME NEW j \in DOMAIN cache', NEW k \in DOMAIN cache',
                          cache'[j].key = cache'[k].key
                   PROVE  j = k
        OBVIOUS
      <3>1. CASE j = Len(cache') \/ k = Len(cache')
        BY <1>1, <1>3, <2>5, <3>1
      <3>2. CASE j < Len(cache') /\ k < Len(cache')
        <4>1. cache[j + 1].key = cache[k + 1].key
              /\ j + 1 \in DOMAIN cache /\ k + 1 \in DOMAIN cache
          BY <2>5, <3>2
        <4> QED  BY <1>2, <2>4, <4>1 DEF CacheIsAMap
      <3> QED  BY <1>2, <2>4, <3>1, <3>2
    <2>7. \A i \in DOMAIN cache :
            \/ \E j \in DOMAIN cache' : cache'[j] = cache[i]
            \/ cache[i].key \in evicted'
      <3> SUFFICES ASSUME NEW i \in DOMAIN cache, i # 1
                   PROVE  \E j \in DOMAIN cache' : cache'[j] = cache[i]
        BY <1>2, <2>1, <2>3
      <3>1. i - 1 \in DOMAIN cache' /\ cache'[i - 1] = cache[i]
        BY <1>2, <2>4
      <3> QED  BY <3>1
    <2>8. evicted' \subseteq Sessions /\ evicted \subseteq evicted'
      <3>1. cache[1] \in Entries
        BY <1>2, <2>2, ElementOfSeq
      <3> QED  BY <2>1, <2>3, <3>1 DEF Entries, TypeOK
    <2>9. Len(cache') \in DOMAIN cache' /\ Len(cache') <= MaxCached
      BY <1>2, <2>2, <2>4 DEF CacheIsAMap
    <2> QED  BY <2>4, <2>5, <2>6, <2>7, <2>8, <2>9 DEF e
  <1>5. CASE ~(Len(cache) >= MaxCached)
    <2>1. cache' = Append(cache, e) /\ evicted' = evicted
      BY <1>5 DEF Remember, e
    <2>2. /\ cache' \in Seq(Entries) /\ Len(cache') = Len(cache) + 1
          /\ cache'[Len(cache) + 1] = e
          /\ \A i \in 1..Len(cache) : cache'[i] = cache[i]
          /\ DOMAIN cache' = 1..(Len(cache) + 1)
      BY <1>1, <1>2, <2>1, AppendProperties, LenProperties
    <2>3. \A j, k \in DOMAIN cache' : cache'[j].key = cache'[k].key => j = k
      BY <1>1, <1>2, <1>3, <2>2 DEF CacheIsAMap
    <2>4. \A j \in DOMAIN cache' :
            \/ j = Len(cache') /\ cache'[j] = e
            \/ j < Len(cache') /\ j \in DOMAIN cache /\ cache'[j] = cache[j]
      BY <1>2, <2>2
    <2>5. \A i \in DOMAIN cache : i \in DOMAIN cache' /\ cache'[i] = cache[i]
      BY <1>2, <2>2
    <2>6. Len(cache') \in DOMAIN cache' /\ Len(cache') <= MaxCached
      BY <1>2, <1>5, <2>2, ConstantsAssumption
    <2> QED  BY <2>1, <2>2, <2>3, <2>4, <2>5, <2>6 DEF e, TypeOK
  <1> QED  BY <1>4, <1>5

LEMMA ForgetEntries ==
    ASSUME TypeOK, CacheIsAMap, NEW r \in Requests, Forget(r)
    PROVE  /\ cache' \in Seq(Entries) /\ Len(cache') <= MaxCached
           /\ \A j \in DOMAIN cache' :
                \E i \in DOMAIN cache :
                  cache'[j] = cache[i] /\ cache[i].key # session[r]
           /\ \A j, k \in DOMAIN cache' : cache'[j].key = cache'[k].key => j = k
           /\ \A i \in DOMAIN cache :
                cache[i].key # session[r] =>
                  \E j \in DOMAIN cache' : cache'[j] = cache[i]
  <1>1. cache \in Seq(Entries) /\ Len(cache) \in Nat /\ DOMAIN cache = 1..Len(cache)
    BY LenProperties DEF TypeOK
  <1>2. CASE Cached(session[r]) = {}
    BY <1>1, <1>2 DEF Forget, Cached, CacheIsAMap
  <1>3. CASE Cached(session[r]) # {}
    <2>1. PICK i \in Cached(session[r]) : cache' = RemoveAt(cache, i)
      BY <1>3 DEF Forget
    <2>2. i \in DOMAIN cache /\ cache[i].key = session[r]
      BY <2>1 DEF Cached
    <2>3. /\ cache' \in Seq(Entries) /\ Len(cache') = Len(cache) - 1
          /\ \A j \in 1..(Len(cache) - 1) :
               cache'[j] = cache[IF j < i THEN j ELSE j + 1]
          /\ DOMAIN cache' = 1..(Len(cache) - 1)
      <3>1. /\ cache' \in Seq(Entries) /\ Len(cache') = Len(cache) - 1
            /\ \A j \in 1..(Len(cache) - 1) :
                 cache'[j] = cache[IF j < i THEN j ELSE j + 1]
        BY <1>1, <2>1, <2>2, RemoveAtElements
      <3> QED  BY <3>1, LenProperties
    <2> DEFINE old(j) == IF j < i THEN j ELSE j + 1
    <2>4. \A j \in DOMAIN cache' :
            /\ old(j) \in DOMAIN cache /\ old(j) # i
            /\ cache'[j] = cache[old(j)]
      BY <1>1, <2>2, <2>3
    <2>5. \A j, k \in DOMAIN cache' : old(j) = old(k) => j = k
      BY <1>1, <2>2, <2>3
    <2>6. \A n \in DOMAIN cache : n # i =>
            \E j \in DOMAIN cache' : cache'[j] = cache[n]
      <3> SUFFICES ASSUME NEW n \in DOMAIN cache, n # i
                   PROVE  \E j \in DOMAIN cache' : cache'[j] = cache[n]
        OBVIOUS
      <3>1. CASE n < i
        <4>1. n \in DOMAIN cache' /\ cache'[n] = cache[n]
          BY <1>1, <2>2, <2>3, <3>1
        <4> QED  BY <4>1
      <3>2. CASE n > i
        <4>1. n - 1 \in DOMAIN cache' /\ cache'[n - 1] = cache[n]
          BY <1>1, <2>2, <2>3, <3>2
        <4> QED  BY <4>1
      <3> QED  BY <1>1, <2>2, <3>1, <3>2
    <2> HIDE DEF old
    <2>7. Len(cache') <= MaxCached
      BY <1>1, <2>3, ConstantsAssumption DEF CacheIsAMap
    <2>8. \A n \in DOMAIN cache : cache[n].key = session[r] => n = i
      BY <2>2 DEF CacheIsAMap
    <2>9. \A j \in DOMAIN cache' : cache[old(j)].key # session[r]
      BY <2>4, <2>8
    <2>10. \A j, k \in DOMAIN cache' : cache'[j].key = cache'[k].key => j = k
      BY <2>4, <2>5 DEF CacheIsAMap
    <2> QED  BY <2>2, <2>3, <2>4, <2>6, <2>7, <2>9, <2>10
  <1> QED  BY <1>2, <1>3

LEMMA SettledEntries ==
    ASSUME TypeOK, NEW r \in Requests, NEW info \in Outcomes,
           cache' = [i \in DOMAIN cache |-> Settled(cache[i], r, info)]
    PROVE  /\ cache' \in Seq(Entries) /\ Len(cache') = Len(cache)
           /\ DOMAIN cache' = DOMAIN cache
           /\ \A i \in DOMAIN cache :
                /\ cache'[i].key = cache[i].key /\ cache'[i].by = cache[i].by
                /\ IF cache[i].by = r /\ cache[i].value = "pending"
                   THEN cache'[i].value = info
                   ELSE cache'[i].value = cache[i].value
  <1>1. cache \in Seq(Entries) /\ Len(cache) \in Nat /\ DOMAIN cache = 1..Len(cache)
    BY LenProperties DEF TypeOK
  <1>2. \A i \in DOMAIN cache : cache[i] \in Entries
    BY <1>1, ElementOfSeq
  <1>3. \A i \in DOMAIN cache :
          /\ Settled(cache[i], r, info) \in Entries
          /\ Settled(cache[i], r, info).key = cache[i].key
          /\ Settled(cache[i], r, info).by = cache[i].by
          /\ IF cache[i].by = r /\ cache[i].value = "pending"
             THEN Settled(cache[i], r, info).value = info
             ELSE Settled(cache[i], r, info).value = cache[i].value
    BY <1>2 DEF Settled, Entries
  <1>4. cache' \in Seq(Entries) /\ DOMAIN cache' = DOMAIN cache
    BY <1>1, <1>3, IsASeq
  <1>5. Len(cache') = Len(cache)
    BY <1>1, <1>4, LenProperties
  <1> QED  BY <1>3, <1>4, <1>5

-----------------------------------------------------------------------------
(* Types.                                                                  *)

LEMMA InitInv == Init => Inv
  <1> SUFFICES ASSUME Init PROVE Inv
    OBVIOUS
  <1>1. cache = <<>> /\ cache \in Seq(Entries) /\ Len(cache) = 0 /\ DOMAIN cache = {}
    BY EmptySeq DEF Init
  <1>2. (CHOOSE s \in Sessions : TRUE) \in Sessions
    BY ConstantsAssumption
  <1> QED  BY <1>1, <1>2, ConstantsAssumption
           DEF Init, Inv, TypeOK, Phases, CacheIsAMap, EntriesTell,
               HandshakesCached, RequestsTell, Awaits

LEMMA StepTyped == TypeOK /\ CacheIsAMap /\ [Next]_vars => TypeOK' /\ CacheIsAMap'
  <1> SUFFICES ASSUME TypeOK, CacheIsAMap, [Next]_vars PROVE TypeOK' /\ CacheIsAMap'
    OBVIOUS
  <1>1. CASE SidecarComesOrGoes
    BY <1>1 DEF SidecarComesOrGoes, TypeOK, CacheIsAMap
  <1>2. ASSUME NEW r \in Requests, Arrive(r) PROVE TypeOK' /\ CacheIsAMap'
    <2>1. PICK s \in Sessions :
            /\ session' = [session EXCEPT ![r] = s]
            /\ IF Cached(s) # {} THEN UseCached(r, s) ELSE Ask(r, s)
      BY <1>2 DEF Arrive
    <2>2. CASE Cached(s) # {}
      <3>1. PICK i \in Cached(s) :
              /\ IF cache[i].value = "pending"
                 THEN /\ phase' = [phase EXCEPT ![r] = "awaiting"]
                      /\ asker' = [asker EXCEPT ![r] = cache[i].by]
                 ELSE /\ phase' = [phase EXCEPT ![r] = After(cache[i].value)]
                      /\ UNCHANGED asker
              /\ UNCHANGED <<cache, evicted>>
        BY <2>1, <2>2 DEF UseCached
      <3>2. cache[i] \in Entries
        BY <3>1, ElementOfSeq, LenProperties DEF TypeOK, Cached
      <3> QED  BY <1>2, <2>1, <3>1, <3>2
               DEF Arrive, After, Phases, Entries, TypeOK, CacheIsAMap
    <2>3. CASE Cached(s) = {}
      <3>1. Remember(r, s)
        BY <2>1, <2>3 DEF Ask
      <3>2. /\ cache' \in Seq(Entries) /\ evicted' \subseteq Sessions
            /\ CacheIsAMap'
        BY <2>3, <3>1, RememberEntries DEF CacheIsAMap
      <3>3. /\ phase' \in [Requests -> Phases] /\ asker' \in [Requests -> Requests]
            /\ session' \in [Requests -> Sessions]
        BY <2>1, <2>3 DEF Ask, Phases, TypeOK
      <3> QED  BY <1>2, <3>2, <3>3 DEF Arrive, TypeOK
    <2> QED  BY <2>2, <2>3
  <1>3. ASSUME NEW r \in Requests, HandshakeAnswered(r) PROVE TypeOK' /\ CacheIsAMap'
    <2>1. PICK info \in Outcomes :
            /\ Proceed(r, info)
            /\ cache' = [i \in DOMAIN cache |-> Settled(cache[i], r, info)]
      BY <1>3 DEF HandshakeAnswered, Outcomes
    <2>2. phase' \in [Requests -> Phases]
      BY <2>1 DEF Proceed, After, Phases, TypeOK
    <2> QED  BY <1>3, <2>1, <2>2, SettledEntries
             DEF HandshakeAnswered, TypeOK, CacheIsAMap
  <1>4. ASSUME NEW r \in Requests, HandshakeFails(r) PROVE TypeOK' /\ CacheIsAMap'
    <2>1. phase' \in [Requests -> Phases]
      BY <1>4 DEF HandshakeFails, Proceed, After, Phases, TypeOK
    <2>2. failed' \in [Requests -> BOOLEAN]
      BY <1>4 DEF HandshakeFails, Awaits, TypeOK
    <2> QED  BY <1>4, <2>1, <2>2, ForgetEntries
             DEF HandshakeFails, TypeOK, CacheIsAMap
  <1>5. ASSUME NEW r \in Requests, Call(r) \/ LookupEnds(r) \/ Respond(r)
        PROVE  TypeOK' /\ CacheIsAMap'
    <2>1. UNCHANGED <<up, cache, session, evicted>>
      BY <1>5 DEF Call, LookupEnds, Respond
    <2>2. phase' \in [Requests -> Phases]
      BY <1>5 DEF Call, LookupEnds, Respond, Phases, TypeOK
    <2>3. /\ asker' \in [Requests -> Requests]
          /\ failed' \in [Requests -> BOOLEAN]
      <3>1. CASE Call(r) \/ LookupEnds(r)
        BY <3>1 DEF Call, LookupEnds, TypeOK
      <3>2. CASE Respond(r)
        BY <3>2 DEF Respond, TypeOK
      <3> QED  BY <1>5, <3>1, <3>2
    <2>4. real' \in [Requests -> BOOLEAN]
      <3>1. UNCHANGED real \/ real' = [real EXCEPT ![r] = TRUE]
                           \/ real' = [real EXCEPT ![r] = FALSE]
        BY <1>5 DEF Call, LookupEnds, Unanswered, Respond
      <3> QED  BY <3>1 DEF TypeOK
    <2> QED  BY <2>1, <2>2, <2>3, <2>4 DEF TypeOK, CacheIsAMap
  <1>6. CASE UNCHANGED vars
    BY <1>6 DEF vars, TypeOK, CacheIsAMap
  <1> QED  BY <1>1, <1>2, <1>3, <1>4, <1>5, <1>6 DEF Next

-----------------------------------------------------------------------------
(* What entries, handshakes and requests tell of each other.               *)

Tell == EntriesTell /\ HandshakesCached /\ RequestsTell

LEMMA ArriveTells ==
    ASSUME Inv, NEW r \in Requests, Arrive(r)
    PROVE  Tell'
  <1> USE DEF Inv
  <1>1. PICK s \in Sessions :
          /\ session' = [session EXCEPT ![r] = s]
          /\ IF Cached(s) # {} THEN UseCached(r, s) ELSE Ask(r, s)
    BY DEF Arrive
  <1>2. /\ phase[r] = "idle" /\ ~real[r] /\ UNCHANGED <<failed, real>>
        /\ session' \in [Requests -> Sessions] /\ session'[r] = s
        /\ \A q \in Requests : q # r => session'[q] = session[q]
    BY <1>1 DEF Arrive, RequestsTell, TypeOK
  <1>3. \A i \in DOMAIN cache :
          /\ cache[i] \in Entries
          /\ cache[i].value = "pending" => cache[i].by # r
    BY <1>2, ElementOfSeq, LenProperties DEF EntriesTell, Awaits, TypeOK
  <1>4. \A q \in Requests : phase[q] = "awaiting" => q # r /\ asker[q] # r
    BY <1>2 DEF RequestsTell, Awaits
  <1>5. CASE Cached(s) # {}
    <2>1. PICK i \in Cached(s) :
            /\ IF cache[i].value = "pending"
               THEN /\ phase' = [phase EXCEPT ![r] = "awaiting"]
                    /\ asker' = [asker EXCEPT ![r] = cache[i].by]
               ELSE /\ phase' = [phase EXCEPT ![r] = After(cache[i].value)]
                    /\ UNCHANGED asker
            /\ UNCHANGED <<cache, evicted>>
      BY <1>1, <1>5 DEF UseCached
    <2>2. i \in DOMAIN cache /\ cache[i].key = s
      BY <2>1 DEF Cached
    <2>3. \A q \in Requests : q # r => phase'[q] = phase[q] /\ asker'[q] = asker[q]
      BY <2>1 DEF TypeOK
    <2>4. EntriesTell'
      BY <1>2, <1>3, <2>1, <2>3 DEF EntriesTell, Awaits, Entries
    <2>5. ~Awaits(r, r)'
      BY <1>3, <2>1, <2>2 DEF Awaits, After, TypeOK
    <2>6. HandshakesCached'
      BY <1>2, <2>1, <2>3, <2>5 DEF HandshakesCached, Awaits
    <2>7. CASE cache[i].value = "pending"
      <3>1. /\ phase'[r] = "awaiting" /\ asker'[r] = cache[i].by
            /\ cache[i].by \in Requests
        BY <1>3, <2>1, <2>2, <2>7 DEF TypeOK, Entries
      <3>2. Awaits(cache[i].by, cache[i].by) /\ session[cache[i].by] = s
        BY <2>2, <2>7 DEF EntriesTell
      <3> QED  BY <1>2, <1>3, <1>4, <2>2, <2>3, <2>4, <2>6, <2>7, <3>1, <3>2
               DEF RequestsTell, Awaits, Tell, TypeOK
    <2>8. CASE cache[i].value # "pending"
      <3>1. phase'[r] = After(cache[i].value) /\ asker' = asker
        BY <2>1, <2>8 DEF TypeOK
      <3>2. cache[i].value \in Outcomes
        BY <1>3, <2>2, <2>8 DEF Entries
      <3>3. phase'[r] \in {"replayed", "live"}
            /\ (phase'[r] = "live" => s \notin Recorded)
        BY <2>2, <3>1, <3>2 DEF After, Outcomes, EntriesTell
      <3> QED  BY <1>2, <1>4, <2>3, <2>4, <2>6, <3>1, <3>3
               DEF RequestsTell, Awaits, Tell, TypeOK
    <2> QED  BY <2>7, <2>8
  <1>6. CASE Cached(s) = {}
    <2>1. /\ phase' = [phase EXCEPT ![r] = "awaiting"]
          /\ asker' = [asker EXCEPT ![r] = r]
          /\ Remember(r, s)
      BY <1>1, <1>6 DEF Ask
    <2>2. /\ \A j \in DOMAIN cache' :
               \/ cache'[j] = Entry(s, r)
               \/ \E i \in DOMAIN cache : cache'[j] = cache[i]
          /\ \A i \in DOMAIN cache :
               \/ \E j \in DOMAIN cache' : cache'[j] = cache[i]
               \/ cache[i].key \in evicted'
          /\ \E j \in DOMAIN cache' : cache'[j] = Entry(s, r)
          /\ evicted \subseteq evicted'
      BY <1>6, <2>1, RememberEntries
    <2>3. /\ phase'[r] = "awaiting" /\ asker'[r] = r
          /\ \A q \in Requests : q # r => phase'[q] = phase[q] /\ asker'[q] = asker[q]
      BY <2>1 DEF TypeOK
    <2>4. Entry(s, r).key = s /\ Entry(s, r).by = r /\ Entry(s, r).value = "pending"
      BY DEF Entry
    <2>5. EntriesTell'
      <3> DEFINE Good(e) ==
                   /\ e.value = "pending" =>
                        /\ phase'[e.by] = "awaiting" /\ asker'[e.by] = e.by
                        /\ session'[e.by] = e.key
                   /\ e.value = "unavailable" => e.key \notin Recorded
      <3>1. Good(Entry(s, r))
        BY <1>2, <2>3, <2>4
      <3>2. ASSUME NEW i \in DOMAIN cache PROVE Good(cache[i])
        <4>1. cache[i].value = "pending" =>
                /\ phase[cache[i].by] = "awaiting" /\ asker[cache[i].by] = cache[i].by
                /\ session[cache[i].by] = cache[i].key
          BY DEF EntriesTell, Awaits
        <4>2. cache[i].value = "unavailable" => cache[i].key \notin Recorded
          BY DEF EntriesTell
        <4>3. cache[i].by \in Requests /\ (cache[i].value = "pending" => cache[i].by # r)
          BY <1>3 DEF Entries
        <4> QED  BY <1>2, <2>3, <4>1, <4>2, <4>3
      <3>3. \A j \in DOMAIN cache' : Good(cache'[j])
        <4> HIDE DEF Good
        <4> QED  BY <2>2, <3>1, <3>2
      <3> QED  BY <3>3 DEF EntriesTell, Awaits
    <2>6. HandshakesCached'
      <3> SUFFICES ASSUME NEW q \in Requests, Awaits(q, q)',
                          session'[q] \notin evicted'
                   PROVE  \E j \in DOMAIN cache' :
                            cache'[j].by = q /\ cache'[j].value = "pending"
        BY DEF HandshakesCached
      <3>1. CASE q = r
        BY <2>2, <2>4, <3>1
      <3>2. CASE q # r
        <4>1. Awaits(q, q) /\ session[q] \notin evicted /\ session[q] = session'[q]
          BY <1>2, <2>2, <2>3, <3>2 DEF Awaits
        <4>2. PICK i \in DOMAIN cache : cache[i].by = q /\ cache[i].value = "pending"
          BY <4>1 DEF HandshakesCached
        <4>3. cache[i].key = session[q]
          BY <4>2 DEF EntriesTell
        <4> QED  BY <2>2, <4>1, <4>2, <4>3
      <3> QED  BY <3>1, <3>2
    <2>7. RequestsTell'
      BY <1>2, <1>4, <2>3 DEF RequestsTell, Awaits, TypeOK
    <2> QED  BY <2>5, <2>6, <2>7 DEF Tell
  <1> QED  BY <1>5, <1>6

LEMMA AnsweredTells ==
    ASSUME Inv, NEW r \in Requests, HandshakeAnswered(r)
    PROVE  Tell'
  <1> USE DEF Inv
  <1>1. PICK info \in Outcomes :
          /\ info = "unavailable" => session[r] \notin Recorded
          /\ Proceed(r, info)
          /\ cache' = [i \in DOMAIN cache |-> Settled(cache[i], r, info)]
    BY DEF HandshakeAnswered, Outcomes
  <1>2. /\ Awaits(r, r) /\ UNCHANGED <<session, asker, failed, real, evicted>>
        /\ info # "pending"
    BY <1>1 DEF HandshakeAnswered, Outcomes
  <1>3. \A q \in Requests :
          phase'[q] = IF Awaits(q, r) THEN After(info) ELSE phase[q]
    BY <1>1 DEF Proceed
  <1>4. /\ DOMAIN cache' = DOMAIN cache
        /\ \A i \in DOMAIN cache :
             /\ cache'[i].key = cache[i].key /\ cache'[i].by = cache[i].by
             /\ IF cache[i].by = r /\ cache[i].value = "pending"
                THEN cache'[i].value = info
                ELSE cache'[i].value = cache[i].value
    BY <1>1, SettledEntries
  <1>5. \A i \in DOMAIN cache : cache[i] \in Entries
    BY ElementOfSeq, LenProperties DEF TypeOK
  <1>6. After(info) \in {"replayed", "live"}
        /\ (After(info) = "live" => session[r] \notin Recorded)
    BY <1>1 DEF After, Outcomes
  <1>7. EntriesTell'
    <2> SUFFICES ASSUME NEW i \in DOMAIN cache
                 PROVE  /\ cache'[i].value = "pending" =>
                             /\ phase'[cache'[i].by] = "awaiting"
                             /\ asker'[cache'[i].by] = cache'[i].by
                             /\ session'[cache'[i].by] = cache'[i].key
                        /\ cache'[i].value = "unavailable" =>
                             cache'[i].key \notin Recorded
      BY <1>4 DEF EntriesTell, Awaits
    <2>1. CASE cache[i].by = r /\ cache[i].value = "pending"
      <3>1. session[r] = cache[i].key
        BY <2>1 DEF EntriesTell
      <3> QED  BY <1>1, <1>2, <1>4, <2>1, <3>1
    <2>2. CASE ~(cache[i].by = r /\ cache[i].value = "pending")
      <3>1. cache'[i].value = cache[i].value /\ cache[i].by \in Requests
        BY <1>4, <1>5, <2>2 DEF Entries
      <3> QED  BY <1>2, <1>3, <1>4, <2>2, <3>1 DEF EntriesTell, Awaits
    <2> QED  BY <2>1, <2>2
  <1>8. HandshakesCached'
    <2> SUFFICES ASSUME NEW q \in Requests, phase'[q] = "awaiting", asker'[q] = q,
                        session'[q] \notin evicted'
                 PROVE  \E i \in DOMAIN cache' :
                          cache'[i].by = q /\ cache'[i].value = "pending"
      BY DEF HandshakesCached, Awaits
    <2>1. q # r /\ Awaits(q, q) /\ session[q] \notin evicted
      BY <1>2, <1>3, <1>6 DEF Awaits
    <2>2. PICK i \in DOMAIN cache : cache[i].by = q /\ cache[i].value = "pending"
      BY <2>1 DEF HandshakesCached
    <2> QED  BY <1>4, <2>1, <2>2
  <1>9. RequestsTell'
    <2> SUFFICES ASSUME NEW q \in Requests
                 PROVE  /\ phase'[q] = "awaiting" =>
                             /\ phase'[asker'[q]] = "awaiting"
                             /\ asker'[asker'[q]] = asker'[q]
                             /\ session'[asker'[q]] = session'[q]
                        /\ phase'[q] = "live" /\ session'[q] \in Recorded => failed'[q]
                        /\ real'[q] => phase'[q] = "live"
      BY DEF RequestsTell, Awaits
    <2>1. CASE Awaits(q, r)
      BY <1>2, <1>3, <1>6, <2>1 DEF RequestsTell, Awaits
    <2>2. CASE ~Awaits(q, r)
      BY <1>2, <1>3, <2>2 DEF RequestsTell, Awaits, TypeOK
    <2> QED  BY <2>1, <2>2
  <1> QED  BY <1>7, <1>8, <1>9 DEF Tell

LEMMA FailsTells ==
    ASSUME Inv, NEW r \in Requests, HandshakeFails(r)
    PROVE  Tell'
  <1> USE DEF Inv
  <1>1. /\ Awaits(r, r) /\ UNCHANGED <<session, asker, real, evicted>>
        /\ Forget(r)
        /\ \A q \in Requests :
             /\ phase'[q] = IF Awaits(q, r) THEN "live" ELSE phase[q]
             /\ failed'[q] = (failed[q] \/ Awaits(q, r))
    BY DEF HandshakeFails, Proceed, After
  <1>2. /\ \A j \in DOMAIN cache' :
             \E i \in DOMAIN cache :
               cache'[j] = cache[i] /\ cache[i].key # session[r]
        /\ \A i \in DOMAIN cache :
             cache[i].key # session[r] => \E j \in DOMAIN cache' : cache'[j] = cache[i]
    BY <1>1, ForgetEntries
  <1>3. \A i \in DOMAIN cache : cache[i] \in Entries
    BY ElementOfSeq, LenProperties DEF TypeOK
  <1>4. EntriesTell'
    <2> DEFINE Good(e) ==
                 /\ e.value = "pending" =>
                      /\ phase'[e.by] = "awaiting" /\ asker'[e.by] = e.by
                      /\ session'[e.by] = e.key
                 /\ e.value = "unavailable" => e.key \notin Recorded
    <2>1. ASSUME NEW i \in DOMAIN cache, cache[i].key # session[r]
          PROVE  Good(cache[i])
      <3>1. cache[i].value = "pending" =>
              /\ phase[cache[i].by] = "awaiting" /\ asker[cache[i].by] = cache[i].by
              /\ session[cache[i].by] = cache[i].key
        BY DEF EntriesTell, Awaits
      <3>2. cache[i].value = "unavailable" => cache[i].key \notin Recorded
        BY DEF EntriesTell
      <3>3. cache[i].by \in Requests
        BY <1>3 DEF Entries
      <3> QED  BY <1>1, <2>1, <3>1, <3>2, <3>3 DEF Awaits
    <2>2. \A j \in DOMAIN cache' : Good(cache'[j])
      <3> HIDE DEF Good
      <3> QED  BY <1>2, <2>1
    <2> QED  BY <2>2 DEF EntriesTell, Awaits
  <1>5. HandshakesCached'
    <2> SUFFICES ASSUME NEW q \in Requests, phase'[q] = "awaiting", asker'[q] = q,
                        session'[q] \notin evicted'
                 PROVE  \E j \in DOMAIN cache' :
                          cache'[j].by = q /\ cache'[j].value = "pending"
      BY DEF HandshakesCached, Awaits
    <2>1. q # r /\ Awaits(q, q) /\ session[q] \notin evicted
      BY <1>1 DEF Awaits
    <2>2. PICK i \in DOMAIN cache : cache[i].by = q /\ cache[i].value = "pending"
      BY <2>1 DEF HandshakesCached
    <2>3. cache[i].key = session[q]
      BY <2>2 DEF EntriesTell
    <2>4. session[q] # session[r]
      <3> SUFFICES ASSUME session[q] = session[r] PROVE FALSE
        OBVIOUS
      <3>1. PICK k \in DOMAIN cache : cache[k].by = r /\ cache[k].value = "pending"
        BY <1>1, <2>1 DEF HandshakesCached
      <3>2. cache[k].key = session[r]
        BY <3>1 DEF EntriesTell
      <3> QED  BY <2>1, <2>2, <2>3, <3>1, <3>2 DEF CacheIsAMap
    <2> QED  BY <1>2, <2>2, <2>3, <2>4
  <1>6. RequestsTell'
    <2> SUFFICES ASSUME NEW q \in Requests
                 PROVE  /\ phase'[q] = "awaiting" =>
                             /\ phase'[asker'[q]] = "awaiting"
                             /\ asker'[asker'[q]] = asker'[q]
                             /\ session'[asker'[q]] = session'[q]
                        /\ phase'[q] = "live" /\ session'[q] \in Recorded => failed'[q]
                        /\ real'[q] => phase'[q] = "live"
      BY DEF RequestsTell, Awaits
    <2>1. CASE Awaits(q, r)
      BY <1>1, <2>1 DEF RequestsTell, Awaits
    <2>2. CASE ~Awaits(q, r)
      BY <1>1, <2>2 DEF RequestsTell, Awaits, TypeOK
    <2> QED  BY <2>1, <2>2
  <1> QED  BY <1>4, <1>5, <1>6 DEF Tell

\* A step that leaves the cache, the handshakes and those who await them alone.
LEMMA OthersTell ==
    ASSUME Inv, NEW r \in Requests, Call(r) \/ LookupEnds(r) \/ Respond(r)
    PROVE  Tell'
  <1> USE DEF Inv
  <1>1. /\ phase[r] # "awaiting" /\ phase'[r] # "awaiting"
        /\ UNCHANGED <<cache, session, evicted>>
        /\ \A q \in Requests : q # r =>
             /\ phase'[q] = phase[q] /\ asker'[q] = asker[q]
             /\ failed'[q] = failed[q]
    BY DEF Call, LookupEnds, Respond, TypeOK
  <1>2. \A q \in Requests : q # r => (real'[q] <=> real[q])
    <2>1. UNCHANGED real \/ \E b \in BOOLEAN : real' = [real EXCEPT ![r] = b]
      BY DEF Call, LookupEnds, Unanswered, Respond
    <2> QED  BY <2>1 DEF TypeOK
  <1>3. phase'[r] = "live" /\ session'[r] \in Recorded => failed'[r]
    BY DEF Call, LookupEnds, Respond, RequestsTell, TypeOK
  <1>4. real'[r] => phase'[r] = "live"
    <2>1. CASE Call(r)
      BY <2>1 DEF Call, RequestsTell, TypeOK
    <2>2. CASE LookupEnds(r)
      BY <2>2 DEF LookupEnds, Unanswered, RequestsTell
    <2>3. CASE Respond(r)
      BY <2>3 DEF Respond, TypeOK
    <2> QED  BY <2>1, <2>2, <2>3
  <1>5. \A q \in Requests : \A p \in Requests :
          phase[q] = "awaiting" /\ asker[q] = p => p # r /\ q # r
    BY <1>1 DEF RequestsTell, Awaits
  <1>6. \A i \in DOMAIN cache :
          cache[i].by \in Requests /\ (cache[i].value = "pending" => cache[i].by # r)
    <2>1. \A i \in DOMAIN cache : cache[i] \in Entries
      BY ElementOfSeq, LenProperties DEF TypeOK
    <2> QED  BY <1>1, <2>1 DEF EntriesTell, Awaits, Entries
  <1>7. EntriesTell'
    BY <1>1, <1>6 DEF EntriesTell, Awaits
  <1>8. HandshakesCached'
    BY <1>1 DEF HandshakesCached, Awaits
  <1>9. RequestsTell'
    BY <1>1, <1>2, <1>3, <1>4, <1>5 DEF RequestsTell, Awaits, TypeOK
  <1> QED  BY <1>7, <1>8, <1>9 DEF Tell

LEMMA StepInv == Inv /\ [Next]_vars => Inv'
  <1> SUFFICES ASSUME Inv, [Next]_vars PROVE Inv'
    OBVIOUS
  <1>1. TypeOK' /\ CacheIsAMap'
    BY StepTyped DEF Inv
  <1>2. Tell'
    <2>1. CASE SidecarComesOrGoes \/ UNCHANGED vars
      BY <2>1 DEF SidecarComesOrGoes, vars, Inv, Tell, EntriesTell,
                  HandshakesCached, RequestsTell, Awaits
    <2> QED  BY <2>1, ArriveTells, AnsweredTells, FailsTells, OthersTell DEF Next
  <1> QED  BY <1>1, <1>2 DEF Inv, Tell

LEMMA Invariance == Spec => []Inv
  BY InitInv, StepInv, PTL DEF Spec

-----------------------------------------------------------------------------
(* Theorems.                                                               *)

\* The variables keep their types.
THEOREM TypeCorrect == Spec => []TypeOK
  <1>1. Inv => TypeOK
    BY DEF Inv
  <1> QED  BY <1>1, Invariance, PTL

\* The isolate never keeps more handshakes than MAX_CACHED_SESSIONS, nor two of
\* one session.
THEOREM CacheBounded == Spec => []CacheIsAMap
  <1>1. Inv => CacheIsAMap
    BY DEF Inv
  <1> QED  BY <1>1, Invariance, PTL

\* Live traffic of a recorded session needs a failure of its own handshake.
THEOREM Hermetic == Spec => []HermeticReplay
  <1>1. Inv => HermeticReplay
    BY DEF Inv, RequestsTell, HermeticReplay
  <1> QED  BY <1>1, Invariance, PTL

\* A session the full cache never dropped has one handshake under way at most.
THEOREM HandshakeShared == Spec => []HandshakeIsShared
  <1>1. Inv => HandshakeIsShared
    <2> SUFFICES ASSUME Inv, NEW s \in Sessions \ evicted
                 PROVE  Cardinality({r \in Requests : Awaits(r, r) /\ session[r] = s}) <= 1
      BY DEF HandshakeIsShared
    <2> DEFINE asking == {r \in Requests : Awaits(r, r) /\ session[r] = s}
    <2>1. ASSUME NEW r \in asking, NEW q \in asking PROVE r = q
      <3>1. /\ \E i \in DOMAIN cache : cache[i].by = r /\ cache[i].value = "pending"
            /\ \E i \in DOMAIN cache : cache[i].by = q /\ cache[i].value = "pending"
        BY DEF Inv, HandshakesCached
      <3>2. PICK i \in DOMAIN cache, j \in DOMAIN cache :
              /\ cache[i].by = r /\ cache[i].value = "pending"
              /\ cache[j].by = q /\ cache[j].value = "pending"
        BY <3>1
      <3>3. cache[i].key = s /\ cache[j].key = s
        BY <3>2 DEF Inv, EntriesTell
      <3> QED  BY <3>2, <3>3 DEF Inv, CacheIsAMap
    <2>2. CASE asking = {}
      BY <2>2, FS_EmptySet
    <2>3. CASE asking # {}
      <3>1. PICK r \in asking : TRUE
        BY <2>3
      <3>2. asking = {r}
        BY <2>1, <3>1
      <3>3. Cardinality({r}) = 1
        BY FS_Singleton
      <3> HIDE DEF asking
      <3>4. Cardinality(asking) <= 1
        BY <3>2, <3>3
      <3> QED  BY <3>4 DEF asking
    <2> QED  BY <2>2, <2>3
  <1> QED  BY <1>1, Invariance, PTL
\* Nobody shares a promise nobody will settle: whom a request awaits, and every
\* promise still pending in the cache, is a handshake under way of the same
\* session, whatever the cache dropped, forgot or replaced meanwhile.
PromisesAreLive ==
  /\ \A r \in Requests :
       phase[r] = "awaiting" =>
         Awaits(asker[r], asker[r]) /\ session[asker[r]] = session[r]
  /\ \A i \in DOMAIN cache :
       cache[i].value = "pending" =>
         Awaits(cache[i].by, cache[i].by) /\ session[cache[i].by] = cache[i].key

\* No request awaits a handshake that is over (the promises of
\* getCachedReplaySessionInfo).
THEOREM NobodyIsForgotten == Spec => []PromisesAreLive
  <1>1. Inv => PromisesAreLive
    BY DEF Inv, RequestsTell, EntriesTell, PromisesAreLive
  <1> QED  BY <1>1, Invariance, PTL

-----------------------------------------------------------------------------
(* Requests the shim leaves alone.                                         *)

\* A request is served from mocks only if the sidecar holds some for its
\* session, and only such sessions are remembered as found: every other request
\* of the isolate runs as if the shim were not there.
OnlyRecorded ==
  /\ \A i \in DOMAIN cache :
       cache[i].value = "found" => cache[i].key \in Recorded
  /\ \A r \in Requests :
       phase[r] \in {"replayed", "lookup"} => session[r] \in Recorded

LEMMA OnlyRecordedNext ==
    Inv /\ OnlyRecorded /\ [Next]_vars => OnlyRecorded'
  <1> SUFFICES ASSUME Inv, OnlyRecorded, [Next]_vars PROVE OnlyRecorded'
    OBVIOUS
  <1>0. \A i \in DOMAIN cache : cache[i] \in Entries
    BY ElementOfSeq, LenProperties DEF Inv, TypeOK
  <1>1. CASE SidecarComesOrGoes \/ UNCHANGED vars
    BY <1>1 DEF SidecarComesOrGoes, vars, OnlyRecorded
  <1>2. ASSUME NEW r \in Requests, Arrive(r) PROVE OnlyRecorded'
    <2>1. PICK s \in Sessions :
            /\ session' = [session EXCEPT ![r] = s]
            /\ IF Cached(s) # {} THEN UseCached(r, s) ELSE Ask(r, s)
      BY <1>2 DEF Arrive
    <2>2. \A q \in Requests : q # r => session'[q] = session[q]
      BY <2>1 DEF Inv, TypeOK
    <2>3. session'[r] = s
      BY <2>1 DEF Inv, TypeOK
    <2>4. CASE Cached(s) # {}
      <3>1. PICK i \in Cached(s) :
              /\ phase' = [phase EXCEPT ![r] =
                             IF cache[i].value = "pending" THEN "awaiting"
                             ELSE After(cache[i].value)]
              /\ UNCHANGED cache
        BY <2>1, <2>4 DEF UseCached
      <3>2. i \in DOMAIN cache /\ cache[i].key = s
        BY <3>1 DEF Cached
      <3>3. phase'[r] \in {"replayed", "lookup"} => cache[i].value = "found"
        BY <3>1 DEF After, Inv, TypeOK
      <3>4. \A q \in Requests : q # r => phase'[q] = phase[q]
        BY <3>1 DEF Inv, TypeOK
      <3> QED  BY <2>2, <2>3, <3>1, <3>2, <3>3, <3>4 DEF OnlyRecorded
    <2>5. CASE Cached(s) = {}
      <3>1. Remember(r, s) /\ phase' = [phase EXCEPT ![r] = "awaiting"]
        BY <2>1, <2>5 DEF Ask
      <3>2. \A j \in DOMAIN cache' :
              \/ cache'[j] = Entry(s, r)
              \/ \E i \in DOMAIN cache : cache'[j] = cache[i]
        BY <2>5, <3>1, RememberEntries DEF Inv
      <3>3. Entry(s, r).value # "found"
        BY DEF Entry
      <3>4. \A j \in DOMAIN cache' :
              cache'[j].value = "found" => cache'[j].key \in Recorded
        BY <3>2, <3>3 DEF OnlyRecorded
      <3>5. \A q \in Requests :
              phase'[q] = IF q = r THEN "awaiting" ELSE phase[q]
        BY <3>1 DEF Inv, TypeOK
      <3> QED  BY <2>2, <3>4, <3>5 DEF OnlyRecorded
    <2> QED  BY <2>4, <2>5
  <1>3. ASSUME NEW r \in Requests, HandshakeAnswered(r) PROVE OnlyRecorded'
    <2>1. PICK info \in Outcomes :
            /\ info = "found" <=> session[r] \in Recorded
            /\ Proceed(r, info) /\ UNCHANGED session
            /\ cache' = [i \in DOMAIN cache |-> Settled(cache[i], r, info)]
      BY <1>3 DEF HandshakeAnswered, Outcomes
    <2>2. /\ DOMAIN cache' = DOMAIN cache
          /\ \A i \in DOMAIN cache :
               /\ cache'[i].key = cache[i].key
               /\ IF cache[i].by = r /\ cache[i].value = "pending"
                  THEN cache'[i].value = info
                  ELSE cache'[i].value = cache[i].value
      BY <2>1, SettledEntries DEF Inv
    <2>3. \A i \in DOMAIN cache :
            cache[i].by = r /\ cache[i].value = "pending" =>
              cache[i].key = session[r]
      BY DEF Inv, EntriesTell
    <2>4. \A i \in DOMAIN cache' :
            cache'[i].value = "found" => cache'[i].key \in Recorded
      BY <2>1, <2>2, <2>3 DEF OnlyRecorded
    <2>5. \A q \in Requests : Awaits(q, r) => session[q] = session[r]
      BY DEF Inv, RequestsTell, Awaits
    <2>6. \A q \in Requests :
            phase'[q] = IF Awaits(q, r) THEN After(info) ELSE phase[q]
      BY <2>1 DEF Proceed
    <2>7. After(info) \in {"replayed", "lookup"} => info = "found"
      BY DEF After
    <2> QED  BY <2>1, <2>4, <2>5, <2>6, <2>7 DEF OnlyRecorded
  <1>4. ASSUME NEW r \in Requests, HandshakeFails(r) PROVE OnlyRecorded'
    <2>1. /\ Forget(r) /\ UNCHANGED session
          /\ \A q \in Requests :
               phase'[q] = IF Awaits(q, r) THEN "live" ELSE phase[q]
      BY <1>4 DEF HandshakeFails, Proceed, After
    <2>2. \A j \in DOMAIN cache' : \E i \in DOMAIN cache : cache'[j] = cache[i]
      BY <2>1, ForgetEntries DEF Inv
    <2> QED  BY <2>1, <2>2 DEF OnlyRecorded
  <1>5. ASSUME NEW r \in Requests, Call(r) \/ LookupEnds(r) \/ Respond(r)
        PROVE  OnlyRecorded'
    <2>1. /\ UNCHANGED <<cache, session>>
          /\ \A q \in Requests : q # r => phase'[q] = phase[q]
          /\ phase'[r] \in {"replayed", "lookup"} =>
               phase[r] \in {"replayed", "lookup"}
      BY <1>5 DEF Call, LookupEnds, Respond, Inv, TypeOK
    <2> QED  BY <2>1 DEF OnlyRecorded
  <1> QED  BY <1>1, <1>2, <1>3, <1>4, <1>5 DEF Next

\* Requests of sessions the sidecar holds no mocks for, and requests whose
\* handshake failed, are never served from mocks (resolveReplayContext of
\* with-meticulous.ts).
THEOREM OthersUntouched == Spec => []OnlyRecorded
  <1>1. Init => OnlyRecorded
    <2> SUFFICES ASSUME Init PROVE OnlyRecorded
      OBVIOUS
    <2>1. DOMAIN cache = {}
      BY EmptySeq DEF Init
    <2>2. \A r \in Requests : phase[r] = "idle"
      BY DEF Init
    <2> QED  BY <2>1, <2>2 DEF OnlyRecorded
  <1> QED  BY <1>1, OnlyRecordedNext, Invariance, PTL DEF Spec
=============================================================================
