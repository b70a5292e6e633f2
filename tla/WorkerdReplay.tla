--------------------------- MODULE WorkerdReplay ---------------------------
(***************************************************************************)
(* Replay of requests inside one isolate of the instrumented Worker:       *)
(* with-meticulous.ts, the replay calls of sidecar-client.ts, fetch-patch  *)
(* .ts and replay-fetch.ts of packages/backend-recorder-workerd/src.       *)
(*                                                                         *)
(* Requests of many sessions interleave.  The first of a session asks the  *)
(* replay sidecar whether it holds mocks for the session; the promise is   *)
(* kept in a bounded cache that the isolate's other requests share.  A     *)
(* request that is replayed serves its outbound calls from the sidecar;    *)
(* any other runs as if the shim were not there.  The sidecar comes and    *)
(* goes.  All sessions are of one sidecar.                                 *)
(***************************************************************************)
EXTENDS Integers, Sequences, SequencesExt, FiniteSets

CONSTANTS Requests,   \* requests in flight at once
          Sessions,   \* frontendSessionId of requests with replay headers
          Recorded,   \* those the sidecar holds mocks for
          MaxCached   \* MAX_CACHED_SESSIONS

ASSUME ConstantsAssumption ==
  /\ Sessions # {} /\ Recorded \subseteq Sessions
  /\ MaxCached \in Nat \ {0}

VARIABLES
  up,        \* the sidecar answers
  cache,     \* replaySessionInfoCache, in the order of its Map
  session,   \* each request: its session
  phase,     \* and where it is
  asker,     \* and the request whose handshake it awaits
  failed,    \* and whether that handshake failed it
  real,      \* and whether an unmarked call of it reached the real service
  evicted    \* sessions the cache once dropped for others

vars == <<up, cache, session, phase, asker, failed, real, evicted>>

Outcomes == {"found", "unavailable"}
Entries  == [key : Sessions, by : Requests, value : {"pending"} \cup Outcomes]
\* An entry: a promise, pending on the handshake of the request by.
Entry(s, by) == [key |-> s, by |-> by, value |-> "pending"]
Phases == {"idle", "awaiting", "replayed", "lookup", "live"}

TypeOK ==
  /\ up \in BOOLEAN
  /\ cache \in Seq(Entries)
  /\ session \in [Requests -> Sessions] /\ phase \in [Requests -> Phases]
  /\ asker \in [Requests -> Requests]
  /\ failed \in [Requests -> BOOLEAN] /\ real \in [Requests -> BOOLEAN]
  /\ evicted \subseteq Sessions

Init ==
  /\ up \in BOOLEAN /\ cache = <<>> /\ evicted = {}
  /\ session \in [Requests -> {CHOOSE s \in Sessions : TRUE}]
  /\ phase = [r \in Requests |-> "idle"]
  /\ asker = [r \in Requests |-> r]
  /\ failed = [r \in Requests |-> FALSE] /\ real = failed

SidecarComesOrGoes ==
  /\ up' = ~up
  /\ UNCHANGED <<cache, session, phase, asker, failed, real, evicted>>

-----------------------------------------------------------------------------
(* getCachedReplaySessionInfo.                                             *)

Cached(s)   == {i \in DOMAIN cache : cache[i].key = s}
After(info) == IF info = "found" THEN "replayed" ELSE "live"

\* The promise in the cache is shared, settled or not.
UseCached(r, s) ==
  \E i \in Cached(s) :
    /\ IF cache[i].value = "pending"
       THEN /\ phase' = [phase EXCEPT ![r] = "awaiting"]
            /\ asker' = [asker EXCEPT ![r] = cache[i].by]
       ELSE /\ phase' = [phase EXCEPT ![r] = After(cache[i].value)]
            /\ UNCHANGED asker
    /\ UNCHANGED <<cache, evicted>>

\* Mutated form of Remember: the answer is cached, not its promise.
Remember_Nothing(r, s) == UNCHANGED <<cache, evicted>>

\* A new entry pushes the oldest out of a full cache.
Remember(r, s) ==
  LET full == Len(cache) >= MaxCached IN
  /\ cache' = Append(IF full THEN Tail(cache) ELSE cache, Entry(s, r))
  /\ evicted' = IF full THEN evicted \cup {Head(cache).key} ELSE evicted

Ask(r, s) ==
  /\ phase' = [phase EXCEPT ![r] = "awaiting"]
  /\ asker' = [asker EXCEPT ![r] = r]
  /\ Remember(r, s)

Arrive(r) ==
  /\ phase[r] = "idle"
  /\ \E s \in Sessions :
       /\ session' = [session EXCEPT ![r] = s]
       /\ IF Cached(s) # {} THEN UseCached(r, s) ELSE Ask(r, s)
  /\ UNCHANGED <<up, failed, real>>

Awaits(q, r) == phase[q] = "awaiting" /\ asker[q] = r

\* Everyone who awaits the promise goes on.
Proceed(r, info) ==
  phase' = [q \in Requests |-> IF Awaits(q, r) THEN After(info) ELSE phase[q]]

\* An entry once the handshake of r is answered.
Settled(e, r, info) ==
  IF e.by = r /\ e.value = "pending" THEN [e EXCEPT !.value = info] ELSE e

HandshakeAnswered(r) ==
  LET info == IF session[r] \in Recorded THEN "found" ELSE "unavailable" IN
  /\ Awaits(r, r) /\ up
  /\ Proceed(r, info)
  /\ cache' = [i \in DOMAIN cache |-> Settled(cache[i], r, info)]
  /\ UNCHANGED <<up, session, asker, failed, real, evicted>>

\* Mutated form of Forget: a failure is an answer like any other.
Forget_Never(r) ==
  cache' = [i \in DOMAIN cache |-> Settled(cache[i], r, "unavailable")]

\* The entry of the key goes, whosever promise it holds by now.
Forget(r) ==
  LET mine == Cached(session[r]) IN
  IF mine = {} THEN UNCHANGED cache
  ELSE \E i \in mine : cache' = RemoveAt(cache, i)

\* A timeout, a transport error, a 5xx.
HandshakeFails(r) ==
  /\ Awaits(r, r) /\ ~up
  /\ Proceed(r, "unreachable")
  /\ failed' = [q \in Requests |-> failed[q] \/ Awaits(q, r)]
  /\ Forget(r)
  /\ UNCHANGED <<up, session, asker, real, evicted>>

-----------------------------------------------------------------------------
(* patchedFetch and replayOutboundCall.                                    *)

\* An outbound call.  One marked as a passthrough goes to its service and is
\* left out.
Call(r) ==
  \/ /\ phase[r] = "replayed"
     /\ phase' = [phase EXCEPT ![r] = "lookup"]
     /\ UNCHANGED <<up, cache, session, asker, failed, real, evicted>>
  \/ /\ phase[r] = "live" /\ ~real[r]
     /\ real' = [real EXCEPT ![r] = TRUE]
     /\ UNCHANGED <<up, cache, session, phase, asker, failed, evicted>>

\* Mutated form of Unanswered: without an answer the call goes through.
Unanswered_Live(r) == ~up /\ real' = [real EXCEPT ![r] = TRUE]

\* The call fails: no answer is no evidence that a real call is safe.
Unanswered(r) == ~up /\ UNCHANGED real

\* A mock, or a failure: a miss, or a mock that cannot be represented.
LookupEnds(r) ==
  /\ phase[r] = "lookup"
  /\ (up /\ UNCHANGED real) \/ Unanswered(r)
  /\ phase' = [phase EXCEPT ![r] = "replayed"]
  /\ UNCHANGED <<up, cache, session, asker, failed, evicted>>

\* The handler's response.
Respond(r) ==
  /\ phase[r] \in {"replayed", "live"}
  /\ phase' = [phase EXCEPT ![r] = "idle"]
  /\ asker' = [asker EXCEPT ![r] = r]
  /\ failed' = [failed EXCEPT ![r] = FALSE]
  /\ real' = [real EXCEPT ![r] = FALSE]
  /\ UNCHANGED <<up, cache, session, evicted>>

Next ==
  \/ SidecarComesOrGoes
  \/ \E r \in Requests :
       \/ Arrive(r) \/ HandshakeAnswered(r) \/ HandshakeFails(r)
       \/ Call(r) \/ LookupEnds(r) \/ Respond(r)

Spec == Init /\ [][Next]_vars

\* The handshake and the lookup are bounded by timeouts, and the handler
\* comes to its response.
FairSpec ==
  Spec /\ \A r \in Requests :
            /\ WF_vars(HandshakeAnswered(r) \/ HandshakeFails(r))
            /\ WF_vars(LookupEnds(r)) /\ SF_vars(Respond(r))

-----------------------------------------------------------------------------
(* Properties.                                                             *)

\* Live traffic of a session the sidecar can replay needs a failure of the
\* very handshake the request waited for: neither a failure of another
\* request, remembered or shared late, nor one of the sidecar during a lookup
\* lets a call reach the real service.
HermeticReplay ==
  \A r \in Requests : real[r] /\ session[r] \in Recorded => failed[r]

\* Concurrent first requests share one round trip: a session has two under
\* way only after the full cache dropped it.
HandshakeIsShared ==
  \A s \in Sessions \ evicted :
    Cardinality({r \in Requests : Awaits(r, r) /\ session[r] = s}) <= 1

\* Once the sidecar stays up, requests of the sessions it holds are replayed
\* for good, whatever failed before.
RecoversAfterBlip ==
  <>[]up => <>[](\A r \in Requests : session[r] \in Recorded => phase[r] # "live")
=============================================================================
