--------------------------- MODULE RecorderSession ---------------------------
(***************************************************************************)
(* The Durable Object that owns a recorded backend session                 *)
(* (backend-recorder-sidecar-worker/src/recorder-session-object.ts), with  *)
(* the upload of one chunk (session-store.ts) and the S3 bucket it writes. *)
(*                                                                         *)
(* Durable storage  : batches, seq, session, alarm.                        *)
(* Memory           : gate, call, mem (lost when the object is evicted).   *)
(* S3               : metadata, chunks, marked.                            *)
(* Observation only : accepted, discarded, faults, minted.                 *)
(*                                                                         *)
(* The runtime around the object is external to the repository.  What is   *)
(* used of it: no other event is delivered while the object waits for its  *)
(* own storage ("gate"), events are delivered while it waits for an S3     *)
(* fetch; an alarm is cleared when its handler starts, never runs twice at *)
(* once, and is delivered again when the handler dies.                     *)
(*                                                                         *)
(* A batch is the number its events were accepted under; 0 stands for a    *)
(* batch none of whose events builds a span.                               *)
(***************************************************************************)
EXTENDS Integers, FiniteSets

CONSTANTS
    Alarm,                     \* the alarm handler
    Flushers,                  \* the /flush requests that may be served
    MAX_BATCHES_PER_FLUSH,
    MAX_CHUNKS,
    MAX_SESSION_TIME,          \* in clock ticks
    MAX_CONSECUTIVE_FAILURES,
    ABANDON_COOLDOWN,          \* in clock ticks
    MaxGroups,                 \* most groups one report is split into
    MaxSeq,                    \* bound: batches stored in a behaviour
    MaxTime,                   \* bound: clock ticks in a behaviour
    MaxFaults                  \* bound: evictions and storage errors

Handlers == {Alarm} \cup Flushers

ASSUME ConstantsAssumption ==
    /\ MAX_BATCHES_PER_FLUSH \in Nat \ {0}
    /\ MAX_CHUNKS \in Nat \ {0}
    /\ MAX_SESSION_TIME \in Nat \ {0}
    /\ MAX_CONSECUTIVE_FAILURES \in Nat \ {0}
    /\ ABANDON_COOLDOWN \in Nat
    /\ MaxGroups \in Nat \ {0}
    /\ {MaxSeq, MaxTime, MaxFaults} \subseteq Nat
    /\ Alarm \notin Flushers
    /\ {"open", "append"} \cap Handlers = {}

VARIABLES
    batches,    \* pending batches: key number -> batch
    seq,        \* NEXT_SEQ_KEY
    session,    \* STATE_KEY; id 0 when the key is absent
    alarm,      \* whether an alarm is scheduled (its time is abstracted)
    gate,       \* "open", or who is inside a run of storage operations
    call,       \* call[h]: where handler h stands in drain()
    mem,        \* mem[h]: the locals of h's drain()
    metadata,   \* sessions whose metadata.json exists
    chunks,     \* chunk objects
    marked,     \* sessions whose abandoned.json exists
    now,        \* clock, in ticks
    minted,     \* session ids generated so far
    accepted,   \* batches with spans acknowledged so far
    discarded,  \* <<batch, session>>: batches deleted without an upload
    faults      \* evictions and storage errors so far

storageVars == <<batches, seq, session, alarm>>
s3Vars == <<metadata, chunks, marked>>
vars == <<storageVars, gate, call, mem, s3Vars,
          now, minted, accepted, discarded, faults>>

-----------------------------------------------------------------------------
(* Session state and the helpers of session-store.ts. *)

Phases == {"idle", "metadata", "chunk", "marker",
           "save", "delete", "drop", "rearm"}

SessionState ==
    [id : Nat, startedAt : Nat, chunkIndex : 0..MAX_CHUNKS,
     metadataUploaded : BOOLEAN, failures : 0..MAX_CONSECUTIVE_FAILURES,
     abandoned : BOOLEAN, abandonedAt : Nat]

NewSession(id, t) ==
    [id |-> id, startedAt |-> t, chunkIndex |-> 0, metadataUploaded |-> FALSE,
     failures |-> 0, abandoned |-> FALSE, abandonedAt |-> 0]

NoSession == NewSession(0, 0)

(* Mutated form of CooldownElapsed: the back-off is forgotten. *)
CooldownIgnored(s) == TRUE

CooldownElapsed(s) == now - s.abandonedAt >= ABANDON_COOLDOWN

(* Mutated form of SessionFull: one chunk too many. *)
SessionFullLate(s) ==
    \/ s.chunkIndex > MAX_CHUNKS
    \/ now - s.startedAt >= MAX_SESSION_TIME

SessionFull(s) ==
    \/ s.chunkIndex >= MAX_CHUNKS
    \/ now - s.startedAt >= MAX_SESSION_TIME

(* Mutated form of FailedChunk: a failed write still uses up its number. *)
FailedChunkNumbered(s) ==
    [s EXCEPT !.failures = @ + 1,
              !.chunkIndex = IF @ + 1 < MAX_CHUNKS THEN @ + 1 ELSE @]

FailedChunk(s) == [s EXCEPT !.failures = @ + 1]

Idle == [keys |-> {}, events |-> {}, at |-> 0,
         state |-> NoSession, uploaded |-> FALSE]

Locals ==
    [keys : SUBSET Nat, events : SUBSET Nat, at : Nat,
     state : SessionState, uploaded : BOOLEAN]

ChunkObjects ==
    [session : Nat, index : 1..MAX_CHUNKS, events : SUBSET Nat]

Chunk(s, i, E) == [session |-> s, index |-> i, events |-> E]

(* An S3 PUT: an object already under that key is replaced. *)
PutChunk(c) ==
    {c} \cup
    {d \in chunks : d.session # c.session \/ d.index # c.index}

(* Mutated form of FirstBatches: newest first. *)
LastBatches ==
    {k \in DOMAIN batches :
        Cardinality({j \in DOMAIN batches : j > k}) < MAX_BATCHES_PER_FLUSH}

(* The first keys in key order, as list({limit}) returns them. *)
FirstBatches ==
    {k \in DOMAIN batches :
        Cardinality({j \in DOMAIN batches : j < k}) < MAX_BATCHES_PER_FLUSH}

SpansIn(K) == {batches[k] : k \in K \cap DOMAIN batches} \ {0}

Without(K) == [k \in DOMAIN batches \ K |-> batches[k]]

(* Mutated form of NextSeq: the counter counts reports, not groups. *)
NextSeqPerReport(n) == seq + 1

NextSeq(n) == seq + n

(* Mutated form of AlarmAfterDrain: what arrived meanwhile is forgotten. *)
AlarmNotRearmed == alarm

AlarmAfterDrain == alarm \/ DOMAIN batches # {}

Finish(h) ==
    /\ call' = [call EXCEPT ![h] = "idle"]
    /\ mem' = [mem EXCEPT ![h] = Idle]
    /\ gate' = "open"

-----------------------------------------------------------------------------
Init ==
    /\ batches = [k \in {} |-> 0]
    /\ seq = 0
    /\ session = NoSession
    /\ alarm = FALSE
    /\ gate = "open"
    /\ call = [h \in Handlers |-> "idle"]
    /\ mem = [h \in Handlers |-> Idle]
    /\ metadata = {} /\ chunks = {} /\ marked = {}
    /\ now = 0 /\ minted = 0 /\ accepted = 0 /\ discarded = {} /\ faults = 0

(* append(), up to setAlarm: an alarm exists before anything is written. *)
ArmForReport ==
    /\ gate = "open"
    /\ seq < MaxSeq
    /\ alarm' = TRUE
    /\ gate' = "append"
    /\ UNCHANGED <<batches, seq, session, call, mem, s3Vars,
                   now, minted, accepted, discarded, faults>>

(* append(), the one put of the groups of the report and the counter. *)
StoreReport ==
    /\ gate = "append"
    /\ \E n \in 1..MaxGroups, spans \in BOOLEAN :
        /\ batches' = [k \in DOMAIN batches \cup seq..(seq + n - 1) |->
                         IF k < seq THEN batches[k]
                         ELSE IF spans THEN accepted + 1 + k - seq ELSE 0]
        /\ seq' = NextSeq(n)
        /\ accepted' = IF spans THEN accepted + n ELSE accepted
    /\ gate' = "open"
    /\ UNCHANGED <<session, alarm, call, mem, s3Vars,
                   now, minted, discarded, faults>>

(* append() throws: the report is answered 500. *)
FailReport ==
    /\ gate = "append"
    /\ faults < MaxFaults
    /\ faults' = faults + 1
    /\ gate' = "open"
    /\ UNCHANGED <<storageVars, call, mem, s3Vars,
                   now, minted, accepted, discarded>>

-----------------------------------------------------------------------------
(* The head of drain() and of flushChunk(), up to the first S3 write. *)
BeginDrain(h) ==
    LET keys    == FirstBatches
        events  == SpansIn(keys)
        fresh   == NewSession(minted + 1, now)
        stored  == IF session.id = 0 THEN fresh ELSE session
        blocked == stored.abandoned /\ ~CooldownElapsed(stored)
        rolled  == ~blocked /\ (stored.abandoned \/ SessionFull(stored))
        current == IF rolled THEN fresh ELSE stored
        target  == IF blocked \/ events = {} THEN "save"
                   ELSE IF current.metadataUploaded THEN "chunk"
                   ELSE "metadata"
    IN  /\ mem' = [mem EXCEPT ![h] =
                     [keys |-> keys, events |-> events, at |-> now,
                      state |-> current, uploaded |-> FALSE]]
        /\ call' = [call EXCEPT ![h] = target]
        /\ minted' = IF current.id > minted THEN minted + 1 ELSE minted

(* Delivery of the alarm, or of a /flush request. *)
Start(h) ==
    /\ gate = "open"
    /\ call[h] = "idle"
    /\ h = Alarm => alarm
    /\ alarm' = (alarm /\ h # Alarm)
    /\ IF DOMAIN batches = {}
       THEN UNCHANGED <<call, mem, minted>>
       ELSE BeginDrain(h)
    /\ UNCHANGED <<batches, seq, session, gate, s3Vars,
                   now, accepted, discarded, faults>>

(* The metadata.json write settles; a failed PUT may still have landed. *)
UploadMetadata(h) ==
    LET s == mem[h].state IN
    /\ gate = "open"
    /\ call[h] = "metadata"
    /\ \/ /\ metadata' = metadata \cup {s.id}
          /\ mem' = [mem EXCEPT ![h].state.metadataUploaded = TRUE]
          /\ call' = [call EXCEPT ![h] = "chunk"]
       \/ /\ metadata' \in {metadata, metadata \cup {s.id}}
          /\ call' = [call EXCEPT ![h] = "marker"]
          /\ UNCHANGED mem
    /\ UNCHANGED <<storageVars, gate, chunks, marked,
                   now, minted, accepted, discarded, faults>>

(* The chunk write settles; a failed PUT may still have landed. *)
UploadChunk(h) ==
    LET s == mem[h].state
        c == Chunk(s.id, s.chunkIndex + 1, mem[h].events)
    IN
    /\ gate = "open"
    /\ call[h] = "chunk"
    /\ \/ /\ chunks' = PutChunk(c)
          /\ mem' = [mem EXCEPT
                       ![h].state.chunkIndex = s.chunkIndex + 1,
                       ![h].state.failures = 0,
                       ![h].uploaded = TRUE]
          /\ call' = [call EXCEPT ![h] = "save"]
       \/ /\ chunks' \in {chunks, PutChunk(c)}
          /\ mem' = [mem EXCEPT ![h].state = FailedChunk(s)]
          /\ call' = [call EXCEPT ![h] =
                        IF s.failures + 1 >= MAX_CONSECUTIVE_FAILURES
                        THEN "marker" ELSE "save"]
    /\ UNCHANGED <<storageVars, gate, metadata, marked,
                   now, minted, accepted, discarded, faults>>

(* abandon(): a failed write of the marker is swallowed. *)
Abandon(h) ==
    /\ gate = "open"
    /\ call[h] = "marker"
    /\ marked' \in {marked, marked \cup {mem[h].state.id}}
    /\ mem' = [mem EXCEPT ![h].state.abandoned = TRUE,
                          ![h].state.abandonedAt = mem[h].at]
    /\ call' = [call EXCEPT ![h] = "save"]
    /\ UNCHANGED <<storageVars, gate, metadata, chunks,
                   now, minted, accepted, discarded, faults>>

-----------------------------------------------------------------------------
(* The tail of drain(): storage operations only, so the gate stays closed. *)

SaveState(h) ==
    /\ gate = "open"
    /\ call[h] = "save"
    /\ session' = mem[h].state
    /\ gate' = h
    /\ call' = [call EXCEPT ![h] = "delete"]
    /\ UNCHANGED <<batches, seq, alarm, mem, s3Vars,
                   now, minted, accepted, discarded, faults>>

DeleteBatches(h) ==
    LET m == mem[h] IN
    /\ gate = h
    /\ call[h] = "delete"
    /\ batches' = Without(m.keys)
    /\ discarded' = IF m.uploaded THEN discarded
                    ELSE discarded \cup (SpansIn(m.keys) \X {m.state.id})
    /\ call' = [call EXCEPT ![h] =
                  IF m.state.abandoned THEN "drop" ELSE "rearm"]
    /\ UNCHANGED <<seq, session, alarm, gate, mem, s3Vars,
                   now, minted, accepted, faults>>

(* dropEverythingPending(), one round of its loop. *)
DropEverythingPending(h) ==
    /\ gate = h
    /\ call[h] = "drop"
    /\ batches' = Without(FirstBatches)
    /\ discarded' = discarded \cup
                      (SpansIn(FirstBatches) \X {mem[h].state.id})
    /\ IF DOMAIN batches = {} THEN Finish(h) ELSE UNCHANGED <<gate, call, mem>>
    /\ UNCHANGED <<seq, session, alarm, s3Vars, now, minted, accepted, faults>>

Rearm(h) ==
    /\ gate = h
    /\ call[h] = "rearm"
    /\ alarm' = AlarmAfterDrain
    /\ Finish(h)
    /\ UNCHANGED <<batches, seq, session, s3Vars,
                   now, minted, accepted, discarded, faults>>

-----------------------------------------------------------------------------
(* A storage operation of a drain throws; the runtime retries the alarm. *)
Throw(h) ==
    /\ call[h] \in {"save", "delete", "drop", "rearm"}
    /\ gate \in {"open", h}
    /\ faults < MaxFaults
    /\ faults' = faults + 1
    /\ alarm' = (alarm \/ h = Alarm)
    /\ Finish(h)
    /\ UNCHANGED <<batches, seq, session, s3Vars,
                   now, minted, accepted, discarded>>

(* The object is evicted or crashes: memory is gone, storage stays. *)
Evict ==
    /\ faults < MaxFaults
    /\ faults' = faults + 1
    /\ alarm' = (alarm \/ call[Alarm] # "idle")
    /\ gate' = "open"
    /\ call' = [h \in Handlers |-> "idle"]
    /\ mem' = [h \in Handlers |-> Idle]
    /\ UNCHANGED <<batches, seq, session, s3Vars,
                   now, minted, accepted, discarded>>

Tick ==
    /\ now < MaxTime
    /\ now' = now + 1
    /\ UNCHANGED <<storageVars, gate, call, mem, s3Vars,
                   minted, accepted, discarded, faults>>

DrainStep(h) ==
    \/ UploadMetadata(h) \/ UploadChunk(h) \/ Abandon(h)
    \/ SaveState(h) \/ DeleteBatches(h) \/ DropEverythingPending(h)
    \/ Rearm(h)

Next ==
    \/ ArmForReport \/ StoreReport \/ FailReport
    \/ \E h \in Handlers : Start(h) \/ DrainStep(h) \/ Throw(h)
    \/ Evict \/ Tick

(* Storage and S3 requests settle, and a scheduled alarm is delivered. *)
Fairness ==
    /\ WF_vars(StoreReport)
    /\ SF_vars(Start(Alarm))
    /\ \A h \in Handlers : SF_vars(DrainStep(h))

Spec == Init /\ [][Next]_vars

FairSpec == Spec /\ Fairness

-----------------------------------------------------------------------------
(* Properties. *)

InS3 == UNION {c.events : c \in chunks}

DiscardedBatches == {d[1] : d \in discarded}

PendingBatches == {batches[k] : k \in DOMAIN batches} \ {0}

StorageTypeOK ==
    /\ batches = [k \in DOMAIN batches |-> batches[k]]
    /\ DOMAIN batches \subseteq Nat
    /\ \A k \in DOMAIN batches : batches[k] \in Nat
    /\ seq \in Nat
    /\ session \in SessionState
    /\ alarm \in BOOLEAN

MemoryTypeOK ==
    /\ gate \in {"open", "append"} \cup Handlers
    /\ call \in [Handlers -> Phases]
    /\ mem \in [Handlers -> Locals]

S3TypeOK ==
    /\ metadata \subseteq Nat
    /\ marked \subseteq Nat
    /\ chunks \subseteq ChunkObjects

CountersTypeOK ==
    /\ now \in Nat
    /\ minted \in Nat
    /\ accepted \in Nat
    /\ discarded \subseteq Nat \X Nat
    /\ faults \in Nat

(* Every variable holds a value of its kind: chunk numbers stay within     *)
(* MAX_CHUNKS and failures within MAX_CONSECUTIVE_FAILURES, in the stored  *)
(* session and in the locals of every running drain.                       *)
TypeOK == StorageTypeOK /\ MemoryTypeOK /\ S3TypeOK /\ CountersTypeOK

(* Durable events always have an alarm coming or a running alarm handler   *)
(* that will re-arm it: whatever interleaving, eviction or storage error   *)
(* happens, nothing is left in storage with nobody to upload it (the       *)
(* ordering of setAlarm and put in append, the re-arming in drain).        *)
NoStranding ==
    DOMAIN batches # {} => alarm \/ call[Alarm] # "idle"

(* Ingestion can read whatever a session holds: under every chunk there is *)
(* a metadata.json, the chunk numbers of a session are 1..n without a gap, *)
(* and n is at most MAX_CHUNKS, even when drains overlap or die.           *)
IngestReadable ==
    \A c \in chunks :
        /\ c.session \in metadata
        /\ c.index \in 1..MAX_CHUNKS
        /\ \A i \in 1..(c.index - 1) :
             \E d \in chunks : d.session = c.session /\ d.index = i

(* While nothing has crashed, a batch is uploaded once and the chunks of a *)
(* session hold it in arrival order (zero-padded keys, list, delete).      *)
ChunksInOrder ==
    faults = 0 =>
        \A c, d \in chunks :
            c.session < d.session
              \/ (c.session = d.session /\ c.index < d.index) =>
                \A e \in c.events, f \in d.events :
                    e < f \/ e \in DiscardedBatches

(* After an abandonment S3 is left alone for ABANDON_COOLDOWN: no chunk    *)
(* and no metadata.json is written before, whatever arrives and whatever   *)
(* is evicted meanwhile.                                                   *)
BackoffRespected ==
    [][ (chunks' # chunks \/ metadata' # metadata) /\ session.abandoned
          => now - session.abandonedAt >= ABANDON_COOLDOWN ]_vars

(* The object implements the promise of RecordedEvents: an acknowledged    *)
(* batch is waiting, or in S3, or was given up in a way the log reports;   *)
(* and one in S3 is never overwritten away.                                *)
Promise == INSTANCE RecordedEvents WITH
    waiting <- PendingBatches,
    recorded <- InS3 \ DiscardedBatches,
    discarded <- DiscardedBatches

KeepsPromise == Promise!Spec

(* What the comments on the object and on drain() promise: a chunk index   *)
(* that is monotonic because the object is the one place it lives, and a   *)
(* chunk that may be duplicated but is never lost.                         *)
NoLostBatch ==
    1..accepted \subseteq PendingBatches \cup InS3 \cup DiscardedBatches

=============================================================================
