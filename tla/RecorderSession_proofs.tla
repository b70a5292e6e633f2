------------------------ MODULE RecorderSession_proofs ------------------------
(***************************************************************************)
(* Proofs about RecorderSession, for every value of its constants: any     *)
(* number of overlapping /flush requests, any caps, any number of          *)
(* evictions and storage errors.                                           *)
(***************************************************************************)
EXTENDS RecorderSession, TLAPS, FiniteSetTheorems

(* What keeps TypeOK inductive: a drain that is about to write a chunk     *)
(* works on a live session with room for one more chunk and one more       *)
(* failure, and only an abandoned session has used up its failures.        *)
Live(s) == s.failures < MAX_CONSECUTIVE_FAILURES

Room(s) == ~s.abandoned /\ Live(s) /\ s.chunkIndex < MAX_CHUNKS

PhaseOK ==
    /\ session.abandoned \/ Live(session)
    /\ \A h \in Handlers :
        /\ call[h] \in {"metadata", "chunk"} => Room(mem[h].state)
        /\ call[h] # "marker" => mem[h].state.abandoned \/ Live(mem[h].state)

TypeInv == TypeOK /\ PhaseOK

LEMMA FreshSession ==
    ASSUME NEW i \in Nat, NEW t \in Nat
    PROVE  /\ NewSession(i, t) \in SessionState
           /\ Room(NewSession(i, t))
  BY ConstantsAssumption DEF NewSession, SessionState, Room, Live

LEMMA IdleIsLocal == Idle \in Locals /\ Live(Idle.state)
  <1>1. NoSession \in SessionState /\ Live(NoSession)
    BY FreshSession DEF NoSession, Room
  <1> QED  BY <1>1 DEF Idle, Locals

LEMMA BatchesAreNumbers ==
    ASSUME StorageTypeOK, NEW K
    PROVE  /\ FirstBatches \subseteq Nat
           /\ SpansIn(K) \subseteq Nat
           /\ DOMAIN Without(K) = DOMAIN batches \ K
           /\ Without(K) = [k \in DOMAIN Without(K) |-> Without(K)[k]]
           /\ \A k \in DOMAIN Without(K) : Without(K)[k] \in Nat
  BY DEF StorageTypeOK, FirstBatches, SpansIn, Without

LEMMA TypeInvInit == Init => TypeInv
  <1> SUFFICES ASSUME Init PROVE TypeInv
    OBVIOUS
  <1>1. NoSession \in SessionState /\ Live(NoSession)
    BY FreshSession DEF NoSession, Room
  <1>2. StorageTypeOK
    BY <1>1 DEF Init, StorageTypeOK
  <1>3. MemoryTypeOK
    BY IdleIsLocal DEF Init, MemoryTypeOK, Phases
  <1>4. S3TypeOK /\ CountersTypeOK
    BY DEF Init, S3TypeOK, CountersTypeOK
  <1>5. PhaseOK
    BY <1>1, IdleIsLocal DEF Init, PhaseOK
  <1> QED  BY <1>2, <1>3, <1>4, <1>5 DEF TypeInv, TypeOK

-----------------------------------------------------------------------------
(* The steps of a report. *)

LEMMA TypeInvReport ==
    ASSUME TypeInv, ArmForReport \/ StoreReport \/ FailReport
    PROVE  TypeInv'
  <1> USE DEF TypeInv, TypeOK
  <1>1. CASE ArmForReport
    BY <1>1 DEF ArmForReport, StorageTypeOK, MemoryTypeOK, S3TypeOK,
                CountersTypeOK, PhaseOK, Live, Room, s3Vars
  <1>2. CASE StoreReport
    <2>1. PICK n \in 1..MaxGroups, spans \in BOOLEAN :
            /\ batches' = [k \in DOMAIN batches \cup seq..(seq + n - 1) |->
                             IF k < seq THEN batches[k]
                             ELSE IF spans THEN accepted + 1 + k - seq ELSE 0]
            /\ seq' = NextSeq(n)
            /\ accepted' = IF spans THEN accepted + n ELSE accepted
      BY <1>2 DEF StoreReport
    <2>2. seq' \in Nat /\ accepted' \in Nat
      BY <2>1, ConstantsAssumption DEF NextSeq, StorageTypeOK, CountersTypeOK
    <2>3. /\ batches' = [k \in DOMAIN batches' |-> batches'[k]]
          /\ DOMAIN batches' \subseteq Nat
      BY <2>1, ConstantsAssumption DEF StorageTypeOK
    <2>4. \A k \in DOMAIN batches' : batches'[k] \in Nat
      BY <2>1, ConstantsAssumption DEF StorageTypeOK, CountersTypeOK
    <2>5. StorageTypeOK'
      BY <1>2, <2>2, <2>3, <2>4 DEF StoreReport, StorageTypeOK
    <2>6. (MemoryTypeOK /\ S3TypeOK /\ CountersTypeOK /\ PhaseOK)'
      BY <1>2, <2>2 DEF StoreReport, MemoryTypeOK, S3TypeOK, CountersTypeOK,
                        PhaseOK, Live, Room, s3Vars
    <2> QED  BY <2>5, <2>6
  <1>3. CASE FailReport
    BY <1>3 DEF FailReport, StorageTypeOK, MemoryTypeOK, S3TypeOK,
                CountersTypeOK, PhaseOK, Live, Room, s3Vars, storageVars
  <1> QED  BY <1>1, <1>2, <1>3

-----------------------------------------------------------------------------
(* The steps of a drain up to the end of its S3 writes. *)

LEMMA TypeInvStart ==
    ASSUME TypeInv, NEW h \in Handlers, Start(h)
    PROVE  TypeInv'
  <1> USE DEF TypeInv, TypeOK
  <1>1. (StorageTypeOK /\ S3TypeOK)'
    BY DEF Start, StorageTypeOK, S3TypeOK, s3Vars
  <1>2. CASE DOMAIN batches = {}
    BY <1>1, <1>2 DEF Start, MemoryTypeOK, CountersTypeOK, PhaseOK, Live, Room
  <1>3. CASE DOMAIN batches # {}
    <2> DEFINE keys    == FirstBatches
               events  == SpansIn(keys)
               fresh   == NewSession(minted + 1, now)
               stored  == IF session.id = 0 THEN fresh ELSE session
               blocked == stored.abandoned /\ ~CooldownElapsed(stored)
               rolled  == ~blocked /\ (stored.abandoned \/ SessionFull(stored))
               current == IF rolled THEN fresh ELSE stored
               target  == IF blocked \/ events = {} THEN "save"
                          ELSE IF current.metadataUploaded THEN "chunk"
                          ELSE "metadata"
               locals  == [keys |-> keys, events |-> events, at |-> now,
                           state |-> current, uploaded |-> FALSE]
    <2>1. /\ mem' = [mem EXCEPT ![h] = locals]
          /\ call' = [call EXCEPT ![h] = target]
          /\ minted' \in {minted, minted + 1}
      BY <1>3 DEF Start, BeginDrain
    <2>2. fresh \in SessionState /\ Room(fresh)
      BY FreshSession DEF CountersTypeOK
    <2>3. stored \in SessionState /\ (stored.abandoned \/ Live(stored))
      BY <2>2 DEF StorageTypeOK, PhaseOK, Room
    <2>4. /\ current \in SessionState
          /\ current.abandoned \/ Live(current)
          /\ blocked \/ Room(current)
      <3>1. CASE rolled
        BY <3>1, <2>2 DEF Room
      <3>2. CASE ~rolled
        <4>1. ~blocked => ~stored.abandoned /\ stored.chunkIndex < MAX_CHUNKS
          BY <3>2, <2>3, ConstantsAssumption DEF SessionFull, SessionState
        <4> QED  BY <3>2, <4>1, <2>3 DEF Room
      <3> QED  BY <3>1, <3>2
    <2>5. locals \in Locals
      <3>1. keys \in SUBSET Nat /\ events \in SUBSET Nat
        BY BatchesAreNumbers
      <3> HIDE DEF current, keys, events
      <3> QED  BY <2>4, <3>1 DEF Locals, StorageTypeOK, CountersTypeOK
    <2>6. target \in Phases /\ (target \in {"metadata", "chunk"} => ~blocked)
      BY DEF Phases
    <2>7. locals.state = current
      OBVIOUS
    <2> HIDE DEF current, target, locals, blocked
    <2>8. (MemoryTypeOK /\ CountersTypeOK)'
      BY <2>1, <2>5, <2>6 DEF Start, MemoryTypeOK, CountersTypeOK
    <2>9. PhaseOK'
      BY <2>1, <2>4, <2>6, <2>7
         DEF Start, PhaseOK, MemoryTypeOK, Live, Room
    <2> QED  BY <1>1, <2>8, <2>9
  <1> QED  BY <1>2, <1>3

LEMMA TypeInvUploadMetadata ==
    ASSUME TypeInv, NEW h \in Handlers, UploadMetadata(h)
    PROVE  TypeInv'
  <1> USE DEF TypeInv, TypeOK
  <1> DEFINE s == mem[h].state
  <1>1. s \in SessionState /\ Room(s) /\ call[h] = "metadata"
    BY DEF UploadMetadata, MemoryTypeOK, Locals, PhaseOK
  <1>2. metadata' \subseteq Nat
    BY <1>1 DEF UploadMetadata, S3TypeOK, SessionState
  <1>3. (StorageTypeOK /\ S3TypeOK /\ CountersTypeOK)'
    BY <1>2 DEF UploadMetadata, storageVars, StorageTypeOK, S3TypeOK,
                CountersTypeOK
  <1>4. CASE /\ mem' = [mem EXCEPT ![h].state.metadataUploaded = TRUE]
             /\ call' = [call EXCEPT ![h] = "chunk"]
    <2> DEFINE r == [s EXCEPT !.metadataUploaded = TRUE]
    <2>1. r \in SessionState /\ Room(r)
      BY <1>1 DEF SessionState, Room, Live
    <2>2. mem' = [mem EXCEPT ![h] = [mem[h] EXCEPT !.state = r]]
      BY <1>4 DEF MemoryTypeOK, Locals
    <2> HIDE DEF r
    <2>3. [mem[h] EXCEPT !.state = r] \in Locals
      BY <2>1 DEF MemoryTypeOK, Locals
    <2>4. mem'[h].state = r
      BY <2>2 DEF MemoryTypeOK, Locals
    <2>5. MemoryTypeOK'
      BY <1>4, <2>2, <2>3 DEF UploadMetadata, MemoryTypeOK, Phases
    <2>6. PhaseOK'
      BY <1>4, <2>1, <2>2, <2>4
         DEF UploadMetadata, storageVars, MemoryTypeOK, PhaseOK, Live, Room
    <2> QED  BY <1>3, <2>5, <2>6
  <1>5. CASE call' = [call EXCEPT ![h] = "marker"] /\ UNCHANGED mem
    BY <1>3, <1>5
       DEF UploadMetadata, storageVars, MemoryTypeOK, Phases, PhaseOK, Live, Room
  <1> QED  BY <1>4, <1>5 DEF UploadMetadata

LEMMA PutChunkIsChunks ==
    ASSUME TypeOK, NEW h \in Handlers, Room(mem[h].state)
    PROVE  PutChunk(Chunk(mem[h].state.id, mem[h].state.chunkIndex + 1,
                          mem[h].events)) \subseteq ChunkObjects
  <1>1. mem[h].state \in SessionState /\ mem[h].events \in SUBSET Nat
    BY DEF TypeOK, MemoryTypeOK, Locals
  <1>2. mem[h].state.chunkIndex + 1 \in 1..MAX_CHUNKS
    BY <1>1, ConstantsAssumption DEF SessionState, Room
  <1>3. Chunk(mem[h].state.id, mem[h].state.chunkIndex + 1, mem[h].events)
          \in ChunkObjects
    BY <1>1, <1>2 DEF Chunk, ChunkObjects, SessionState
  <1> QED  BY <1>3 DEF PutChunk, TypeOK, S3TypeOK

LEMMA TypeInvUploadChunk ==
    ASSUME TypeInv, NEW h \in Handlers, UploadChunk(h)
    PROVE  TypeInv'
  <1> USE DEF TypeInv, TypeOK
  <1> DEFINE s == mem[h].state
  <1>1. s \in SessionState /\ Room(s) /\ call[h] = "chunk"
    BY DEF UploadChunk, MemoryTypeOK, Locals, PhaseOK
  <1>2. chunks' \subseteq ChunkObjects
    BY <1>1, PutChunkIsChunks DEF UploadChunk, S3TypeOK
  <1>3. (StorageTypeOK /\ S3TypeOK /\ CountersTypeOK)'
    BY <1>2 DEF UploadChunk, storageVars, StorageTypeOK, S3TypeOK,
                CountersTypeOK
  <1>4. CASE /\ mem' = [mem EXCEPT
                          ![h].state.chunkIndex = s.chunkIndex + 1,
                          ![h].state.failures = 0,
                          ![h].uploaded = TRUE]
             /\ call' = [call EXCEPT ![h] = "save"]
    <2> DEFINE r == [s EXCEPT !.chunkIndex = s.chunkIndex + 1, !.failures = 0]
               m == [mem[h] EXCEPT !.state = r, !.uploaded = TRUE]
    <2>1. /\ s.chunkIndex + 1 \in 0..MAX_CHUNKS
          /\ 0 \in 0..MAX_CONSECUTIVE_FAILURES
          /\ 0 < MAX_CONSECUTIVE_FAILURES
      BY <1>1, ConstantsAssumption DEF SessionState, Room
    <2>2. r \in SessionState /\ r.failures = 0
      BY <1>1, <2>1 DEF SessionState
    <2>3. Live(r)
      BY <2>1, <2>2 DEF Live
    <2>4. mem' = [mem EXCEPT ![h] = m]
      BY <1>4 DEF MemoryTypeOK, Locals
    <2> HIDE DEF r
    <2>5. m \in Locals /\ m.state = r
      BY <2>2 DEF MemoryTypeOK, Locals
    <2> HIDE DEF m
    <2>6. MemoryTypeOK'
      BY <1>4, <2>4, <2>5 DEF UploadChunk, MemoryTypeOK, Phases
    <2>7. PhaseOK'
      BY <1>4, <2>3, <2>4, <2>5
         DEF UploadChunk, storageVars, MemoryTypeOK, PhaseOK, Live, Room
    <2> QED  BY <1>3, <2>6, <2>7
  <1>5. CASE /\ mem' = [mem EXCEPT ![h].state = FailedChunk(s)]
             /\ call' = [call EXCEPT ![h] =
                           IF s.failures + 1 >= MAX_CONSECUTIVE_FAILURES
                           THEN "marker" ELSE "save"]
    <2> DEFINE r == FailedChunk(s)
               m == [mem[h] EXCEPT !.state = r]
    <2>1. /\ r \in SessionState
          /\ s.failures + 1 >= MAX_CONSECUTIVE_FAILURES \/ Live(r)
      BY <1>1, ConstantsAssumption DEF SessionState, Room, Live, FailedChunk
    <2>2. mem' = [mem EXCEPT ![h] = m]
      BY <1>5 DEF MemoryTypeOK, Locals
    <2> HIDE DEF r
    <2>3. m \in Locals /\ m.state = r
      BY <2>1 DEF MemoryTypeOK, Locals
    <2> HIDE DEF m
    <2>4. MemoryTypeOK'
      BY <1>5, <2>2, <2>3 DEF UploadChunk, MemoryTypeOK, Phases
    <2>5. PhaseOK'
      BY <1>5, <2>1, <2>2, <2>3
         DEF UploadChunk, storageVars, MemoryTypeOK, PhaseOK, Live, Room
    <2> QED  BY <1>3, <2>4, <2>5
  <1> QED  BY <1>4, <1>5 DEF UploadChunk

LEMMA TypeInvAbandon ==
    ASSUME TypeInv, NEW h \in Handlers, Abandon(h)
    PROVE  TypeInv'
  <1> USE DEF TypeInv, TypeOK
  <1> DEFINE r == [mem[h].state EXCEPT !.abandoned = TRUE,
                                       !.abandonedAt = mem[h].at]
             m == [mem[h] EXCEPT !.state = r]
  <1>1. mem[h].state \in SessionState /\ mem[h].at \in Nat
    BY DEF MemoryTypeOK, Locals
  <1>2. marked' \subseteq Nat
    BY <1>1 DEF Abandon, S3TypeOK, SessionState
  <1>3. (StorageTypeOK /\ S3TypeOK /\ CountersTypeOK)'
    BY <1>2 DEF Abandon, storageVars, StorageTypeOK, S3TypeOK, CountersTypeOK
  <1>4. r \in SessionState /\ r.abandoned
    BY <1>1 DEF SessionState
  <1>5. mem' = [mem EXCEPT ![h] = m]
    BY DEF Abandon, MemoryTypeOK, Locals
  <1> HIDE DEF r
  <1>6. m \in Locals /\ m.state = r
    BY <1>4 DEF MemoryTypeOK, Locals
  <1> HIDE DEF m
  <1>7. MemoryTypeOK'
    BY <1>5, <1>6 DEF Abandon, MemoryTypeOK, Phases
  <1>8. PhaseOK'
    BY <1>4, <1>5, <1>6
       DEF Abandon, storageVars, MemoryTypeOK, PhaseOK, Live, Room
  <1> QED  BY <1>3, <1>7, <1>8

-----------------------------------------------------------------------------
(* The storage operations at the end of a drain. *)

LEMMA FinishKeepsMemory ==
    ASSUME TypeInv, NEW h \in Handlers, Finish(h),
           UNCHANGED session
    PROVE  (MemoryTypeOK /\ PhaseOK)'
  BY IdleIsLocal
     DEF TypeInv, TypeOK, Finish, MemoryTypeOK, Phases, PhaseOK, Live, Room

LEMMA TypeInvSaveState ==
    ASSUME TypeInv, NEW h \in Handlers, SaveState(h)
    PROVE  TypeInv'
  <1> USE DEF TypeInv, TypeOK
  <1>1. /\ mem[h].state \in SessionState
        /\ mem[h].state.abandoned \/ Live(mem[h].state)
    BY DEF SaveState, MemoryTypeOK, Locals, PhaseOK
  <1>2. (StorageTypeOK /\ S3TypeOK /\ CountersTypeOK)'
    BY <1>1 DEF SaveState, s3Vars, StorageTypeOK, S3TypeOK, CountersTypeOK
  <1>3. (MemoryTypeOK /\ PhaseOK)'
    BY <1>1 DEF SaveState, MemoryTypeOK, Phases, PhaseOK, Live, Room
  <1> QED  BY <1>2, <1>3

LEMMA TypeInvDelete ==
    ASSUME TypeInv, NEW h \in Handlers, DeleteBatches(h)
    PROVE  TypeInv'
  <1> USE DEF TypeInv, TypeOK
  <1>1. mem[h].state.id \in Nat
    BY DEF MemoryTypeOK, Locals, SessionState
  <1>2. discarded' \subseteq Nat \X Nat
    BY <1>1, BatchesAreNumbers DEF DeleteBatches, CountersTypeOK
  <1>3. StorageTypeOK'
    <2>1. batches' = Without(mem[h].keys) /\ UNCHANGED <<seq, session, alarm>>
      BY DEF DeleteBatches
    <2>2. /\ DOMAIN Without(mem[h].keys) \subseteq DOMAIN batches
          /\ Without(mem[h].keys) = [k \in DOMAIN Without(mem[h].keys) |-> Without(mem[h].keys)[k]]
          /\ \A k \in DOMAIN Without(mem[h].keys) : Without(mem[h].keys)[k] \in Nat
      BY BatchesAreNumbers
    <2> QED  BY <2>1, <2>2 DEF StorageTypeOK
  <1>4. (S3TypeOK /\ CountersTypeOK)'
    BY <1>2 DEF DeleteBatches, s3Vars, S3TypeOK, CountersTypeOK
  <1>5. (MemoryTypeOK /\ PhaseOK)'
    BY DEF DeleteBatches, MemoryTypeOK, Phases, PhaseOK, Live, Room
  <1> QED  BY <1>3, <1>4, <1>5

LEMMA TypeInvDrop ==
    ASSUME TypeInv, NEW h \in Handlers, DropEverythingPending(h)
    PROVE  TypeInv'
  <1> USE DEF TypeInv, TypeOK
  <1>1. mem[h].state.id \in Nat
    BY DEF MemoryTypeOK, Locals, SessionState
  <1>2. discarded' \subseteq Nat \X Nat
    BY <1>1, BatchesAreNumbers DEF DropEverythingPending, CountersTypeOK
  <1>3. StorageTypeOK'
    <2>1. batches' = Without(FirstBatches) /\ UNCHANGED <<seq, session, alarm>>
      BY DEF DropEverythingPending
    <2>2. /\ DOMAIN Without(FirstBatches) \subseteq DOMAIN batches
          /\ Without(FirstBatches) = [k \in DOMAIN Without(FirstBatches) |-> Without(FirstBatches)[k]]
          /\ \A k \in DOMAIN Without(FirstBatches) : Without(FirstBatches)[k] \in Nat
      BY BatchesAreNumbers
    <2> QED  BY <2>1, <2>2 DEF StorageTypeOK
  <1>4. (S3TypeOK /\ CountersTypeOK)'
    BY <1>2 DEF DropEverythingPending, s3Vars, S3TypeOK, CountersTypeOK
  <1>5. (MemoryTypeOK /\ PhaseOK)'
    <2>1. CASE Finish(h)
      BY <2>1, FinishKeepsMemory DEF DropEverythingPending
    <2>2. CASE UNCHANGED <<gate, call, mem>>
      BY <2>2 DEF DropEverythingPending, MemoryTypeOK, PhaseOK, Live, Room
    <2> QED  BY <2>1, <2>2 DEF DropEverythingPending
  <1> QED  BY <1>3, <1>4, <1>5

LEMMA TypeInvFinish ==
    ASSUME TypeInv, NEW h \in Handlers, Rearm(h) \/ Throw(h)
    PROVE  TypeInv'
  <1> USE DEF TypeInv, TypeOK
  <1>1. alarm' \in BOOLEAN
    BY Zenon DEF Rearm, Throw, AlarmAfterDrain
  <1>2. (StorageTypeOK /\ S3TypeOK /\ CountersTypeOK)'
    BY <1>1 DEF Rearm, Throw, s3Vars, StorageTypeOK, S3TypeOK, CountersTypeOK
  <1>3. (MemoryTypeOK /\ PhaseOK)'
    BY FinishKeepsMemory DEF Rearm, Throw
  <1> QED  BY <1>2, <1>3

-----------------------------------------------------------------------------
(* Evictions, the clock, and stuttering. *)

LEMMA TypeInvOther ==
    ASSUME TypeInv, Evict \/ Tick \/ UNCHANGED vars
    PROVE  TypeInv'
  <1> USE DEF TypeInv, TypeOK
  <1>1. CASE Evict
    <2>1. (StorageTypeOK /\ S3TypeOK /\ CountersTypeOK)'
      BY <1>1 DEF Evict, s3Vars, StorageTypeOK, S3TypeOK, CountersTypeOK
    <2>2. (MemoryTypeOK /\ PhaseOK)'
      BY <1>1, IdleIsLocal
         DEF Evict, MemoryTypeOK, Phases, PhaseOK, Live, Room
    <2> QED  BY <2>1, <2>2
  <1>2. CASE Tick
    BY <1>2 DEF Tick, s3Vars, storageVars, StorageTypeOK, MemoryTypeOK,
                S3TypeOK, CountersTypeOK, PhaseOK, Live, Room
  <1>3. CASE UNCHANGED vars
    BY <1>3 DEF vars, s3Vars, storageVars, StorageTypeOK, MemoryTypeOK,
                S3TypeOK, CountersTypeOK, PhaseOK, Live, Room
  <1> QED  BY <1>1, <1>2, <1>3

LEMMA TypeInvNext == TypeInv /\ [Next]_vars => TypeInv'
  <1> SUFFICES ASSUME TypeInv, [Next]_vars PROVE TypeInv'
    OBVIOUS
  <1>1. ASSUME NEW h \in Handlers, DrainStep(h) PROVE TypeInv'
    BY <1>1, TypeInvUploadMetadata, TypeInvUploadChunk, TypeInvAbandon,
       TypeInvSaveState, TypeInvDelete, TypeInvDrop, TypeInvFinish
       DEF DrainStep
  <1> QED
    BY <1>1, TypeInvReport, TypeInvStart, TypeInvFinish, TypeInvOther DEF Next

(* Type correctness of the session object: in particular no chunk number   *)
(* ever exceeds MAX_CHUNKS and no failure count MAX_CONSECUTIVE_FAILURES,  *)
(* however many drains overlap (session-store.ts, flushChunk).             *)
THEOREM TypeCorrect == Spec => []TypeOK
  <1>1. Spec => []TypeInv
    BY TypeInvInit, TypeInvNext, PTL DEF Spec
  <1>2. TypeInv => TypeOK
    BY DEF TypeInv
  <1> QED  BY <1>1, <1>2, PTL

-----------------------------------------------------------------------------
(* NoStranding.  Between setAlarm and put of a report the alarm stays set, *)
(* because no alarm is delivered while the gate is closed.                 *)

AlarmInv == NoStranding /\ (gate = "append" => alarm)

LEMMA AlarmInvDrain ==
    ASSUME TypeOK, AlarmInv, NEW h \in Handlers, DrainStep(h) \/ Throw(h)
    PROVE  AlarmInv'
  <1> USE DEF AlarmInv, NoStranding
  <1>1. h # "append" /\ Alarm \in Handlers /\ call \in [Handlers -> Phases]
    BY ConstantsAssumption DEF Handlers, TypeOK, MemoryTypeOK
  <1>2. CASE UploadMetadata(h)
    BY <1>1, <1>2 DEF UploadMetadata, storageVars
  <1>3. CASE UploadChunk(h)
    BY <1>1, <1>3 DEF UploadChunk, storageVars
  <1>4. CASE Abandon(h)
    BY <1>1, <1>4 DEF Abandon, storageVars
  <1>5. CASE SaveState(h)
    BY <1>1, <1>5 DEF SaveState
  <1>6. CASE DeleteBatches(h)
    BY <1>1, <1>6 DEF DeleteBatches, Without
  <1>7. CASE DropEverythingPending(h)
    <2>1. DOMAIN batches = {} => DOMAIN batches' = {}
      BY <1>7 DEF DropEverythingPending, Without
    <2>2. CASE DOMAIN batches = {}
      BY <1>1, <1>7, <2>1, <2>2 DEF DropEverythingPending, Finish
    <2>3. CASE DOMAIN batches # {}
      BY <1>1, <1>7, <2>3 DEF DropEverythingPending
    <2> QED  BY <2>2, <2>3
  <1>8. CASE Rearm(h)
    BY <1>1, <1>8 DEF Rearm, Finish, AlarmAfterDrain
  <1>9. CASE Throw(h)
    BY <1>1, <1>9 DEF Throw, Finish
  <1> QED
    BY <1>2, <1>3, <1>4, <1>5, <1>6, <1>7, <1>8, <1>9 DEF DrainStep

LEMMA AlarmInvNext == TypeOK /\ AlarmInv /\ [Next]_vars => AlarmInv'
  <1> SUFFICES ASSUME TypeOK, AlarmInv, [Next]_vars PROVE AlarmInv'
    OBVIOUS
  <1> USE DEF AlarmInv, NoStranding
  <1>1. Alarm \in Handlers /\ call \in [Handlers -> Phases]
    BY DEF Handlers, TypeOK, MemoryTypeOK
  <1>2. CASE ArmForReport \/ StoreReport \/ FailReport
    BY <1>2 DEF ArmForReport, StoreReport, FailReport, storageVars
  <1>3. ASSUME NEW h \in Handlers, Start(h) PROVE AlarmInv'
    <2>1. DOMAIN batches = {} \/ call'[h] # "idle"
      BY <1>1, <1>3 DEF Start, BeginDrain
    <2>2. \A g \in Handlers : g # h => call'[g] = call[g]
      BY <1>1, <1>3 DEF Start, BeginDrain
    <2> QED  BY <1>1, <1>3, <2>1, <2>2 DEF Start
  <1>4. ASSUME NEW h \in Handlers, DrainStep(h) \/ Throw(h) PROVE AlarmInv'
    BY <1>4, AlarmInvDrain
  <1>5. CASE Evict \/ Tick \/ UNCHANGED vars
    BY <1>1, <1>5 DEF Evict, Tick, vars, storageVars
  <1> QED  BY <1>2, <1>3, <1>4, <1>5 DEF Next

(* Nothing durable is ever left without an alarm or a running alarm        *)
(* handler, whatever crashes, fails or overlaps (the ordering argued for   *)
(* in the comments of append and drain).                                   *)
THEOREM NeverStranded == Spec => []NoStranding
  <1>1. Init => AlarmInv
    BY DEF Init, AlarmInv, NoStranding
  <1>2. Spec => []AlarmInv
    BY <1>1, AlarmInvNext, TypeCorrect, PTL DEF Spec
  <1>3. AlarmInv => NoStranding
    BY DEF AlarmInv
  <1> QED  BY <1>2, <1>3, PTL

-----------------------------------------------------------------------------
(* IngestReadable.  Every session state, the stored one and the local ones *)
(* of the running drains, however stale, is backed by objects in S3; and   *)
(* objects are replaced but never removed.                                 *)

Backed(s, M, C) ==
    /\ s.metadataUploaded => s.id \in M
    /\ \A i \in 1..s.chunkIndex :
         \E d \in C : d.session = s.id /\ d.index = i

Readable(M, C) ==
    \A c \in C :
        /\ c.session \in M
        /\ c.index \in 1..MAX_CHUNKS
        /\ \A i \in 1..(c.index - 1) :
             \E d \in C : d.session = c.session /\ d.index = i

(* Every object of C has a successor under its key in D. *)
Keeps(C, D) ==
    \A c \in C : \E d \in D : d.session = c.session /\ d.index = c.index

BackedInv ==
    /\ Backed(session, metadata, chunks)
    /\ \A h \in Handlers :
        /\ Backed(mem[h].state, metadata, chunks)
        /\ call[h] = "chunk" => mem[h].state.metadataUploaded
    /\ Readable(metadata, chunks)

LEMMA BackedGrows ==
    ASSUME NEW s, NEW M, NEW N, NEW C, NEW D,
           M \subseteq N, Keeps(C, D), Backed(s, M, C)
    PROVE  Backed(s, N, D)
  BY DEF Backed, Keeps

LEMMA FreshIsBacked ==
    ASSUME NEW i \in Nat, NEW t, NEW M, NEW C
    PROVE  Backed(NewSession(i, t), M, C)
  BY DEF NewSession, Backed

LEMMA IdleIsBacked ==
    ASSUME NEW M, NEW C PROVE Backed(Idle.state, M, C)
  BY FreshIsBacked DEF Idle, NoSession

LEMMA BackedInvInit == Init => BackedInv
  <1> SUFFICES ASSUME Init PROVE BackedInv
    OBVIOUS
  <1>1. Backed(session, metadata, chunks)
    BY FreshIsBacked DEF Init, NoSession
  <1>2. ASSUME NEW h \in Handlers
        PROVE  /\ Backed(mem[h].state, metadata, chunks)
               /\ call[h] # "chunk"
    BY IdleIsBacked DEF Init
  <1>3. Readable(metadata, chunks)
    BY DEF Init, Readable
  <1> QED  BY <1>1, <1>2, <1>3 DEF BackedInv

(* Steps that leave S3 alone may only move states that are backed.         *)
LEMMA BackedInvLocal ==
    ASSUME BackedInv, UNCHANGED s3Vars,
           session' = session
             \/ \E h \in Handlers : session' = mem[h].state,
           \A h \in Handlers :
             \/ mem'[h] = mem[h] /\ (call'[h] = "chunk" => call[h] = "chunk")
             \/ mem'[h] = Idle /\ call'[h] = "idle"
    PROVE  BackedInv'
  <1>1. Backed(session, metadata, chunks)'
    BY DEF BackedInv, s3Vars
  <1>2. ASSUME NEW h \in Handlers
        PROVE  /\ Backed(mem'[h].state, metadata', chunks')
               /\ call'[h] = "chunk" => mem'[h].state.metadataUploaded
    BY <1>2, IdleIsBacked DEF BackedInv, s3Vars
  <1>3. Readable(metadata, chunks)'
    BY DEF BackedInv, s3Vars
  <1> QED  BY <1>1, <1>2, <1>3 DEF BackedInv

LEMMA BackedInvStart ==
    ASSUME TypeOK, BackedInv, NEW h \in Handlers, Start(h)
    PROVE  BackedInv'
  <1>1. UNCHANGED <<s3Vars, session>>
    BY DEF Start, s3Vars
  <1>2. mem \in [Handlers -> Locals] /\ call \in [Handlers -> Phases]
    BY DEF TypeOK, MemoryTypeOK
  <1>3. CASE DOMAIN batches = {}
    BY <1>1, <1>3, BackedInvLocal DEF Start
  <1>4. CASE DOMAIN batches # {}
    <2> DEFINE fresh   == NewSession(minted + 1, now)
               stored  == IF session.id = 0 THEN fresh ELSE session
               blocked == stored.abandoned /\ ~CooldownElapsed(stored)
               rolled  == ~blocked /\ (stored.abandoned \/ SessionFull(stored))
               current == IF rolled THEN fresh ELSE stored
    <2>1. /\ \A g \in Handlers \ {h} : mem'[g] = mem[g] /\ call'[g] = call[g]
          /\ mem'[h].state = current
          /\ call'[h] = "chunk" => current.metadataUploaded
      BY <1>2, <1>4 DEF Start, BeginDrain
    <2>2. Backed(current, metadata, chunks)
      <3>1. Backed(fresh, metadata, chunks)
        BY FreshIsBacked DEF TypeOK, CountersTypeOK
      <3> HIDE DEF fresh
      <3> QED  BY <3>1 DEF BackedInv
    <2> HIDE DEF current
    <2>3. Backed(session, metadata, chunks)' /\ Readable(metadata, chunks)'
      BY <1>1 DEF BackedInv, s3Vars
    <2>4. ASSUME NEW g \in Handlers
          PROVE  /\ Backed(mem'[g].state, metadata', chunks')
                 /\ call'[g] = "chunk" => mem'[g].state.metadataUploaded
      BY <1>1, <2>1, <2>2 DEF BackedInv, s3Vars
    <2> QED  BY <2>3, <2>4 DEF BackedInv
  <1> QED  BY <1>3, <1>4

LEMMA BackedInvUploadMetadata ==
    ASSUME TypeOK, BackedInv, NEW h \in Handlers, UploadMetadata(h)
    PROVE  BackedInv'
  <1>1. /\ metadata \subseteq metadata'
        /\ chunks' = chunks
        /\ session' = session
    BY DEF UploadMetadata, storageVars
  <1>2. Keeps(chunks, chunks')
    BY <1>1 DEF Keeps
  <1>3. mem \in [Handlers -> Locals] /\ call \in [Handlers -> Phases]
    BY DEF TypeOK, MemoryTypeOK
  <1>4. Backed(session', metadata', chunks')
    BY <1>1, <1>2, BackedGrows DEF BackedInv
  <1>5. Readable(metadata', chunks')
    BY <1>1 DEF BackedInv, Readable
  <1>6. \A g \in Handlers \ {h} : mem'[g] = mem[g] /\ call'[g] = call[g]
    BY <1>3 DEF UploadMetadata
  <1>7. /\ Backed(mem'[h].state, metadata', chunks')
        /\ call'[h] = "chunk" => mem'[h].state.metadataUploaded
    <2> DEFINE s == mem[h].state
    <2>1. s \in SessionState /\ Backed(s, metadata', chunks')
      BY <1>1, <1>2, <1>3, BackedGrows DEF BackedInv, Locals
    <2>2. CASE /\ metadata' = metadata \cup {s.id}
               /\ mem' = [mem EXCEPT ![h].state.metadataUploaded = TRUE]
      <3>1. mem'[h].state = [s EXCEPT !.metadataUploaded = TRUE]
        BY <1>3, <2>2 DEF Locals
      <3> QED  BY <2>1, <2>2, <3>1 DEF Backed, SessionState
    <2>3. CASE mem' = mem /\ call' = [call EXCEPT ![h] = "marker"]
      BY <1>3, <2>1, <2>3
    <2> QED  BY <2>2, <2>3 DEF UploadMetadata
  <1>8. ASSUME NEW g \in Handlers
        PROVE  /\ Backed(mem'[g].state, metadata', chunks')
               /\ call'[g] = "chunk" => mem'[g].state.metadataUploaded
    BY <1>1, <1>2, <1>6, <1>7, BackedGrows DEF BackedInv
  <1> QED  BY <1>4, <1>5, <1>8 DEF BackedInv

LEMMA PutChunkKeeps ==
    ASSUME NEW s, NEW i, NEW E
    PROVE  /\ Keeps(chunks, PutChunk(Chunk(s, i, E)))
           /\ \E d \in PutChunk(Chunk(s, i, E)) : d.session = s /\ d.index = i
           /\ \A d \in PutChunk(Chunk(s, i, E)) :
                d \in chunks \/ (d.session = s /\ d.index = i)
  <1> DEFINE c == Chunk(s, i, E)
  <1>1. c.session = s /\ c.index = i
    BY DEF Chunk
  <1>2. c \in PutChunk(c)
    BY DEF PutChunk
  <1>3. \A d \in PutChunk(c) : d \in chunks \/ d = c
    BY DEF PutChunk
  <1>4. ASSUME NEW d \in chunks, d.session # s \/ d.index # i
        PROVE  d \in PutChunk(c)
    BY <1>1, <1>4 DEF PutChunk
  <1> HIDE DEF c
  <1>5. Keeps(chunks, PutChunk(c))
    BY <1>1, <1>2, <1>4 DEF Keeps
  <1>6. /\ \E d \in PutChunk(c) : d.session = s /\ d.index = i
        /\ \A d \in PutChunk(c) :
             d \in chunks \/ (d.session = s /\ d.index = i)
    BY <1>1, <1>2, <1>3
  <1> QED  BY <1>5, <1>6 DEF c

LEMMA BackedInvUploadChunk ==
    ASSUME TypeInv, BackedInv, NEW h \in Handlers, UploadChunk(h)
    PROVE  BackedInv'
  <1> DEFINE s == mem[h].state
             c == Chunk(s.id, s.chunkIndex + 1, mem[h].events)
  <1>1. /\ s \in SessionState /\ Room(s) /\ call[h] = "chunk"
        /\ mem \in [Handlers -> Locals] /\ call \in [Handlers -> Phases]
    BY DEF UploadChunk, TypeInv, TypeOK, MemoryTypeOK, Locals, PhaseOK
  <1>2. /\ metadata' = metadata /\ session' = session
        /\ chunks' \in {chunks, PutChunk(c)}
    BY DEF UploadChunk, storageVars
  <1>3. Keeps(chunks, chunks')
    <2>1. Keeps(chunks, chunks)
      BY DEF Keeps
    <2> QED  BY <1>2, <2>1, PutChunkKeeps
  <1>4. s.metadataUploaded /\ s.id \in metadata
        /\ \A i \in 1..s.chunkIndex :
             \E d \in chunks : d.session = s.id /\ d.index = i
    BY <1>1 DEF BackedInv, Backed
  <1>5. Readable(metadata', chunks')
    <2>1. CASE chunks' = chunks
      BY <1>2, <2>1 DEF BackedInv
    <2>2. CASE chunks' = PutChunk(c)
      <3> SUFFICES ASSUME NEW d \in chunks'
                   PROVE  /\ d.session \in metadata
                          /\ d.index \in 1..MAX_CHUNKS
                          /\ \A i \in 1..(d.index - 1) : \E e \in chunks' :
                               e.session = d.session /\ e.index = i
        BY <1>2 DEF Readable
      <3>1. CASE d \in chunks
        <4>1. /\ d.session \in metadata
              /\ d.index \in 1..MAX_CHUNKS
              /\ \A i \in 1..(d.index - 1) : \E e \in chunks :
                   e.session = d.session /\ e.index = i
          BY <3>1 DEF BackedInv, Readable
        <4> QED  BY <4>1, <1>3 DEF Keeps
      <3>2. CASE d.session = s.id /\ d.index = s.chunkIndex + 1
        <4>1. d.index \in 1..MAX_CHUNKS /\ d.index - 1 = s.chunkIndex
          BY <1>1, <3>2, ConstantsAssumption DEF SessionState, Room
        <4>2. d.session \in metadata
          BY <1>4, <3>2
        <4>3. \A i \in 1..(d.index - 1) : \E e \in chunks :
                e.session = d.session /\ e.index = i
          BY <1>4, <3>2, <4>1
        <4> QED  BY <4>1, <4>2, <4>3, <1>3 DEF Keeps
      <3> QED  BY <2>2, <3>1, <3>2, PutChunkKeeps
    <2> QED  BY <1>2, <2>1, <2>2
  <1>6. \A g \in Handlers \ {h} : mem'[g] = mem[g] /\ call'[g] = call[g]
    BY <1>1 DEF UploadChunk
  <1>7. Backed(mem'[h].state, metadata', chunks') /\ call'[h] # "chunk"
    <2>1. CASE /\ chunks' = PutChunk(c)
               /\ mem' = [mem EXCEPT
                            ![h].state.chunkIndex = s.chunkIndex + 1,
                            ![h].state.failures = 0,
                            ![h].uploaded = TRUE]
               /\ call' = [call EXCEPT ![h] = "save"]
      <3>1. /\ mem'[h].state.id = s.id
            /\ mem'[h].state.chunkIndex = s.chunkIndex + 1
        BY <1>1, <2>1 DEF Locals, SessionState
      <3>2. \E d \in chunks' :
              d.session = s.id /\ d.index = s.chunkIndex + 1
        BY <2>1, PutChunkKeeps
      <3>3. \A i \in 1..s.chunkIndex :
              \E d \in chunks' : d.session = s.id /\ d.index = i
        BY <1>3, <1>4 DEF Keeps
      <3>4. \A i \in 1..(s.chunkIndex + 1) :
              i \in 1..s.chunkIndex \/ i = s.chunkIndex + 1
        BY <1>1 DEF SessionState
      <3>5. \A i \in 1..(s.chunkIndex + 1) :
              \E d \in chunks' : d.session = s.id /\ d.index = i
        BY <3>2, <3>3, <3>4
      <3>6. mem'[h].state.metadataUploaded = s.metadataUploaded /\ call'[h] = "save"
        BY <1>1, <2>1 DEF Locals, SessionState
      <3>7. s.metadataUploaded => s.id \in metadata'
        BY <1>2, <1>4
      <3> QED  BY <3>1, <3>5, <3>6, <3>7 DEF Backed
    <2>2. CASE /\ mem' = [mem EXCEPT ![h].state = FailedChunk(s)]
               /\ call' = [call EXCEPT ![h] =
                             IF s.failures + 1 >= MAX_CONSECUTIVE_FAILURES
                             THEN "marker" ELSE "save"]
      <3>1. mem'[h].state = FailedChunk(s)
        BY <1>1, <2>2 DEF Locals
      <3>2. /\ FailedChunk(s).id = s.id
            /\ FailedChunk(s).chunkIndex = s.chunkIndex
        BY <1>1 DEF FailedChunk, SessionState
      <3> QED  BY <1>1, <1>2, <1>3, <1>4, <2>2, <3>1, <3>2 DEF Backed, Keeps
    <2> QED  BY <2>1, <2>2 DEF UploadChunk
  <1>8. ASSUME NEW g \in Handlers
        PROVE  /\ Backed(mem'[g].state, metadata', chunks')
               /\ call'[g] = "chunk" => mem'[g].state.metadataUploaded
    BY <1>2, <1>3, <1>6, <1>7, BackedGrows DEF BackedInv
  <1>9. Backed(session', metadata', chunks')
    BY <1>2, <1>3, BackedGrows DEF BackedInv
  <1> QED  BY <1>5, <1>8, <1>9 DEF BackedInv

LEMMA BackedInvAbandon ==
    ASSUME TypeOK, BackedInv, NEW h \in Handlers, Abandon(h)
    PROVE  BackedInv'
  <1>1. mem \in [Handlers -> Locals] /\ call \in [Handlers -> Phases]
    BY DEF TypeOK, MemoryTypeOK
  <1>2. /\ metadata' = metadata /\ chunks' = chunks /\ session' = session
        /\ \A g \in Handlers \ {h} : mem'[g] = mem[g] /\ call'[g] = call[g]
        /\ call'[h] # "chunk"
    BY <1>1 DEF Abandon, storageVars
  <1>3. /\ mem'[h].state.id = mem[h].state.id
        /\ mem'[h].state.chunkIndex = mem[h].state.chunkIndex
        /\ mem'[h].state.metadataUploaded = mem[h].state.metadataUploaded
    BY <1>1 DEF Abandon, Locals, SessionState
  <1>4. Backed(mem'[h].state, metadata', chunks')
    BY <1>2, <1>3 DEF BackedInv, Backed
  <1> QED  BY <1>2, <1>4 DEF BackedInv

LEMMA BackedInvNext == TypeInv /\ BackedInv /\ [Next]_vars => BackedInv'
  <1> SUFFICES ASSUME TypeInv, BackedInv, [Next]_vars PROVE BackedInv'
    OBVIOUS
  <1>1. TypeOK /\ mem \in [Handlers -> Locals] /\ call \in [Handlers -> Phases]
    BY DEF TypeInv, TypeOK, MemoryTypeOK
  <1>2. ASSUME NEW h \in Handlers,
               SaveState(h) \/ DeleteBatches(h) \/ DropEverythingPending(h)
                 \/ Rearm(h) \/ Throw(h)
        PROVE  BackedInv'
    <2>1. UNCHANGED s3Vars
      BY <1>2 DEF SaveState, DeleteBatches, DropEverythingPending, Rearm, Throw
    <2>2. session' = session \/ session' = mem[h].state
      BY <1>2 DEF SaveState, DeleteBatches, DropEverythingPending, Rearm, Throw
    <2>3. \A g \in Handlers :
             \/ mem'[g] = mem[g] /\ (call'[g] = "chunk" => call[g] = "chunk")
             \/ mem'[g] = Idle /\ call'[g] = "idle"
      BY <1>1, <1>2
         DEF SaveState, DeleteBatches, DropEverythingPending, Rearm, Throw,
             Finish
    <2> QED  BY <2>1, <2>2, <2>3, BackedInvLocal
  <1>3. CASE ArmForReport \/ StoreReport \/ FailReport \/ Tick \/ UNCHANGED vars
    BY <1>3, BackedInvLocal
       DEF ArmForReport, StoreReport, FailReport, Tick, vars, storageVars
  <1>4. CASE Evict
    BY <1>4, BackedInvLocal DEF Evict
  <1>5. ASSUME NEW h \in Handlers, DrainStep(h) PROVE BackedInv'
    BY <1>1, <1>2, <1>5, BackedInvUploadMetadata, BackedInvUploadChunk,
       BackedInvAbandon DEF DrainStep
  <1> QED
    BY <1>1, <1>2, <1>3, <1>4, <1>5, BackedInvStart DEF Next

(* Whatever overlaps, crashes or fails, every session in S3 is readable:   *)
(* metadata.json under each chunk, chunks numbered 1..n without a gap, at  *)
(* most MAX_CHUNKS of them (flushChunk and the state drain carries).       *)
THEOREM AlwaysReadable == Spec => []IngestReadable
  <1>1. Spec => []TypeInv
    BY TypeInvInit, TypeInvNext, PTL DEF Spec
  <1>2. Spec => []BackedInv
    BY <1>1, BackedInvInit, BackedInvNext, PTL DEF Spec
  <1>3. BackedInv => IngestReadable
    BY DEF BackedInv, Readable, IngestReadable
  <1> QED  BY <1>2, <1>3, PTL

-----------------------------------------------------------------------------
(* The gate.  A drain holds it from saving its state to its last storage   *)
(* operation, and only a drain that has one left holds it: nobody waits    *)
(* for a gate that nobody will open, and no two drains save and delete at  *)
(* the same time.                                                          *)

Tail == {"delete", "drop", "rearm"}

GateInv ==
    /\ \A h \in Handlers : call[h] \in Tail => gate = h
    /\ gate \in Handlers => call[gate] \in Tail

LEMMA GateInvDrain ==
    ASSUME TypeOK, GateInv, NEW h \in Handlers, DrainStep(h) \/ Throw(h)
    PROVE  GateInv'
  <1> USE DEF GateInv, Tail
  <1>1. call \in [Handlers -> Phases] /\ {"open", "append"} \cap Handlers = {}
    BY ConstantsAssumption DEF TypeOK, MemoryTypeOK
  <1>2. CASE UploadMetadata(h)
    BY <1>1, <1>2 DEF UploadMetadata
  <1>3. CASE UploadChunk(h)
    BY <1>1, <1>3 DEF UploadChunk
  <1>4. CASE Abandon(h)
    BY <1>1, <1>4 DEF Abandon
  <1>5. CASE SaveState(h)
    BY <1>1, <1>5 DEF SaveState
  <1>6. CASE DeleteBatches(h)
    BY <1>1, <1>6 DEF DeleteBatches
  <1>7. CASE DropEverythingPending(h)
    BY <1>1, <1>7 DEF DropEverythingPending, Finish
  <1>8. CASE Rearm(h)
    BY <1>1, <1>8 DEF Rearm, Finish
  <1>9. CASE Throw(h)
    BY <1>1, <1>9 DEF Throw, Finish
  <1> QED
    BY <1>2, <1>3, <1>4, <1>5, <1>6, <1>7, <1>8, <1>9 DEF DrainStep

LEMMA GateInvNext == TypeOK /\ GateInv /\ [Next]_vars => GateInv'
  <1> SUFFICES ASSUME TypeOK, GateInv, [Next]_vars PROVE GateInv'
    OBVIOUS
  <1>1. call \in [Handlers -> Phases] /\ {"open", "append"} \cap Handlers = {}
    BY ConstantsAssumption DEF TypeOK, MemoryTypeOK
  <1>2. CASE ArmForReport \/ StoreReport \/ FailReport
    BY <1>1, <1>2 DEF ArmForReport, StoreReport, FailReport, GateInv, Tail
  <1>3. ASSUME NEW h \in Handlers, Start(h) PROVE GateInv'
    <2>1. /\ gate' = gate /\ gate \notin Handlers
          /\ \A g \in Handlers : g # h => call'[g] = call[g]
      BY <1>1, <1>3 DEF Start, BeginDrain
    <2>2. call'[h] \notin Tail
      BY <1>1, <1>3 DEF Start, BeginDrain, Tail
    <2> QED  BY <2>1, <2>2 DEF GateInv
  <1>4. ASSUME NEW h \in Handlers, DrainStep(h) \/ Throw(h) PROVE GateInv'
    BY <1>4, GateInvDrain
  <1>5. CASE Evict \/ Tick \/ UNCHANGED vars
    BY <1>1, <1>5 DEF Evict, Tick, vars, GateInv, Tail
  <1> QED  BY <1>2, <1>3, <1>4, <1>5 DEF Next

(* However many drains overlap: between saving its state and its last      *)
(* storage operation a drain is alone, and the gate, when a drain holds    *)
(* it, is held by one that has such an operation left, after which it is   *)
(* opened (the storage-only tail of drain()).                              *)
THEOREM GateServed == Spec => []GateInv
  <1>1. Init => GateInv
    BY ConstantsAssumption DEF Init, GateInv, Tail
  <1> QED  BY <1>1, GateInvNext, TypeCorrect, PTL DEF Spec

-----------------------------------------------------------------------------
(* One drain at a time: what the alarm alone, without overlapping flushes, *)
(* guarantees.  A chunk number that is not yet saved may already be in S3, *)
(* from a write that failed after it landed or whose drain died; what it   *)
(* holds is then still buffered, among the batches the next drain takes,   *)
(* or given up.  That is why the next write under that number loses        *)
(* nothing.                                                                *)

OneDrain == Flushers = {}

D == mem[Alarm]

P == call[Alarm]

(* Of session s, at most the next chunk exists beyond those counted, and   *)
(* it holds nothing but batches of E and batches given up.                 *)
NextSlot(s, E) ==
    \A c \in chunks :
        c.session = s.id /\ c.index > s.chunkIndex =>
            /\ c.index = s.chunkIndex + 1
            /\ c.events \subseteq DiscardedBatches \cup E

StoreInv ==
    /\ DOMAIN batches \subseteq 0..(seq - 1)
    /\ \A k \in DOMAIN batches : batches[k] <= accepted
    /\ \A j, k \in DOMAIN batches :
         j < k /\ batches[j] # 0 /\ batches[k] # 0 => batches[j] < batches[k]
    /\ DiscardedBatches \subseteq 1..accepted
    /\ DiscardedBatches \cap PendingBatches = {}
    /\ InS3 \subseteq 1..accepted

IdsInv ==
    /\ \A c \in chunks : c.session <= minted
    /\ session.id <= minted
    /\ session.abandoned => session.id # 0

SlotInv == session.id # 0 => NextSlot(session, SpansIn(FirstBatches))

(* What was taken are the first keys, and stays so until it is deleted.    *)
TakenInv ==
    P \in {"metadata", "chunk", "marker", "save", "delete"} =>
      /\ D.keys \subseteq FirstBatches
      /\ \A j \in D.keys, k \in DOMAIN batches \ D.keys : j < k
      /\ D.events = SpansIn(D.keys)
      /\ NextSlot(D.state, IF D.uploaded THEN {} ELSE D.events)
      /\ D.uploaded => D.events \subseteq InS3

(* The session the drain under way works on.                               *)
DrainInv ==
    /\ P # "idle" => D.state.id \in 1..minted
    /\ P \in {"metadata", "chunk"} =>
         /\ D.state.id = session.id => D.state.chunkIndex = session.chunkIndex
         /\ session.abandoned => CooldownElapsed(session)
    /\ P \in {"metadata", "chunk", "marker"} => ~D.uploaded
    /\ P \in {"delete", "drop", "rearm"} => session = D.state

(* Without a fault the newest session is the current one, and what is in   *)
(* S3 is older than what is buffered, but for what the drain just wrote.   *)
OrderInv ==
    faults = 0 =>
      /\ P = "idle" => session.id = minted
      /\ P # "idle" => D.state.id = minted
      /\ \A c \in chunks : \A e \in c.events, f \in PendingBatches :
           \/ e \in DiscardedBatches \/ e < f
           \/ P \in {"marker", "save", "delete"} /\ e \in D.events
      /\ ChunksInOrder

SoloInv == StoreInv /\ IdsInv /\ SlotInv /\ TakenInv /\ DrainInv /\ OrderInv

-----------------------------------------------------------------------------
(* The shapes of the steps that touch the batches.                         *)

LEMMA SoloFacts ==
    ASSUME TypeOK, OneDrain
    PROVE  /\ Handlers = {Alarm}
           /\ P \in Phases /\ D \in Locals /\ D.state \in SessionState
           /\ session \in SessionState
           /\ D.keys \subseteq Nat /\ D.events \subseteq Nat
           /\ D.state.id \in Nat /\ D.state.chunkIndex \in Nat
           /\ D.state.abandoned \in BOOLEAN /\ D.uploaded \in BOOLEAN
           /\ session.id \in Nat /\ session.chunkIndex \in Nat
           /\ {now, minted, accepted, seq, faults} \subseteq Nat
  <1>1. Handlers = {Alarm}
    BY DEF OneDrain, Handlers
  <1>2. P \in Phases /\ D \in Locals
    BY <1>1 DEF P, D, TypeOK, MemoryTypeOK
  <1>3. session \in SessionState /\ {now, minted, accepted, seq, faults} \subseteq Nat
    BY DEF TypeOK, StorageTypeOK, CountersTypeOK
  <1>4. /\ D.state \in SessionState /\ D.keys \subseteq Nat
        /\ D.events \subseteq Nat /\ D.uploaded \in BOOLEAN
    BY <1>2 DEF Locals
  <1>5. \A s \in SessionState : /\ s.id \in Nat /\ s.chunkIndex \in Nat
                                /\ s.abandoned \in BOOLEAN
    BY DEF SessionState
  <1> QED  BY <1>1, <1>2, <1>3, <1>4, <1>5

LEMMA FirstAreFirst ==
    ASSUME TypeOK, StoreInv
    PROVE  /\ FirstBatches \subseteq DOMAIN batches
           /\ \A j \in FirstBatches, k \in DOMAIN batches \ FirstBatches : j < k
  <1>1. FirstBatches \subseteq DOMAIN batches
    BY DEF FirstBatches
  <1>2. ASSUME NEW j \in FirstBatches, NEW k \in DOMAIN batches \ FirstBatches,
               ~(j < k)
        PROVE  FALSE
    <2> DEFINE Below(i) == {l \in DOMAIN batches : l < i}
    <2>1. j \in Nat /\ k \in Nat /\ seq \in Nat
      BY <1>1 DEF TypeOK, StorageTypeOK
    <2>2. k < j
      BY <1>2, <2>1
    <2>3. Below(k) \subseteq Below(j) /\ Below(j) \subseteq 0..(seq - 1)
      BY <1>1, <2>1, <2>2 DEF StoreInv, TypeOK, StorageTypeOK
    <2> HIDE DEF Below
    <2>4. IsFiniteSet(Below(j)) /\ IsFiniteSet(Below(k))
      <3>1. 0 \in Int /\ seq - 1 \in Int
        BY <2>1
      <3>2. IsFiniteSet(0..(seq - 1))
        BY <3>1, FS_Interval
      <3>3. IsFiniteSet(Below(j))
        BY <2>3, <3>2, FS_Subset
      <3> QED  BY <2>3, <3>3, FS_Subset
    <2>5. Cardinality(Below(k)) <= Cardinality(Below(j))
      BY <2>3, <2>4, FS_Subset
    <2>6. Cardinality(Below(j)) \in Nat /\ Cardinality(Below(k)) \in Nat
      BY <2>4, FS_CardinalityType
    <2>7. Cardinality(Below(j)) < MAX_BATCHES_PER_FLUSH
      BY DEF FirstBatches, Below
    <2>8. Cardinality(Below(k)) < MAX_BATCHES_PER_FLUSH
      BY <2>5, <2>6, <2>7, ConstantsAssumption
    <2> QED  BY <2>8 DEF FirstBatches, Below
  <1> QED  BY <1>1, <1>2

(* A batch is found under one key only.                                    *)
LEMMA OneKey ==
    ASSUME TypeOK, StoreInv, NEW j \in DOMAIN batches, NEW k \in DOMAIN batches,
           batches[j] = batches[k], batches[j] # 0
    PROVE  j = k
  <1>1. j \in Nat /\ k \in Nat /\ batches[j] \in Nat
    BY DEF TypeOK, StorageTypeOK
  <1>2. ~(j < k) /\ ~(k < j)
    BY <1>1 DEF StoreInv
  <1> QED  BY <1>1, <1>2

LEMMA RemoveShape ==
    ASSUME TypeOK, StoreInv, NEW K \in SUBSET (DOMAIN batches),
           batches' = Without(K)
    PROVE  /\ DOMAIN batches' = DOMAIN batches \ K
           /\ \A k \in DOMAIN batches' : batches'[k] = batches[k]
           /\ PendingBatches' = PendingBatches \ SpansIn(K)
           /\ SpansIn(K) \subseteq PendingBatches
  <1>1. /\ DOMAIN batches' = DOMAIN batches \ K
        /\ \A k \in DOMAIN batches' : batches'[k] = batches[k]
    BY DEF Without
  <1>2. SpansIn(K) \subseteq PendingBatches
    BY DEF SpansIn, PendingBatches
  <1>3. PendingBatches' \subseteq PendingBatches \ SpansIn(K)
    <2>1. SUFFICES ASSUME NEW k \in DOMAIN batches', batches'[k] # 0
                   PROVE  batches'[k] \in PendingBatches \ SpansIn(K)
      BY DEF PendingBatches
    <2>2. k \in DOMAIN batches /\ k \notin K /\ batches'[k] = batches[k]
      BY <1>1
    <2>3. \A j \in K : batches[j] # batches[k]
      BY <2>1, <2>2, OneKey
    <2> QED  BY <2>1, <2>2, <2>3 DEF PendingBatches, SpansIn
  <1>4. PendingBatches \ SpansIn(K) \subseteq PendingBatches'
    BY <1>1 DEF PendingBatches, SpansIn
  <1> QED  BY <1>1, <1>2, <1>3, <1>4

LEMMA RemoveStore ==
    ASSUME TypeOK, StoreInv, NEW K \in SUBSET (DOMAIN batches),
           batches' = Without(K), UNCHANGED <<seq, accepted, chunks>>,
           DiscardedBatches' \subseteq DiscardedBatches \cup SpansIn(K)
    PROVE  StoreInv'
  <1>1. /\ DOMAIN batches' = DOMAIN batches \ K
        /\ \A k \in DOMAIN batches' : batches'[k] = batches[k]
        /\ PendingBatches' = PendingBatches \ SpansIn(K)
        /\ SpansIn(K) \subseteq PendingBatches
    BY RemoveShape
  <1>2. PendingBatches \subseteq 1..accepted
    <2>1. \A k \in DOMAIN batches : batches[k] \in Nat /\ accepted \in Nat
      BY DEF TypeOK, StorageTypeOK, CountersTypeOK
    <2> QED  BY <2>1 DEF PendingBatches, StoreInv
  <1>3. /\ DiscardedBatches' \subseteq 1..accepted
        /\ DiscardedBatches' \cap PendingBatches' = {}
    BY <1>1, <1>2 DEF StoreInv
  <1>4. InS3' = InS3
    BY DEF InS3
  <1> QED  BY <1>1, <1>3, <1>4 DEF StoreInv

LEMMA DiscardShape ==
    ASSUME NEW E, NEW i, discarded' = discarded \cup (E \X {i})
    PROVE  DiscardedBatches' = DiscardedBatches \cup E
  <1>1. DiscardedBatches' \subseteq DiscardedBatches \cup E
    BY DEF DiscardedBatches
  <1>2. DiscardedBatches \subseteq DiscardedBatches'
    BY DEF DiscardedBatches
  <1>3. ASSUME NEW e \in E PROVE e \in DiscardedBatches'
    <2>1. <<e, i>> \in discarded' /\ <<e, i>>[1] = e
      OBVIOUS
    <2> QED  BY <2>1 DEF DiscardedBatches
  <1> QED  BY <1>1, <1>2, <1>3

(* A report is stored under new keys and new numbers, behind the others.   *)
LEMMA ReportShape ==
    ASSUME TypeOK, StoreInv, StoreReport
    PROVE  /\ seq' \in Nat /\ accepted' \in Nat
           /\ seq <= seq' /\ accepted <= accepted'
           /\ DOMAIN batches \subseteq DOMAIN batches'
           /\ DOMAIN batches' \subseteq 0..(seq' - 1)
           /\ \A k \in DOMAIN batches : k < seq /\ batches'[k] = batches[k]
           /\ \A k \in DOMAIN batches' \ DOMAIN batches :
                /\ seq <= k /\ batches'[k] <= accepted'
                /\ batches'[k] # 0 => batches'[k] = accepted + 1 + (k - seq)
           /\ PendingBatches' = PendingBatches \cup (accepted + 1)..accepted'
           /\ FirstBatches \subseteq FirstBatches'
           /\ \A K \in SUBSET (DOMAIN batches) : SpansIn(K)' = SpansIn(K)
  <1>1. PICK n \in 1..MaxGroups, spans \in BOOLEAN :
          /\ batches' = [k \in DOMAIN batches \cup seq..(seq + n - 1) |->
                           IF k < seq THEN batches[k]
                           ELSE IF spans THEN accepted + 1 + k - seq ELSE 0]
          /\ seq' = NextSeq(n)
          /\ accepted' = IF spans THEN accepted + n ELSE accepted
    BY DEF StoreReport
  <1>2. /\ seq \in Nat /\ accepted \in Nat /\ n \in Nat /\ n > 0
        /\ seq' = seq + n /\ DOMAIN batches \subseteq Nat
        /\ DOMAIN batches \subseteq 0..(seq - 1)
    BY <1>1, ConstantsAssumption
       DEF TypeOK, StorageTypeOK, CountersTypeOK, NextSeq, StoreInv
  <1>3. /\ DOMAIN batches' = DOMAIN batches \cup seq..(seq + n - 1)
        /\ \A k \in DOMAIN batches : k < seq /\ batches'[k] = batches[k]
    BY <1>1, <1>2
  <1>4. ASSUME NEW k \in seq..(seq + n - 1)
        PROVE  batches'[k] = IF spans THEN accepted + 1 + (k - seq) ELSE 0
    BY <1>1, <1>2, <1>4
  <1>5. DOMAIN batches' \subseteq 0..(seq' - 1)
    BY <1>2, <1>3
  <1>6. ASSUME NEW k \in DOMAIN batches' \ DOMAIN batches
        PROVE  /\ seq <= k /\ batches'[k] <= accepted'
               /\ batches'[k] # 0 => batches'[k] = accepted + 1 + (k - seq)
    <2>1. k \in seq..(seq + n - 1)
      BY <1>3
    <2> QED  BY <1>1, <1>2, <1>4, <2>1
  <1>7. PendingBatches' = PendingBatches \cup (accepted + 1)..accepted'
    <2>1. CASE spans
      <3>1. \A k \in seq..(seq + n - 1) :
              batches'[k] \in (accepted + 1)..accepted'
        BY <1>1, <1>2, <1>4, <2>1
      <3>2. ASSUME NEW v \in (accepted + 1)..accepted'
            PROVE  v \in PendingBatches'
        <4>1. /\ v - accepted - 1 + seq \in seq..(seq + n - 1)
              /\ accepted + 1 + ((v - accepted - 1 + seq) - seq) = v /\ v # 0
          BY <1>1, <1>2, <2>1
        <4>2. batches'[v - accepted - 1 + seq] = v
          BY <1>4, <2>1, <4>1
        <4> QED  BY <1>3, <4>1, <4>2 DEF PendingBatches
      <3>3. PendingBatches \subseteq PendingBatches'
        BY <1>3 DEF PendingBatches
      <3>4. PendingBatches' \subseteq PendingBatches \cup (accepted + 1)..accepted'
        BY <1>3, <3>1 DEF PendingBatches
      <3> QED  BY <3>2, <3>3, <3>4
    <2>2. CASE ~spans
      <3>1. \A k \in seq..(seq + n - 1) : batches'[k] = 0
        BY <1>4, <2>2
      <3>2. (accepted + 1)..accepted' = {}
        BY <1>1, <1>2, <2>2
      <3>3. PendingBatches' = PendingBatches
        BY <1>3, <3>1 DEF PendingBatches
      <3> QED  BY <3>2, <3>3
    <2> QED  BY <2>1, <2>2
  <1>8. FirstBatches \subseteq FirstBatches'
    <2>1. \A k \in DOMAIN batches :
            {j \in DOMAIN batches' : j < k} = {j \in DOMAIN batches : j < k}
      BY <1>2, <1>3
    <2> QED  BY <1>3, <2>1 DEF FirstBatches
  <1>9. ASSUME NEW K \in SUBSET (DOMAIN batches) PROVE SpansIn(K)' = SpansIn(K)
    BY <1>3 DEF SpansIn
  <1> QED  BY <1>1, <1>2, <1>3, <1>5, <1>6, <1>7, <1>8, <1>9

-----------------------------------------------------------------------------
(* SoloInv is inductive, action by action.                                 *)

LEMMA SoloInit == ASSUME Init, OneDrain PROVE SoloInv
  <1>1. /\ DOMAIN batches = {} /\ chunks = {} /\ discarded = {} /\ P = "idle"
        /\ session = NoSession /\ minted = 0
    BY DEF Init, P, Handlers
  <1>2. session.id = 0 /\ session.abandoned = FALSE
    BY <1>1 DEF NoSession, NewSession
  <1>3. PendingBatches = {} /\ DiscardedBatches = {} /\ InS3 = {}
    BY <1>1 DEF PendingBatches, DiscardedBatches, InS3
  <1>4. StoreInv /\ IdsInv /\ SlotInv
    BY <1>1, <1>2, <1>3 DEF StoreInv, IdsInv, SlotInv
  <1>5. TakenInv /\ DrainInv /\ OrderInv
    BY <1>1, <1>2 DEF TakenInv, DrainInv, OrderInv, ChunksInOrder
  <1> QED  BY <1>4, <1>5 DEF SoloInv

(* Steps that touch neither batches nor S3 nor the stored session, and     *)
(* leave the drain alone or end it with a fault.                           *)
LEMMA SoloQuiet ==
    ASSUME TypeOK, OneDrain, SoloInv,
           UNCHANGED <<batches, seq, session, chunks, minted, accepted, discarded>>,
           now' \in Nat, now <= now',
           \/ UNCHANGED <<call, mem, faults>>
           \/ faults' # 0 /\ (P' = "idle" \/ UNCHANGED <<call, mem>>)
    PROVE  SoloInv'
  <1>1. /\ DiscardedBatches' = DiscardedBatches /\ InS3' = InS3
        /\ PendingBatches' = PendingBatches /\ FirstBatches' = FirstBatches
        /\ \A K : SpansIn(K)' = SpansIn(K)
    BY DEF DiscardedBatches, InS3, PendingBatches, FirstBatches, SpansIn
  <1>2. StoreInv' /\ IdsInv' /\ SlotInv'
    BY <1>1 DEF SoloInv, StoreInv, IdsInv, SlotInv, NextSlot
  <1>3. TakenInv'
    <2>1. CASE P' = "idle"
      BY <2>1 DEF TakenInv
    <2>2. CASE UNCHANGED <<call, mem>>
      BY <1>1, <2>2 DEF SoloInv, TakenInv, NextSlot, P, D
    <2> QED  BY <2>1, <2>2
  <1>4. DrainInv'
    <2>1. CASE P' = "idle"
      BY <2>1 DEF DrainInv
    <2>2. CASE UNCHANGED <<call, mem>>
      <3>1. CooldownElapsed(session) => CooldownElapsed(session)'
        <4>1. session.abandonedAt \in Nat /\ now \in Nat
          BY DEF TypeOK, StorageTypeOK, CountersTypeOK, SessionState
        <4> QED  BY <4>1, ConstantsAssumption DEF CooldownElapsed
      <3> QED  BY <2>2, <3>1 DEF SoloInv, DrainInv, P, D
    <2> QED  BY <2>1, <2>2
  <1>5. OrderInv'
    BY <1>1 DEF SoloInv, OrderInv, ChunksInOrder, P, D
  <1> QED  BY <1>2, <1>3, <1>4, <1>5 DEF SoloInv

LEMMA SoloReport == ASSUME TypeOK, OneDrain, SoloInv, StoreReport PROVE SoloInv'
  <1> USE SoloFacts DEF SoloInv
  <1>1. UNCHANGED <<session, call, mem, chunks, now, minted, discarded, faults>>
    BY DEF StoreReport, s3Vars
  <1>2. P' = P /\ D' = D /\ DiscardedBatches' = DiscardedBatches /\ InS3' = InS3
    BY <1>1 DEF P, D, DiscardedBatches, InS3
  <1>3. /\ seq' \in Nat /\ accepted' \in Nat
        /\ seq <= seq' /\ accepted <= accepted'
        /\ DOMAIN batches \subseteq DOMAIN batches'
        /\ DOMAIN batches' \subseteq 0..(seq' - 1)
        /\ \A k \in DOMAIN batches : k < seq /\ batches'[k] = batches[k]
        /\ \A k \in DOMAIN batches' \ DOMAIN batches :
             /\ seq <= k /\ batches'[k] <= accepted'
             /\ batches'[k] # 0 => batches'[k] = accepted + 1 + (k - seq)
        /\ PendingBatches' = PendingBatches \cup (accepted + 1)..accepted'
        /\ FirstBatches \subseteq FirstBatches'
        /\ \A K \in SUBSET (DOMAIN batches) : SpansIn(K)' = SpansIn(K)
    BY ReportShape
  <1>4. StoreInv'
    <2>1. \A k \in DOMAIN batches' : k \in Nat /\ batches'[k] <= accepted'
      <3>1. \A k \in DOMAIN batches : batches[k] \in Nat /\ batches[k] <= accepted
        BY DEF TypeOK, StorageTypeOK, StoreInv
      <3> QED  BY <1>3, <3>1
    <2>2. ASSUME NEW j \in DOMAIN batches', NEW k \in DOMAIN batches',
                 j < k, batches'[j] # 0, batches'[k] # 0
          PROVE  batches'[j] < batches'[k]
      <3>1. j \in Nat /\ k \in Nat /\ seq \in Nat /\ accepted \in Nat
        BY <2>1
      <3>2. CASE j \in DOMAIN batches /\ k \in DOMAIN batches
        BY <1>3, <2>2, <3>2 DEF StoreInv
      <3>3. CASE j \in DOMAIN batches /\ k \notin DOMAIN batches
        <4>1. batches'[j] <= accepted /\ batches'[j] \in Nat
          BY <1>3, <3>3 DEF StoreInv, TypeOK, StorageTypeOK
        <4>2. batches'[k] = accepted + 1 + (k - seq) /\ seq <= k
          BY <1>3, <2>2, <3>3
        <4> QED  BY <3>1, <4>1, <4>2
      <3>4. CASE j \notin DOMAIN batches /\ k \notin DOMAIN batches
        <4>1. /\ batches'[j] = accepted + 1 + (j - seq)
              /\ batches'[k] = accepted + 1 + (k - seq)
          BY <1>3, <2>2, <3>4
        <4> QED  BY <2>2, <3>1, <4>1
      <3>5. CASE j \notin DOMAIN batches /\ k \in DOMAIN batches
        <4>1. seq <= j /\ k < seq
          BY <1>3, <3>5
        <4> QED  BY <2>2, <3>1, <4>1
      <3> QED  BY <3>2, <3>3, <3>4, <3>5
    <2>3. /\ 1..accepted \subseteq 1..accepted'
          /\ 1..accepted \cap (accepted + 1)..accepted' = {}
      BY <1>3
    <2>4. DiscardedBatches' \cap PendingBatches' = {}
      BY <1>2, <1>3, <2>3 DEF StoreInv
    <2>5. DiscardedBatches' \subseteq 1..accepted' /\ InS3' \subseteq 1..accepted'
      BY <1>2, <2>3 DEF StoreInv
    <2> QED  BY <1>3, <2>1, <2>2, <2>4, <2>5 DEF StoreInv
  <1>5. IdsInv'
    BY <1>1 DEF IdsInv
  <1>6. SpansIn(FirstBatches) \subseteq SpansIn(FirstBatches)'
    BY <1>3 DEF SpansIn, FirstBatches
  <1>7. SlotInv'
    BY <1>1, <1>2, <1>6 DEF SlotInv, NextSlot
  <1>8. TakenInv'
    <2>1. SUFFICES ASSUME P \in {"metadata", "chunk", "marker", "save", "delete"}
                   PROVE  /\ D.keys \subseteq FirstBatches'
                          /\ \A j \in D.keys, k \in DOMAIN batches' \ D.keys : j < k
                          /\ D.events = SpansIn(D.keys)'
                          /\ NextSlot(D.state, IF D.uploaded THEN {} ELSE D.events)'
                          /\ D.uploaded => D.events \subseteq InS3
      BY <1>2 DEF TakenInv
    <2>2. D.keys \subseteq DOMAIN batches
      BY <2>1, FirstAreFirst DEF TakenInv
    <2>3. ASSUME NEW j \in D.keys, NEW k \in DOMAIN batches' \ D.keys PROVE j < k
      <3>1. CASE k \in DOMAIN batches
        BY <2>1, <3>1 DEF TakenInv
      <3>2. CASE k \notin DOMAIN batches
        <4>1. j < seq /\ seq <= k /\ k \in Nat /\ j \in Nat /\ seq \in Nat
          BY <1>3, <2>2, <3>2
        <4> QED  BY <4>1
      <3> QED  BY <3>1, <3>2
    <2>4. SpansIn(D.keys)' = SpansIn(D.keys)
      BY <1>2, <1>3, <2>2 DEF SpansIn
    <2>5. NextSlot(D.state, IF D.uploaded THEN {} ELSE D.events)'
      BY <1>1, <1>2, <2>1 DEF TakenInv, NextSlot
    <2> QED  BY <1>3, <2>1, <2>3, <2>4, <2>5 DEF TakenInv
  <1>9. DrainInv'
    BY <1>1, <1>2 DEF DrainInv, CooldownElapsed
  <1>10. OrderInv'
    <2>1. SUFFICES ASSUME faults = 0 PROVE OrderInv'
      BY <1>1 DEF OrderInv
    <2>2. ASSUME NEW c \in chunks, NEW e \in c.events, NEW f \in PendingBatches'
          PROVE  \/ e \in DiscardedBatches \/ e < f
                 \/ P \in {"marker", "save", "delete"} /\ e \in D.events
      <3>1. CASE f \in PendingBatches
        BY <2>1, <3>1 DEF OrderInv
      <3>2. CASE f \in (accepted + 1)..accepted'
        <4>1. e \in 1..accepted
          BY DEF StoreInv, InS3
        <4> QED  BY <3>2, <4>1
      <3> QED  BY <1>3, <3>1, <3>2
    <2>3. ChunksInOrder'
      BY <1>1, <1>2, <2>1 DEF OrderInv, ChunksInOrder
    <2> QED  BY <1>1, <1>2, <2>1, <2>2, <2>3 DEF OrderInv
  <1> QED  BY <1>4, <1>5, <1>7, <1>8, <1>9, <1>10

LEMMA SoloStart == ASSUME TypeOK, OneDrain, SoloInv, Start(Alarm) PROVE SoloInv'
  <1> USE SoloFacts DEF SoloInv
  <1>1. /\ UNCHANGED <<batches, seq, session, chunks, now, accepted,
                       discarded, faults>>
        /\ P = "idle"
    BY DEF Start, s3Vars, P
  <1>2. CASE DOMAIN batches = {}
    <2>1. UNCHANGED <<call, mem, minted>>
      BY <1>2 DEF Start
    <2> QED  BY <1>1, <2>1, SoloQuiet
  <1>3. CASE DOMAIN batches # {}
    <2> DEFINE keys    == FirstBatches
               events  == SpansIn(keys)
               fresh   == NewSession(minted + 1, now)
               stored  == IF session.id = 0 THEN fresh ELSE session
               blocked == stored.abandoned /\ ~CooldownElapsed(stored)
               rolled  == ~blocked /\ (stored.abandoned \/ SessionFull(stored))
               current == IF rolled THEN fresh ELSE stored
               target  == IF blocked \/ events = {} THEN "save"
                          ELSE IF current.metadataUploaded THEN "chunk"
                          ELSE "metadata"
               locals  == [keys |-> keys, events |-> events, at |-> now,
                           state |-> current, uploaded |-> FALSE]
    <2>1. /\ D' = locals /\ P' = target
          /\ minted' = IF current.id > minted THEN minted + 1 ELSE minted
      BY <1>3 DEF Start, BeginDrain, D, P, TypeOK, MemoryTypeOK
    <2>2. /\ fresh.id = minted + 1 /\ fresh.abandoned = FALSE
          /\ fresh.chunkIndex = 0
      BY DEF NewSession
    <2>3. /\ D'.keys = FirstBatches /\ D'.events = SpansIn(FirstBatches)
          /\ D'.state = current /\ D'.uploaded = FALSE
      BY <2>1
    <2>4. P' \in {"save", "chunk", "metadata"}
      BY <2>1
    <2>5. P' # "save" => ~blocked
      BY <2>1
    <2> HIDE DEF fresh
    <2>6. \/ current = fresh \/ (current = session /\ session.id # 0)
      OBVIOUS
    <2>7. /\ current.id \in 1..minted' /\ minted <= minted' /\ minted' \in Nat
          /\ current = fresh => current.id = minted' /\ minted < current.id
          /\ current = session => minted' = minted
      BY <2>1, <2>2, <2>6 DEF IdsInv
    <2>8. P' # "save" => (session.abandoned => CooldownElapsed(session))
      BY <2>5 DEF IdsInv
    <2>9. CooldownElapsed(session)' = CooldownElapsed(session)
      BY <1>1 DEF CooldownElapsed
    <2> HIDE DEF current, locals, target
    <2>10. /\ DiscardedBatches' = DiscardedBatches /\ InS3' = InS3
           /\ PendingBatches' = PendingBatches /\ FirstBatches' = FirstBatches
           /\ \A K : SpansIn(K)' = SpansIn(K)
      BY <1>1 DEF DiscardedBatches, InS3, PendingBatches, FirstBatches, SpansIn
    <2>11. StoreInv' /\ SlotInv'
      BY <1>1, <2>10 DEF StoreInv, SlotInv, NextSlot
    <2>12. IdsInv'
      <3>1. \A c \in chunks : c.session \in Nat /\ c.session <= minted
        BY DEF IdsInv, TypeOK, S3TypeOK, ChunkObjects
      <3> QED  BY <1>1, <2>7, <3>1 DEF IdsInv
    <2>13. NextSlot(current, SpansIn(FirstBatches))
      <3>1. CASE current = fresh
        <4>1. \A c \in chunks : c.session # current.id
          BY <2>7, <3>1 DEF IdsInv, TypeOK, S3TypeOK, ChunkObjects
        <4> QED  BY <4>1 DEF NextSlot
      <3>2. CASE current = session /\ session.id # 0
        BY <3>2 DEF SlotInv
      <3> QED  BY <2>6, <3>1, <3>2
    <2>14. TakenInv'
      <3>1. NextSlot(D.state, IF D.uploaded THEN {} ELSE D.events)'
        BY <1>1, <2>3, <2>10, <2>13 DEF NextSlot
      <3>2. SpansIn(D.keys)' = SpansIn(FirstBatches)
        BY <1>1, <2>3 DEF SpansIn
      <3> QED  BY <1>1, <2>3, <2>10, <3>1, <3>2, FirstAreFirst DEF TakenInv
    <2>15. DrainInv'
      <3>1. D'.state.id = session.id => D'.state.chunkIndex = session.chunkIndex
        BY <2>3, <2>6, <2>7 DEF IdsInv
      <3> QED  BY <1>1, <2>3, <2>4, <2>7, <2>8, <2>9, <3>1 DEF DrainInv
    <2>16. OrderInv'
      <3>1. SUFFICES ASSUME faults = 0 PROVE OrderInv'
        BY <1>1 DEF OrderInv
      <3>2. D'.state.id = minted'
        BY <1>1, <2>3, <2>6, <2>7, <3>1 DEF OrderInv
      <3>3. ChunksInOrder'
        BY <1>1, <2>10, <3>1 DEF OrderInv, ChunksInOrder
      <3>4. \A c \in chunks : \A e \in c.events, f \in PendingBatches :
              e \in DiscardedBatches \/ e < f
        BY <1>1, <3>1 DEF OrderInv
      <3> QED  BY <1>1, <2>4, <2>10, <3>2, <3>3, <3>4 DEF OrderInv
    <2> QED  BY <2>11, <2>12, <2>14, <2>15, <2>16
  <1> QED  BY <1>2, <1>3

(* Steps of the drain that leave everything but its locals alone, and move *)
(* no chunk number.                                                        *)
LEMMA SoloLocal ==
    ASSUME TypeOK, OneDrain, SoloInv,
           UNCHANGED <<batches, seq, session, chunks, now, minted, accepted,
                       discarded, faults>>,
           P \in {"metadata", "chunk", "marker"},
           P' \in {"chunk", "marker", "save"},
           P' = "chunk" => P = "metadata",
           P = "marker" => P' # "marker",
           UNCHANGED <<D.keys, D.events, D.uploaded, D.state.id,
                       D.state.chunkIndex>>
    PROVE  SoloInv'
  <1> USE SoloFacts DEF SoloInv
  <1>1. /\ DiscardedBatches' = DiscardedBatches /\ InS3' = InS3
        /\ PendingBatches' = PendingBatches /\ FirstBatches' = FirstBatches
        /\ \A K : SpansIn(K)' = SpansIn(K)
    BY DEF DiscardedBatches, InS3, PendingBatches, FirstBatches, SpansIn
  <1>2. StoreInv' /\ IdsInv' /\ SlotInv'
    BY <1>1 DEF StoreInv, IdsInv, SlotInv, NextSlot
  <1>3. TakenInv'
    <2>1. /\ D.keys \subseteq FirstBatches
          /\ \A j \in D.keys, k \in DOMAIN batches \ D.keys : j < k
          /\ D.events = SpansIn(D.keys)
          /\ NextSlot(D.state, IF D.uploaded THEN {} ELSE D.events)
          /\ D.uploaded => D.events \subseteq InS3
      BY DEF TakenInv
    <2>2. NextSlot(D.state, IF D.uploaded THEN {} ELSE D.events)'
      BY <1>1, <2>1 DEF NextSlot
    <2>3. SpansIn(D.keys)' = SpansIn(D.keys)
      BY DEF SpansIn
    <2> QED  BY <1>1, <2>1, <2>2, <2>3 DEF TakenInv
  <1>4. DrainInv'
    BY DEF DrainInv, CooldownElapsed
  <1>5. OrderInv'
    <2>1. CASE faults # 0
      BY <2>1 DEF OrderInv
    <2>2. CASE faults = 0
      BY <1>1, <2>2 DEF OrderInv, ChunksInOrder
    <2> QED  BY <2>1, <2>2
  <1> QED  BY <1>2, <1>3, <1>4, <1>5

LEMMA SoloMetadata ==
    ASSUME TypeOK, OneDrain, SoloInv, UploadMetadata(Alarm) PROVE SoloInv'
  <1> USE SoloFacts
  <1>1. /\ UNCHANGED <<batches, seq, session, chunks, now, minted, accepted,
                       discarded, faults>>
        /\ P = "metadata" /\ P' \in {"chunk", "marker"}
    BY DEF UploadMetadata, storageVars, P, TypeOK, MemoryTypeOK
  <1>2. UNCHANGED <<D.keys, D.events, D.uploaded, D.state.id, D.state.chunkIndex>>
    BY DEF UploadMetadata, D, TypeOK, MemoryTypeOK, Locals, SessionState
  <1> QED  BY <1>1, <1>2, SoloLocal

LEMMA SoloAbandon ==
    ASSUME TypeOK, OneDrain, SoloInv, Abandon(Alarm) PROVE SoloInv'
  <1> USE SoloFacts
  <1>1. /\ UNCHANGED <<batches, seq, session, chunks, now, minted, accepted,
                       discarded, faults>>
        /\ P = "marker" /\ P' = "save"
    BY DEF Abandon, storageVars, P, TypeOK, MemoryTypeOK
  <1>2. UNCHANGED <<D.keys, D.events, D.uploaded, D.state.id, D.state.chunkIndex>>
    BY DEF Abandon, D, TypeOK, MemoryTypeOK, Locals, SessionState
  <1> QED  BY <1>1, <1>2, SoloLocal

(* A chunk is written under the next number, over at most what the last    *)
(* write under that number left; the step may be the success or a failure. *)
LEMMA SoloChunk ==
    ASSUME TypeOK, OneDrain, SoloInv, UploadChunk(Alarm) PROVE SoloInv'
  <1> USE SoloFacts DEF SoloInv
  <1> DEFINE new == Chunk(D.state.id, D.state.chunkIndex + 1, D.events)
  <1>1. /\ UNCHANGED <<batches, seq, session, now, minted, accepted,
                       discarded, faults>>
        /\ P = "chunk"
    BY DEF UploadChunk, storageVars, P
  <1>2. /\ UNCHANGED <<D.keys, D.events, D.state.id>>
        /\ \/ /\ chunks' = PutChunk(new) /\ P' = "save" /\ D'.uploaded = TRUE
              /\ D'.state.chunkIndex = D.state.chunkIndex + 1
           \/ /\ chunks' \in {chunks, PutChunk(new)} /\ P' \in {"marker", "save"}
              /\ UNCHANGED <<D.uploaded, D.state.chunkIndex>>
    BY DEF UploadChunk, FailedChunk, D, P, TypeOK, MemoryTypeOK, Locals,
           SessionState
  <1>3. /\ D.keys \subseteq FirstBatches /\ D.events = SpansIn(D.keys)
        /\ \A j \in D.keys, k \in DOMAIN batches \ D.keys : j < k
        /\ ~D.uploaded /\ NextSlot(D.state, D.events)
        /\ D.state.id \in 1..minted
        /\ D.state.id = session.id => D.state.chunkIndex = session.chunkIndex
    BY <1>1 DEF TakenInv, DrainInv
  <1>4. /\ new.session = D.state.id /\ new.index = D.state.chunkIndex + 1
        /\ new.events = D.events
    BY DEF Chunk
  <1> HIDE DEF new
  <1>5. chunks' \subseteq chunks \cup {new}
    BY <1>2 DEF PutChunk
  <1>6. /\ DiscardedBatches' = DiscardedBatches
        /\ PendingBatches' = PendingBatches /\ FirstBatches' = FirstBatches
        /\ \A K : SpansIn(K)' = SpansIn(K)
    BY <1>1 DEF DiscardedBatches, PendingBatches, FirstBatches, SpansIn
  <1>7. /\ D.events \subseteq SpansIn(FirstBatches)
        /\ D.events \subseteq PendingBatches /\ D.events \subseteq 1..accepted
    <2>1. /\ D.events \subseteq SpansIn(FirstBatches)
          /\ D.events \subseteq PendingBatches
      BY <1>3 DEF SpansIn, PendingBatches
    <2>2. \A k \in DOMAIN batches : batches[k] \in Nat
      BY DEF TypeOK, StorageTypeOK
    <2>3. PendingBatches \subseteq 1..accepted
      BY <2>2 DEF PendingBatches, StoreInv
    <2> QED  BY <2>1, <2>3
  <1>8. InS3' \subseteq InS3 \cup D.events
    BY <1>4, <1>5 DEF InS3
  <1>9. StoreInv'
    BY <1>1, <1>6, <1>7, <1>8 DEF StoreInv
  <1>10. IdsInv'
    BY <1>1, <1>3, <1>4, <1>5 DEF IdsInv
  <1>11. SlotInv'
    <2>1. ASSUME session.id # 0, NEW c \in chunks', c.session = session.id,
                 c.index > session.chunkIndex
          PROVE  /\ c.index = session.chunkIndex + 1
                 /\ c.events \subseteq DiscardedBatches \cup SpansIn(FirstBatches)
      <3>1. CASE c \in chunks
        BY <2>1, <3>1 DEF SlotInv, NextSlot
      <3>2. CASE c = new
        BY <1>3, <1>4, <1>7, <2>1, <3>2
      <3> QED  BY <1>5, <3>1, <3>2
    <2> QED  BY <1>1, <1>6, <2>1 DEF SlotInv, NextSlot
  <1>12. TakenInv'
    <2>1. NextSlot(D.state, IF D.uploaded THEN {} ELSE D.events)'
      <3>1. CASE D'.uploaded = TRUE
        <4>1. /\ chunks' = PutChunk(new) /\ new \in chunks'
              /\ D'.state.chunkIndex = D.state.chunkIndex + 1
          BY <1>2, <1>3, <3>1 DEF PutChunk
        <4>2. ASSUME NEW c \in chunks', c.session = D.state.id
              PROVE  c.index <= D.state.chunkIndex + 1
          <5>1. CASE c = new
            BY <1>4, <5>1
          <5>2. CASE c # new
            <6>1. c \in chunks /\ c.index \in Nat
              BY <1>5, <5>2 DEF TypeOK, S3TypeOK, ChunkObjects
            <6> QED  BY <1>3, <4>2, <6>1 DEF NextSlot
          <5> QED  BY <5>1, <5>2
        <4>3. \A c \in chunks' : c.session = D'.state.id =>
                                   ~(c.index > D'.state.chunkIndex)
          <5>1. \A c \in chunks' : c.index \in Nat
            BY <1>4, <1>5 DEF TypeOK, S3TypeOK, ChunkObjects
          <5> QED  BY <1>2, <4>1, <4>2, <5>1
        <4> QED  BY <4>3 DEF NextSlot
      <3>2. CASE D'.uploaded # TRUE
        <4>1. UNCHANGED <<D.uploaded, D.state.chunkIndex>>
          BY <1>2, <3>2
        <4>2. ASSUME NEW c \in chunks', c.session = D.state.id,
                     c.index > D.state.chunkIndex
              PROVE  /\ c.index = D.state.chunkIndex + 1
                     /\ c.events \subseteq DiscardedBatches \cup D.events
          BY <1>3, <1>4, <1>5, <4>2 DEF NextSlot
        <4> QED  BY <1>2, <1>3, <1>6, <4>1, <4>2 DEF NextSlot
      <3> QED  BY <3>1, <3>2
    <2>2. D'.uploaded => D'.events \subseteq InS3'
      <3>1. D'.uploaded => new \in chunks'
        BY <1>2, <1>3 DEF PutChunk
      <3> QED  BY <1>2, <1>4, <3>1 DEF InS3
    <2>3. SpansIn(D.keys)' = SpansIn(D.keys)
      BY <1>1, <1>2 DEF SpansIn
    <2> QED  BY <1>1, <1>2, <1>3, <1>6, <2>1, <2>2, <2>3 DEF TakenInv
  <1>13. DrainInv'
    BY <1>1, <1>2, <1>3 DEF DrainInv
  <1>14. OrderInv'
    <2>1. SUFFICES ASSUME faults = 0 PROVE OrderInv'
      BY <1>1 DEF OrderInv
    <2>2. \A c \in chunks : \A e \in c.events, f \in PendingBatches :
            e \in DiscardedBatches \/ e < f
      BY <1>1, <2>1 DEF OrderInv
    <2>3. D.state.id = minted
      BY <1>1, <2>1 DEF OrderInv
    <2>4. \A c \in chunks' : \A e \in c.events, f \in PendingBatches :
            \/ e \in DiscardedBatches \/ e < f
            \/ e \in D.events
      BY <1>4, <1>5, <2>2
    <2>5. ChunksInOrder'
      <3>1. ASSUME NEW c \in chunks', NEW d \in chunks', NEW e \in c.events,
                   NEW f \in d.events,
                   \/ c.session < d.session
                   \/ c.session = d.session /\ c.index < d.index
            PROVE  e < f \/ e \in DiscardedBatches
        <4>1. c = new \/ c \in chunks
          BY <1>5
        <4>2. CASE c \in chunks /\ d \in chunks
          BY <2>1, <3>1, <4>2 DEF OrderInv, ChunksInOrder
        <4>3. CASE c \in chunks /\ d = new
          BY <1>4, <1>7, <2>2, <4>3
        <4>4. CASE c = new /\ d = new
          BY <1>4, <3>1, <4>4
        <4>5. CASE c = new /\ d # new
          <5>1. /\ d \in chunks /\ d.session \in Nat /\ d.index \in Nat
                /\ d.session <= minted
            BY <1>5, <4>5 DEF TypeOK, S3TypeOK, ChunkObjects, IdsInv
          <5>2. d.session = D.state.id /\ d.index > D.state.chunkIndex + 1
            BY <1>4, <2>3, <3>1, <4>5, <5>1
          <5>3. d.index = D.state.chunkIndex + 1
            BY <1>3, <5>1, <5>2 DEF NextSlot
          <5> QED  BY <5>2, <5>3
        <4> QED  BY <1>5, <4>1, <4>2, <4>3, <4>4, <4>5
      <3> QED  BY <1>6, <3>1 DEF ChunksInOrder
    <2> QED  BY <1>1, <1>2, <1>6, <2>1, <2>3, <2>4, <2>5 DEF OrderInv
  <1> QED  BY <1>9, <1>10, <1>11, <1>12, <1>13, <1>14

LEMMA SoloSave ==
    ASSUME TypeOK, OneDrain, SoloInv, SaveState(Alarm) PROVE SoloInv'
  <1> USE SoloFacts DEF SoloInv
  <1>1. /\ UNCHANGED <<batches, seq, mem, chunks, now, minted, accepted,
                       discarded, faults>>
        /\ P = "save" /\ P' = "delete" /\ session' = D.state /\ D' = D
    BY DEF SaveState, s3Vars, P, D, TypeOK, MemoryTypeOK
  <1>2. /\ DiscardedBatches' = DiscardedBatches /\ InS3' = InS3
        /\ PendingBatches' = PendingBatches /\ FirstBatches' = FirstBatches
        /\ \A K : SpansIn(K)' = SpansIn(K)
    BY <1>1 DEF DiscardedBatches, InS3, PendingBatches, FirstBatches, SpansIn
  <1>3. StoreInv'
    BY <1>1, <1>2 DEF StoreInv
  <1>4. IdsInv'
    BY <1>1 DEF IdsInv, DrainInv
  <1>5. TakenInv'
    <2>1. SpansIn(D.keys)' = SpansIn(D.keys)
      BY <1>1 DEF SpansIn
    <2> QED  BY <1>1, <1>2, <2>1 DEF TakenInv, NextSlot
  <1>6. SlotInv'
    <2>1. /\ D.events \subseteq SpansIn(FirstBatches)
          /\ NextSlot(D.state, IF D.uploaded THEN {} ELSE D.events)
      BY <1>1 DEF TakenInv, SpansIn
    <2>2. NextSlot(D.state, SpansIn(FirstBatches))
      BY <2>1 DEF NextSlot
    <2> QED  BY <1>1, <1>2, <2>2 DEF SlotInv, NextSlot
  <1>7. DrainInv'
    BY <1>1 DEF DrainInv
  <1>8. OrderInv'
    BY <1>1, <1>2 DEF OrderInv, ChunksInOrder
  <1> QED  BY <1>3, <1>4, <1>5, <1>6, <1>7, <1>8

(* What was taken goes, uploaded or given up.                              *)
LEMMA SoloDelete ==
    ASSUME TypeOK, OneDrain, SoloInv, DeleteBatches(Alarm) PROVE SoloInv'
  <1> USE SoloFacts DEF SoloInv
  <1>1. /\ UNCHANGED <<seq, session, mem, chunks, now, minted, accepted, faults>>
        /\ batches' = Without(D.keys)
        /\ discarded' = IF D.uploaded THEN discarded
                        ELSE discarded \cup (SpansIn(D.keys) \X {D.state.id})
        /\ P = "delete" /\ P' \in {"drop", "rearm"} /\ D' = D
    BY DEF DeleteBatches, s3Vars, P, D, TypeOK, MemoryTypeOK
  <1>2. /\ D.keys \subseteq DOMAIN batches /\ D.events = SpansIn(D.keys)
        /\ \A j \in D.keys, k \in DOMAIN batches \ D.keys : j < k
        /\ NextSlot(D.state, IF D.uploaded THEN {} ELSE D.events)
        /\ session = D.state
    BY <1>1, FirstAreFirst DEF TakenInv, DrainInv
  <1>3. DiscardedBatches' = IF D.uploaded THEN DiscardedBatches
                            ELSE DiscardedBatches \cup D.events
    <2>1. CASE D.uploaded
      BY <1>1, <2>1 DEF DiscardedBatches
    <2>2. CASE ~D.uploaded
      BY <1>1, <1>2, <2>2, DiscardShape
    <2> QED  BY <2>1, <2>2
  <1>4. StoreInv'
    BY <1>1, <1>2, <1>3, RemoveStore
  <1>5. IdsInv'
    BY <1>1 DEF IdsInv
  <1>6. SlotInv'
    <2>1. \A c \in chunks :
            c.session = session.id /\ c.index > session.chunkIndex =>
              /\ c.index = session.chunkIndex + 1
              /\ c.events \subseteq DiscardedBatches'
      BY <1>2, <1>3 DEF NextSlot
    <2> QED  BY <1>1, <2>1 DEF SlotInv, NextSlot
  <1>7. TakenInv'
    BY <1>1 DEF TakenInv
  <1>8. DrainInv'
    BY <1>1, <1>2 DEF DrainInv
  <1>9. OrderInv'
    <2>1. SUFFICES ASSUME faults = 0 PROVE OrderInv'
      BY <1>1 DEF OrderInv
    <2>2. /\ PendingBatches' = PendingBatches \ D.events
          /\ \A k \in DOMAIN batches' : k \in DOMAIN batches \ D.keys
                                        /\ batches'[k] = batches[k]
      BY <1>1, <1>2, RemoveShape
    <2>3. \A e \in D.events, f \in PendingBatches' : e < f
      <3>1. SUFFICES ASSUME NEW j \in D.keys, NEW k \in DOMAIN batches',
                            batches[j] # 0, batches'[k] # 0
                     PROVE  batches[j] < batches'[k]
        BY <1>2 DEF SpansIn, PendingBatches
      <3>2. j \in DOMAIN batches /\ k \in DOMAIN batches /\ j < k
        BY <1>2, <2>2
      <3> QED  BY <2>2, <3>1, <3>2 DEF StoreInv
    <2>4. DiscardedBatches \subseteq DiscardedBatches'
      BY <1>3
    <2>5. ASSUME NEW c \in chunks, NEW e \in c.events, NEW f \in PendingBatches'
          PROVE  e \in DiscardedBatches' \/ e < f
      <3>1. e \in DiscardedBatches \/ e < f \/ e \in D.events
        BY <1>1, <2>1, <2>2 DEF OrderInv
      <3> QED  BY <2>3, <2>4, <3>1
    <2>6. ChunksInOrder'
      BY <1>1, <2>1, <2>4 DEF OrderInv, ChunksInOrder
    <2>7. D.state.id = minted
      BY <1>1, <2>1 DEF OrderInv
    <2> QED  BY <1>1, <2>1, <2>5, <2>6, <2>7 DEF OrderInv
  <1> QED  BY <1>4, <1>5, <1>6, <1>7, <1>8, <1>9

LEMMA SoloDrop ==
    ASSUME TypeOK, OneDrain, SoloInv, DropEverythingPending(Alarm)
    PROVE  SoloInv'
  <1> USE SoloFacts DEF SoloInv
  <1>1. /\ UNCHANGED <<seq, session, chunks, now, minted, accepted, faults>>
        /\ batches' = Without(FirstBatches)
        /\ discarded' = discarded \cup (SpansIn(FirstBatches) \X {D.state.id})
        /\ P = "drop" /\ (P' = "idle" \/ (P' = "drop" /\ D' = D))
    BY DEF DropEverythingPending, Finish, s3Vars, P, D, TypeOK, MemoryTypeOK
  <1>2. FirstBatches \subseteq DOMAIN batches
    BY FirstAreFirst
  <1>3. DiscardedBatches' = DiscardedBatches \cup SpansIn(FirstBatches)
    BY <1>1, DiscardShape
  <1>4. StoreInv'
    BY <1>1, <1>2, <1>3, RemoveStore
  <1>5. IdsInv'
    BY <1>1 DEF IdsInv
  <1>6. SlotInv'
    <2>1. session.id # 0 =>
            \A c \in chunks :
              c.session = session.id /\ c.index > session.chunkIndex =>
                /\ c.index = session.chunkIndex + 1
                /\ c.events \subseteq DiscardedBatches'
      BY <1>3 DEF SlotInv, NextSlot
    <2> QED  BY <1>1, <2>1 DEF SlotInv, NextSlot
  <1>7. TakenInv'
    BY <1>1 DEF TakenInv
  <1>8. DrainInv'
    BY <1>1 DEF DrainInv
  <1>9. OrderInv'
    <2>1. SUFFICES ASSUME faults = 0 PROVE OrderInv'
      BY <1>1 DEF OrderInv
    <2>2. /\ PendingBatches' \subseteq PendingBatches
          /\ DiscardedBatches \subseteq DiscardedBatches'
      BY <1>1, <1>2, <1>3, RemoveShape
    <2>3. \A c \in chunks : \A e \in c.events, f \in PendingBatches' :
            e \in DiscardedBatches' \/ e < f
      BY <1>1, <2>1, <2>2 DEF OrderInv
    <2>4. ChunksInOrder'
      BY <1>1, <2>1, <2>2 DEF OrderInv, ChunksInOrder
    <2>5. session = D.state /\ D.state.id = minted
      BY <1>1, <2>1 DEF OrderInv, DrainInv
    <2> QED  BY <1>1, <2>1, <2>3, <2>4, <2>5 DEF OrderInv
  <1> QED  BY <1>4, <1>5, <1>6, <1>7, <1>8, <1>9

LEMMA SoloRearm ==
    ASSUME TypeOK, OneDrain, SoloInv, Rearm(Alarm) PROVE SoloInv'
  <1> USE SoloFacts DEF SoloInv
  <1>1. /\ UNCHANGED <<batches, seq, session, chunks, now, minted, accepted,
                       discarded, faults>>
        /\ P = "rearm" /\ P' = "idle"
    BY DEF Rearm, Finish, s3Vars, P, TypeOK, MemoryTypeOK
  <1>2. /\ DiscardedBatches' = DiscardedBatches /\ InS3' = InS3
        /\ PendingBatches' = PendingBatches /\ FirstBatches' = FirstBatches
        /\ \A K : SpansIn(K)' = SpansIn(K)
    BY <1>1 DEF DiscardedBatches, InS3, PendingBatches, FirstBatches, SpansIn
  <1>3. StoreInv' /\ IdsInv' /\ SlotInv'
    BY <1>1, <1>2 DEF StoreInv, IdsInv, SlotInv, NextSlot
  <1>4. TakenInv' /\ DrainInv'
    BY <1>1 DEF TakenInv, DrainInv
  <1>5. OrderInv'
    BY <1>1, <1>2 DEF OrderInv, ChunksInOrder, DrainInv
  <1> QED  BY <1>3, <1>4, <1>5

LEMMA SoloNext == ASSUME TypeOK, OneDrain, SoloInv, [Next]_vars PROVE SoloInv'
  <1>1. /\ Handlers = {Alarm} /\ now \in Nat /\ faults \in Nat
        /\ mem \in [Handlers -> Locals] /\ call \in [Handlers -> Phases]
    BY SoloFacts DEF TypeOK, MemoryTypeOK
  <1>2. CASE StoreReport
    BY <1>2, SoloReport
  <1>3. CASE ArmForReport \/ FailReport
    BY <1>1, <1>3, SoloQuiet DEF ArmForReport, FailReport, s3Vars, storageVars
  <1>4. CASE Start(Alarm)
    BY <1>4, SoloStart
  <1>5. CASE DrainStep(Alarm)
    BY <1>5, SoloMetadata, SoloChunk, SoloAbandon, SoloSave, SoloDelete,
       SoloDrop, SoloRearm DEF DrainStep
  <1>6. CASE Throw(Alarm)
    <2>1. /\ UNCHANGED <<batches, seq, session, chunks, minted, accepted,
                         discarded, now>>
          /\ faults' # 0 /\ P' = "idle"
      BY <1>1, <1>6 DEF Throw, Finish, s3Vars, P
    <2> QED  BY <1>1, <2>1, SoloQuiet
  <1>7. CASE Evict
    <2>1. /\ UNCHANGED <<batches, seq, session, chunks, minted, accepted,
                         discarded, now>>
          /\ faults' # 0 /\ P' = "idle"
      BY <1>1, <1>7 DEF Evict, s3Vars, P
    <2> QED  BY <1>1, <2>1, SoloQuiet
  <1>8. CASE Tick
    BY <1>1, <1>8, SoloQuiet DEF Tick, s3Vars, storageVars
  <1>9. CASE UNCHANGED vars
    BY <1>1, <1>9, SoloQuiet DEF vars, s3Vars, storageVars
  <1> QED
    BY <1>1, <1>2, <1>3, <1>4, <1>5, <1>6, <1>7, <1>8, <1>9 DEF Next

LEMMA SoloHolds == ASSUME OneDrain PROVE Spec => []SoloInv
  <1>1. Init => SoloInv
    BY SoloInit
  <1>2. TypeOK /\ SoloInv /\ [Next]_vars => SoloInv'
    BY SoloNext
  <1> QED  BY <1>1, <1>2, TypeCorrect, PTL DEF Spec

(* Without a fault the chunks of the sessions hold the batches in the      *)
(* order they arrived in, each of them once (the zero-padded keys, and the *)
(* one drain at a time that the alarm allows).                             *)
THEOREM ChunksOrdered == ASSUME OneDrain PROVE Spec => []ChunksInOrder
  <1>1. SoloInv => ChunksInOrder
    BY DEF SoloInv, OrderInv, ChunksInOrder
  <1> QED  BY <1>1, SoloHolds, PTL

(* Nothing is written to S3 for an abandoned session before its cooldown   *)
(* is over, whatever arrives and whatever is evicted meanwhile.            *)
THEOREM BacksOff == ASSUME OneDrain PROVE Spec => BackoffRespected
  <1> DEFINE A == (chunks' # chunks \/ metadata' # metadata) /\ session.abandoned
                    => now - session.abandonedAt >= ABANDON_COOLDOWN
  <1>1. ASSUME TypeOK, SoloInv, [Next]_vars PROVE [A]_vars
    <2>1. SUFFICES ASSUME Next, chunks' # chunks \/ metadata' # metadata,
                          session.abandoned
                   PROVE  CooldownElapsed(session)
      BY <1>1 DEF CooldownElapsed
    <2>2. Handlers = {Alarm}
      BY <1>1, SoloFacts
    <2>3. UploadMetadata(Alarm) \/ UploadChunk(Alarm)
      BY <2>1, <2>2
         DEF Next, DrainStep, s3Vars, ArmForReport, StoreReport, FailReport,
             Start, Abandon, SaveState, DeleteBatches, DropEverythingPending,
             Rearm, Throw, Evict, Tick
    <2>4. P \in {"metadata", "chunk"}
      BY <2>3 DEF UploadMetadata, UploadChunk, P
    <2> QED  BY <1>1, <2>1, <2>4 DEF SoloInv, DrainInv
  <1> QED  BY <1>1, SoloHolds, TypeCorrect, PTL DEF Spec, BackoffRespected

-----------------------------------------------------------------------------
(* Numbers and markers.  The stored session never goes back: what a drain  *)
(* has in memory is the stored session or a later one, and a session that  *)
(* is given up stays so.                                                   *)

NotOlder(s, t) ==
    \/ s.id > t.id
    \/ /\ s.id = t.id /\ s.chunkIndex >= t.chunkIndex
       /\ t.abandoned => s.abandoned

(* A session with a marker has been given up, or is about to be.           *)
MarkInv ==
    faults = 0 => \A id \in marked :
      \/ id < session.id
      \/ id = session.id /\ session.abandoned
      \/ P = "save" /\ D.state.id = id /\ D.state.abandoned

AgeInv == (P # "idle" => NotOlder(D.state, session)) /\ MarkInv

LEMMA AgeStart ==
    ASSUME TypeOK, OneDrain, SoloInv, Start(Alarm)
    PROVE  /\ UNCHANGED <<session, marked, faults>> /\ P = "idle"
           /\ P' # "idle" => NotOlder(D'.state, session)
  <1> USE SoloFacts
  <1>1. UNCHANGED <<session, marked, faults>> /\ P = "idle"
    BY DEF Start, s3Vars, P
  <1>2. CASE DOMAIN batches = {}
    BY <1>1, <1>2 DEF Start, P
  <1>3. CASE DOMAIN batches # {}
    <2>1. PICK s \in {session, NewSession(minted + 1, now)} : D'.state = s
      BY <1>3 DEF Start, BeginDrain, D, TypeOK, MemoryTypeOK
    <2>2. CASE s = session
      BY <1>1, <2>1, <2>2 DEF NotOlder
    <2>3. CASE s = NewSession(minted + 1, now)
      BY <1>1, <2>1, <2>3 DEF NotOlder, NewSession, SoloInv, IdsInv
    <2> QED  BY <1>1, <2>1, <2>2, <2>3
  <1> QED  BY <1>2, <1>3, <1>1

LEMMA AgeNext ==
    ASSUME TypeInv, OneDrain, SoloInv, AgeInv, [Next]_vars
    PROVE  AgeInv' /\ NotOlder(session', session)
  <1> USE DEF AgeInv
  <1>t. TypeOK
    BY DEF TypeInv
  <1>1. /\ Handlers = {Alarm} /\ session \in SessionState /\ D.state \in SessionState
        /\ faults \in Nat /\ minted \in Nat
        /\ mem \in [Handlers -> Locals] /\ call \in [Handlers -> Phases]
    BY <1>t, SoloFacts DEF TypeOK, MemoryTypeOK
  <1>2. /\ session.id \in Nat /\ session.chunkIndex \in Nat
        /\ D.state.id \in Nat /\ D.state.chunkIndex \in Nat
    BY <1>t, SoloFacts
  <1>3. NotOlder(session, session)
    BY <1>2 DEF NotOlder
  <1>4. CASE \/ UNCHANGED <<session, marked, faults, call, mem>>
             \/ UNCHANGED <<session, marked>> /\ faults' # 0 /\ P' = "idle"
    BY <1>3, <1>4 DEF MarkInv, P, D, NotOlder
  <1>5. CASE Start(Alarm)
    BY <1>t, <1>3, <1>5, AgeStart DEF MarkInv, NotOlder
  <1>6. CASE UploadMetadata(Alarm) \/ UploadChunk(Alarm)
    <2>1. /\ UNCHANGED <<session, marked, faults>>
          /\ P \in {"metadata", "chunk"} /\ P' # "idle"
      BY <1>1, <1>6 DEF UploadMetadata, UploadChunk, storageVars, P
    <2>2. /\ D'.state.id = D.state.id /\ D'.state.abandoned = D.state.abandoned
          /\ D'.state.chunkIndex \in {D.state.chunkIndex, D.state.chunkIndex + 1}
      BY <1>1, <1>6 DEF UploadMetadata, UploadChunk, FailedChunk, D, Locals,
                        SessionState
    <2> QED  BY <1>2, <1>3, <2>1, <2>2 DEF MarkInv, NotOlder
  <1>7. CASE Abandon(Alarm)
    <2>1. /\ UNCHANGED <<session, faults>> /\ P = "marker" /\ P' = "save"
          /\ marked' \subseteq marked \cup {D.state.id}
      BY <1>1, <1>7 DEF Abandon, storageVars, P, D
    <2>2. /\ D'.state.id = D.state.id /\ D'.state.abandoned
          /\ D'.state.chunkIndex = D.state.chunkIndex
      BY <1>1, <1>7 DEF Abandon, D, Locals, SessionState
    <2> QED  BY <1>2, <1>3, <2>1, <2>2 DEF MarkInv, NotOlder
  <1>8. CASE SaveState(Alarm)
    <2>1. /\ UNCHANGED <<marked, faults>> /\ D' = D
          /\ P = "save" /\ P' = "delete" /\ session' = D.state
      BY <1>1, <1>8 DEF SaveState, s3Vars, P, D
    <2>2. marked \subseteq Nat
      BY <1>t DEF TypeOK, S3TypeOK
    <2>3. NotOlder(D.state, session)
      BY <2>1
    <2>4. MarkInv'
      <3> SUFFICES ASSUME faults = 0, NEW id \in marked
                   PROVE  \/ id < D.state.id
                          \/ id = D.state.id /\ D.state.abandoned
        BY <2>1 DEF MarkInv
      <3>1. \/ id < session.id
            \/ id = session.id /\ session.abandoned
            \/ D.state.id = id /\ D.state.abandoned
        BY DEF MarkInv
      <3> QED  BY <1>2, <2>2, <2>3, <3>1 DEF NotOlder
    <2> QED  BY <1>2, <2>1, <2>3, <2>4 DEF NotOlder
  <1>9. CASE \/ DeleteBatches(Alarm) \/ DropEverythingPending(Alarm)
             \/ Rearm(Alarm)
    <2>1. /\ UNCHANGED <<session, marked, faults>>
          /\ P \in {"delete", "drop", "rearm"}
          /\ P' = "idle" \/ D' = D
      BY <1>1, <1>9 DEF DeleteBatches, DropEverythingPending, Rearm, Finish,
                        s3Vars, P, D
    <2> QED  BY <1>3, <2>1 DEF MarkInv, NotOlder
  <1> QED
    <2>1. CASE ArmForReport \/ StoreReport \/ Tick \/ UNCHANGED vars
      BY <1>4, <2>1 DEF ArmForReport, StoreReport, Tick, vars, s3Vars, storageVars
    <2>2. CASE FailReport
      BY <1>1, <1>3, <2>2
      DEF FailReport, s3Vars, storageVars, MarkInv, P, D, NotOlder
    <2>3. CASE Throw(Alarm) \/ Evict
      BY <1>1, <1>4, <2>3 DEF Throw, Evict, Finish, s3Vars, P
    <2> QED
      BY <1>1, <1>5, <1>6, <1>7, <1>8, <1>9, <2>1, <2>2, <2>3
      DEF Next, DrainStep

LEMMA AgeHolds == ASSUME OneDrain PROVE Spec => [](TypeInv /\ SoloInv /\ AgeInv)
  <1>1. Init => AgeInv
    BY SoloFacts DEF Init, AgeInv, MarkInv, P, Handlers
  <1>2. TypeInv /\ SoloInv /\ AgeInv /\ [Next]_vars => AgeInv'
    BY AgeNext
  <1>3. Spec => []TypeInv
    BY TypeInvInit, TypeInvNext, PTL DEF Spec
  <1> QED  BY <1>1, <1>2, <1>3, SoloHolds, PTL DEF Spec

(* What the comment on the object promises of one drain at a time: the     *)
(* chunk number only grows, and so does the session; a session that was    *)
(* given up is never taken up again.  Evictions and errors included.       *)
THEOREM NumbersGrow ==
    ASSUME OneDrain PROVE Spec => [][NotOlder(session', session)]_vars
  <1>1. TypeInv /\ SoloInv /\ AgeInv /\ [Next]_vars => [NotOlder(session', session)]_vars
    BY AgeNext
  <1> QED  BY <1>1, AgeHolds, PTL DEF Spec

(* Unless the object died, or its storage failed, between writing the      *)
(* marker and saving that the session is given up, no chunk is written     *)
(* under a session that has its marker: abandoned.json is the last word.   *)
THEOREM MarkerIsFinal ==
    ASSUME OneDrain
    PROVE  Spec => [][faults = 0 =>
                        \A c \in chunks' \ chunks : c.session \notin marked]_vars
  <1> DEFINE A == faults = 0 =>
                    \A c \in chunks' \ chunks : c.session \notin marked
  <1>1. ASSUME TypeInv, SoloInv, AgeInv, [Next]_vars PROVE [A]_vars
    <2>1. SUFFICES ASSUME Next, faults = 0, NEW c \in chunks' \ chunks
                   PROVE  c.session \notin marked
      BY <1>1
    <2>2. Handlers = {Alarm} /\ TypeOK
      BY <1>1, SoloFacts DEF TypeInv
    <2>3. UploadChunk(Alarm)
      BY <2>1, <2>2
         DEF Next, DrainStep, s3Vars, ArmForReport, StoreReport, FailReport,
             Start, UploadMetadata, Abandon, SaveState, DeleteBatches,
             DropEverythingPending, Rearm, Throw, Evict, Tick
    <2>4. P = "chunk" /\ c.session = D.state.id
      BY <2>1, <2>3 DEF UploadChunk, PutChunk, Chunk, P, D
    <2>5. ~D.state.abandoned /\ NotOlder(D.state, session)
      BY <1>1, <2>2, <2>4 DEF TypeInv, PhaseOK, Room, P, D, AgeInv
    <2>6. session.id \in Nat /\ D.state.id \in Nat
      BY <2>2, SoloFacts
    <2>7. c.session \in marked => \/ c.session < session.id
                                  \/ c.session = session.id /\ session.abandoned
      BY <1>1, <2>1, <2>4 DEF AgeInv, MarkInv
    <2> QED  BY <2>4, <2>5, <2>6, <2>7 DEF NotOlder
  <1> QED  BY <1>1, AgeHolds, PTL DEF Spec

-----------------------------------------------------------------------------
(* The object implements RecordedEvents.  Every step is a stutter, or one  *)
(* of the steps of the promise: a report is accepted, a chunk recorded,    *)
(* what was taken settled or given up.                                     *)

LEMMA PromiseReport ==
    ASSUME TypeOK, SoloInv, StoreReport
    PROVE  [Promise!Next]_(Promise!vars)
  <1>1. /\ accepted \in Nat /\ accepted' \in Nat /\ accepted <= accepted'
        /\ PendingBatches' = PendingBatches \cup (accepted + 1)..accepted'
    BY ReportShape DEF SoloInv, TypeOK, CountersTypeOK
  <1>2. DiscardedBatches' = DiscardedBatches /\ InS3' = InS3
    BY DEF StoreReport, s3Vars, DiscardedBatches, InS3
  <1>3. CASE accepted' > accepted
    BY <1>1, <1>2, <1>3 DEF Promise!Next, Promise!Accept
  <1>4. CASE accepted' = accepted
    <2>1. PendingBatches' = PendingBatches
      BY <1>1, <1>4
    <2> QED  BY <1>2, <1>4, <2>1 DEF Promise!vars
  <1> QED  BY <1>1, <1>3, <1>4

LEMMA PromiseChunk ==
    ASSUME TypeOK, OneDrain, SoloInv, UploadChunk(Alarm)
    PROVE  [Promise!Next]_(Promise!vars)
  <1> DEFINE new == Chunk(D.state.id, D.state.chunkIndex + 1, D.events)
  <1>1. /\ UNCHANGED <<batches, accepted, discarded>> /\ P = "chunk"
        /\ chunks' \in {chunks, PutChunk(new)}
    BY DEF UploadChunk, storageVars, P, D
  <1>2. /\ new.session = D.state.id /\ new.index = D.state.chunkIndex + 1
        /\ new.events = D.events
    BY DEF Chunk
  <1> HIDE DEF new
  <1>3. PendingBatches' = PendingBatches /\ DiscardedBatches' = DiscardedBatches
    BY <1>1 DEF PendingBatches, DiscardedBatches
  <1>4. D.events \subseteq PendingBatches /\ NextSlot(D.state, D.events)
    <2>1. /\ D.events = SpansIn(D.keys) /\ NextSlot(D.state, D.events)
      BY <1>1 DEF SoloInv, TakenInv, DrainInv
    <2> QED  BY <2>1 DEF SpansIn, PendingBatches
  <1>5. CASE chunks' = chunks
    <2>1. InS3' = InS3
      BY <1>5 DEF InS3
    <2> QED  BY <1>1, <1>3, <2>1 DEF Promise!vars
  <1>6. CASE chunks' = PutChunk(new)
    <2>1. new \in chunks' /\ chunks' \subseteq chunks \cup {new}
      BY <1>6 DEF PutChunk
    <2>2. ASSUME NEW e \in InS3 \ DiscardedBatches
          PROVE  e \in InS3'
      <3>1. PICK c \in chunks : e \in c.events
        BY DEF InS3
      <3>2. CASE c \in chunks'
        BY <3>1, <3>2 DEF InS3
      <3>3. CASE c \notin chunks'
        <4>1. c.session = new.session /\ c.index = new.index
          BY <1>6, <3>3 DEF PutChunk
        <4>2. D.state.chunkIndex \in Nat
          BY SoloFacts
        <4>3. c.events \subseteq DiscardedBatches \cup D.events
          BY <1>2, <1>4, <4>1, <4>2 DEF NextSlot
        <4> QED  BY <1>2, <2>1, <2>2, <3>1, <4>3 DEF InS3
      <3> QED  BY <3>2, <3>3
    <2>3. InS3' \subseteq InS3 \cup D.events /\ D.events \subseteq InS3'
      BY <1>2, <2>1 DEF InS3
    <2>4. InS3' \ DiscardedBatches'
            = (InS3 \ DiscardedBatches) \cup (D.events \ DiscardedBatches)
      BY <1>3, <2>2, <2>3
    <2>5. D.events \ DiscardedBatches \in SUBSET PendingBatches
      BY <1>4
    <2>6. \E E \in SUBSET PendingBatches :
            InS3' \ DiscardedBatches' = (InS3 \ DiscardedBatches) \cup E
      BY <2>4, <2>5
    <2> QED  BY <1>1, <1>3, <2>6 DEF Promise!Next, Promise!Record
  <1> QED  BY <1>1, <1>5, <1>6

(* Giving up batches that are still buffered.                              *)
LEMMA PromiseDiscard ==
    ASSUME TypeOK, StoreInv, NEW K \in SUBSET (DOMAIN batches),
           batches' = Without(K), UNCHANGED <<chunks, accepted>>,
           DiscardedBatches' = DiscardedBatches \cup SpansIn(K)
    PROVE  [Promise!Next]_(Promise!vars)
  <1>1. /\ PendingBatches' = PendingBatches \ SpansIn(K)
        /\ SpansIn(K) \in SUBSET PendingBatches
    BY RemoveShape
  <1>2. InS3' \ DiscardedBatches' = (InS3 \ DiscardedBatches) \ SpansIn(K)
    BY DEF InS3
  <1> QED  BY <1>1, <1>2 DEF Promise!Next, Promise!Discard

LEMMA PromiseDelete ==
    ASSUME TypeOK, OneDrain, SoloInv, DeleteBatches(Alarm)
    PROVE  [Promise!Next]_(Promise!vars)
  <1>1. /\ UNCHANGED <<chunks, accepted>> /\ batches' = Without(D.keys)
        /\ discarded' = IF D.uploaded THEN discarded
                        ELSE discarded \cup (SpansIn(D.keys) \X {D.state.id})
        /\ P = "delete"
    BY DEF DeleteBatches, s3Vars, P, D
  <1>2. /\ D.keys \in SUBSET (DOMAIN batches) /\ D.events = SpansIn(D.keys)
        /\ D.uploaded => D.events \subseteq InS3
    BY <1>1, FirstAreFirst DEF SoloInv, TakenInv
  <1>3. CASE D.uploaded
    <2>1. /\ PendingBatches' = PendingBatches \ D.events
          /\ D.events \subseteq PendingBatches
      <3>1. StoreInv
        BY DEF SoloInv
      <3>2. PendingBatches' = PendingBatches \ SpansIn(D.keys)
            /\ SpansIn(D.keys) \subseteq PendingBatches
        BY <1>1, <1>2, <3>1, RemoveShape
      <3> QED  BY <1>2, <3>2
    <2>2. DiscardedBatches' = DiscardedBatches /\ InS3' = InS3
      BY <1>1, <1>3 DEF DiscardedBatches, InS3
    <2>3. D.events \in SUBSET (PendingBatches \cap (InS3 \ DiscardedBatches))
      BY <1>2, <1>3, <2>1 DEF SoloInv, StoreInv
    <2> QED  BY <1>1, <2>1, <2>2, <2>3 DEF Promise!Next, Promise!Settle
  <1>4. CASE ~D.uploaded
    <2>1. DiscardedBatches' = DiscardedBatches \cup SpansIn(D.keys)
      BY <1>1, <1>4, DiscardShape
    <2> QED  BY <1>1, <1>2, <2>1, PromiseDiscard DEF SoloInv
  <1> QED  BY <1>3, <1>4

LEMMA PromiseDrop ==
    ASSUME TypeOK, SoloInv, DropEverythingPending(Alarm)
    PROVE  [Promise!Next]_(Promise!vars)
  <1>1. /\ UNCHANGED <<chunks, accepted>> /\ batches' = Without(FirstBatches)
        /\ discarded' = discarded \cup (SpansIn(FirstBatches) \X {D.state.id})
    BY DEF DropEverythingPending, s3Vars, D
  <1>2. FirstBatches \in SUBSET (DOMAIN batches)
    BY FirstAreFirst DEF SoloInv
  <1>3. DiscardedBatches' = DiscardedBatches \cup SpansIn(FirstBatches)
    BY <1>1, DiscardShape
  <1> QED  BY <1>1, <1>2, <1>3, PromiseDiscard DEF SoloInv

LEMMA PromiseStep ==
    ASSUME TypeOK, OneDrain, SoloInv, [Next]_vars
    PROVE  [Promise!Next]_(Promise!vars)
  <1>1. Handlers = {Alarm}
    BY SoloFacts
  <1>2. CASE UNCHANGED <<batches, chunks, discarded, accepted>>
    BY <1>2 DEF Promise!vars, PendingBatches, InS3, DiscardedBatches
  <1>3. \/ UNCHANGED <<batches, chunks, discarded, accepted>>
        \/ StoreReport \/ UploadChunk(Alarm) \/ DeleteBatches(Alarm)
        \/ DropEverythingPending(Alarm)
    BY <1>1
       DEF Next, DrainStep, vars, s3Vars, storageVars, ArmForReport, FailReport,
           Start, UploadMetadata, Abandon, SaveState, Rearm, Throw, Evict, Tick
  <1> QED
    BY <1>2, <1>3, PromiseReport, PromiseChunk, PromiseDelete, PromiseDrop

(* With one drain at a time, and whatever is evicted, fails or throws, the *)
(* object keeps the promise of RecordedEvents: no acknowledged batch is    *)
(* forgotten unless it is readable in S3, and none is given up silently.   *)
THEOREM PromiseKept == ASSUME OneDrain PROVE Spec => KeepsPromise
  <1>1. Init => Promise!Init
    <2> SUFFICES ASSUME Init PROVE Promise!Init
      OBVIOUS
    <2>1. /\ accepted = 0 /\ DOMAIN batches = {} /\ chunks = {}
          /\ discarded = {}
      BY DEF Init
    <2> QED  BY <2>1 DEF Promise!Init, PendingBatches, InS3, DiscardedBatches
  <1>2. TypeOK /\ SoloInv /\ [Next]_vars => [Promise!Next]_(Promise!vars)
    BY PromiseStep
  <1> QED
    BY <1>1, <1>2, SoloHolds, TypeCorrect, PTL DEF Spec, KeepsPromise, Promise!Spec

(* In particular nothing is lost, which with overlapping flushes is false  *)
(* (the run lost_batch).                                                   *)
THEOREM NothingLost == ASSUME OneDrain PROVE Spec => []NoLostBatch
  <1>1. Init => NoLostBatch
    BY DEF Init, NoLostBatch
  <1>2. ASSUME TypeOK, SoloInv, NoLostBatch, [Next]_vars PROVE NoLostBatch'
    <2>1. [Promise!Next]_(Promise!vars)
      BY <1>2, PromiseStep
    <2>2. accepted \in Nat
      BY <1>2 DEF TypeOK, CountersTypeOK
    <2>3. 1..accepted \subseteq
            PendingBatches \cup (InS3 \ DiscardedBatches) \cup DiscardedBatches
      BY <1>2 DEF NoLostBatch
    <2>4. 1..accepted' \subseteq
            PendingBatches' \cup (InS3' \ DiscardedBatches') \cup DiscardedBatches'
      <3>1. CASE Promise!Accept
        <4>1. \A b \in 1..accepted' : b \in 1..accepted \/ b \in (accepted + 1)..accepted'
          BY <2>2, <3>1 DEF Promise!Accept
        <4> QED  BY <2>3, <3>1, <4>1 DEF Promise!Accept
      <3>2. CASE Promise!Record
        BY <2>3, <3>2 DEF Promise!Record
      <3>3. CASE Promise!Settle
        BY <2>3, <3>3 DEF Promise!Settle
      <3>4. CASE Promise!Discard
        BY <2>3, <3>4 DEF Promise!Discard
      <3>5. CASE UNCHANGED Promise!vars
        BY <2>3, <3>5 DEF Promise!vars
      <3> QED  BY <2>1, <3>1, <3>2, <3>3, <3>4, <3>5 DEF Promise!Next
    <2> QED  BY <2>4 DEF NoLostBatch
  <1> QED  BY <1>1, <1>2, SoloHolds, TypeCorrect, PTL DEF Spec

=============================================================================
