-------------------------- MODULE Downloads_proofs ---------------------------
(***************************************************************************)
(* Proofs about the two components of packages/downloading-helpers, which  *)
(* share no name.  ReplayArchive: types, retries and what the lock excludes *)
(* for all constants; the exclusion of all writers for processes that end  *)
(* when their call fails and calls without best-effort artifacts; and the  *)
(* truth of the marker for the callers that keep to two scopes.            *)
(* TarExtraction: types for all constants, and, when no open() of an       *)
(* attempt outlasts it, the completeness of what is returned, for any      *)
(* number of files, slots and retries.                                     *)
(***************************************************************************)
EXTENDS ReplayArchive, TarExtraction, TLAPS

(* A process that is past the lock; a task is under way only there.        *)
Holding(p) == pc[p] \in {"checking", "listing", "downloading", "marking"}

(* A process dies with its call: no download outlives the lock.            *)
NoLinger == LingerAfterFailure = FALSE

(* Every artifact that is asked for has to come.                           *)
NothingOptional == BestEffortSets \subseteq {{}}

(* Whole replays and screenshots only, nothing excluded or best-effort.    *)
Careful ==
    /\ NoLinger
    /\ NothingOptional
    /\ DownloadScopes \subseteq {"everything", "screenshots-only"}
    /\ ExcludeSets \subseteq {{}}

-----------------------------------------------------------------------------
(* Types. *)

Statuses == {"off", "queued", "writing", "done", "failed"}

LEMMA TaskTyped ==
    ASSUME TypeOK, NEW p \in Processes, NEW f \in Offered,
           NEW s \in Statuses, SetTask(p, f, s)
    PROVE  /\ task' \in [Processes -> [Offered -> Statuses]]
           /\ task'[p][f] = s
           /\ \A q \in Processes, g \in Offered :
                q # p \/ g # f => task'[q][g] = task[q][g]
  <1>1. task \in [Processes -> [Offered -> Statuses]]
    BY DEF TypeOK, Statuses
  <1>2. task' = [task EXCEPT ![p] = [task[p] EXCEPT ![f] = s]]
    BY DEF SetTask
  <1>3. [task[p] EXCEPT ![f] = s] \in [Offered -> Statuses]
    BY <1>1
  <1> QED  BY <1>1, <1>2, <1>3

LEMMA ProcessEnds ==
    ASSUME TypeOK, NEW p \in Processes, EndProcess(p)
    PROVE  /\ pc' \in [Processes -> Phases]
           /\ task' \in [Processes -> [Offered -> Statuses]]
           /\ tries' \in [Processes -> [Offered -> 0..MAX_CONTENT_RETRIES]]
           /\ seen' \in [Processes -> Scopes \cup {"none"}]
           /\ late' \in [Processes -> SUBSET Offered]
           /\ pc'[p] = "idle"
           /\ late'[p] = {}
           /\ \A f \in Offered : task'[p][f] = "off"
           /\ \A q \in Processes \ {p} :
                /\ pc'[q] = pc[q]
                /\ task'[q] = task[q]
                /\ seen'[q] = seen[q]
                /\ late'[q] = late[q]
  <1>1. /\ NoTasks \in [Offered -> Statuses]
        /\ \A f \in Offered : NoTasks[f] = "off"
        /\ NoTries \in [Offered -> 0..MAX_CONTENT_RETRIES]
    BY ConstantsAssumption DEF NoTasks, NoTries, Statuses
  <1>2. /\ task \in [Processes -> [Offered -> Statuses]]
        /\ pc \in [Processes -> Phases]
        /\ seen \in [Processes -> Scopes \cup {"none"}]
        /\ tries \in [Processes -> [Offered -> 0..MAX_CONTENT_RETRIES]]
        /\ late \in [Processes -> SUBSET Offered]
    BY DEF TypeOK, Statuses
  <1>3. "idle" \in Phases
    BY DEF Phases
  <1> QED  BY <1>1, <1>2, <1>3 DEF EndProcess

LEMMA TypeStep == TypeOK /\ [Next]_vars => TypeOK'
  <1> SUFFICES ASSUME TypeOK, [Next]_vars PROVE TypeOK'
    OBVIOUS
  <1> USE ConstantsAssumption
  <1>1. CASE UNCHANGED vars
    BY <1>1 DEF vars, TypeOK
  <1>2. ASSUME NEW p \in Processes, Call(p) PROVE TypeOK'
    <2>1. PICK r \in Requests : req' = [req EXCEPT ![p] = r]
      BY <1>2 DEF Call
    <2>2. r \in [scope : Scopes, excluded : ExcludeSets,
                 bestEffort : BestEffortSets]
      BY DEF Requests
    <2> QED  BY <1>2, <2>1, <2>2 DEF Call, Phases, TypeOK
  <1>3. ASSUME NEW p \in Processes, Acquire(p) \/ GiveUp(p) PROVE TypeOK'
    BY <1>3 DEF Acquire, GiveUp, Phases, TypeOK
  <1>4. ASSUME NEW p \in Processes, CheckMarker(p) PROVE TypeOK'
    <2>1. Widened(req[p]) \in [scope : Scopes, excluded : ExcludeSets,
                               bestEffort : BestEffortSets]
      <3>1. /\ req[p] \in [scope : Scopes, excluded : ExcludeSets,
                           bestEffort : BestEffortSets]
            /\ "everything" \in Scopes
        BY DEF TypeOK, Scopes
      <3>2. [req[p] EXCEPT !.scope = "everything"]
              \in [scope : Scopes, excluded : ExcludeSets,
                   bestEffort : BestEffortSets]
        BY <3>1
      <3> QED  BY <3>1, <3>2 DEF Widened
    <2>2. CASE CacheHit(req[p])
      BY <1>4, <2>2 DEF CheckMarker, Return, Released, Phases, TypeOK
    <2>3. CASE ~CacheHit(req[p])
      <3>1. marker \in Scopes \cup {"none"}
        BY <1>4 DEF CheckMarker, TypeOK
      <3>2. /\ seen' = [seen EXCEPT ![p] = marker]
            /\ req' = [req EXCEPT ![p] = Widened(req[p])]
            /\ pc' = [pc EXCEPT ![p] = "listing"]
            /\ UNCHANGED <<disk, marker, lock, task, tries, late>>
        BY <1>4, <2>3 DEF CheckMarker
      <3> QED  BY <2>1, <3>1, <3>2 DEF Phases, TypeOK
    <2> QED  BY <2>2, <2>3
  <1>5. ASSUME NEW p \in Processes, ListFiles(p) PROVE TypeOK'
    BY <1>5 DEF ListFiles, NoTries, Phases, TypeOK
  <1>6. ASSUME NEW p \in Processes, NEW f \in Offered, Download(p, f)
        PROVE  TypeOK'
    <2>1. \A s \in Statuses :
            SetTask(p, f, s) => task' \in [Processes -> [Offered -> Statuses]]
      BY TaskTyped
    <2>2. GivenUp(p, f) \in Statuses
      BY DEF GivenUp, Statuses
    <2>3. /\ task' \in [Processes -> [Offered -> Statuses]]
          /\ disk' \in [Offered -> {"absent", "partial", "mixed", "complete"}]
          /\ late' \in [Processes -> SUBSET Offered]
      <3>1. CASE StartWriting(p, f)
        BY <2>1, <3>1 DEF StartWriting, TypeOK, Statuses
      <3>2. CASE RequestFails(p, f)
        BY <2>1, <2>2, <3>2 DEF RequestFails, TypeOK
      <3>3. CASE FinishWriting(p, f)
        <4>1. PICK s \in Ended(p, f) : disk' = [disk EXCEPT ![f] = s]
          BY <3>3 DEF FinishWriting
        <4> QED
          BY <2>1, <3>3, <4>1 DEF FinishWriting, Ended, TypeOK, Statuses
      <3>4. CASE ContentFails(p, f)
        <4>1. PICK s \in Statuses : SetTask(p, f, s)
          BY <2>2, <3>4 DEF ContentFails, Statuses
        <4>2. disk' \in {disk, [disk EXCEPT ![f] = "absent"]} /\ late' = late
          BY <3>4 DEF ContentFails
        <4> QED  BY <2>1, <4>1, <4>2 DEF TypeOK
      <3>5. CASE ExtractionTimesOut(p, f)
        BY <2>1, <2>2, <3>5 DEF ExtractionTimesOut, TypeOK
      <3> QED  BY <1>6, <3>1, <3>2, <3>3, <3>4, <3>5 DEF Download
    <2>4. tries' \in [Processes -> [Offered -> 0..MAX_CONTENT_RETRIES]]
      <3>1. tries' = tries \/ /\ MayRetry(p, f)
                              /\ tries' = [tries EXCEPT ![p][f] = @ + 1]
        BY <1>6 DEF Download, StartWriting, RequestFails, FinishWriting,
                    ContentFails, ExtractionTimesOut
      <3>2. tries[p][f] \in 0..MAX_CONTENT_RETRIES
        BY DEF TypeOK
      <3>3. CASE MayRetry(p, f)
        <4>1. tries[p][f] + 1 \in 0..MAX_CONTENT_RETRIES
          BY <3>2, <3>3 DEF MayRetry
        <4>2. [tries[p] EXCEPT ![f] = tries[p][f] + 1]
                \in [Offered -> 0..MAX_CONTENT_RETRIES]
          BY <4>1 DEF TypeOK
        <4> QED  BY <3>1, <4>2 DEF TypeOK
      <3> QED  BY <3>1, <3>3 DEF TypeOK
    <2> QED  BY <1>6, <2>3, <2>4 DEF Download, TypeOK, Statuses
  <1>7. ASSUME NEW p \in Processes, DownloadsDone(p) \/ WriteMarker(p)
        PROVE  TypeOK'
    <2>1. /\ pc' \in [Processes -> Phases]
          /\ lock' \in Processes \cup {Free}
      BY <1>7 DEF DownloadsDone, WriteMarker, Return, Released, Phases, TypeOK
    <2>2. marker' \in Scopes \cup {"none", "empty"}
      BY <1>7 DEF DownloadsDone, WriteMarker, TypeOK
    <2> QED  BY <1>7, <2>1, <2>2 DEF DownloadsDone, WriteMarker, TypeOK
  <1>8. ASSUME NEW p \in Processes, CallFails(p) \/ Exit(p) \/ Crash(p)
        PROVE  TypeOK'
    <2>1. /\ lock' \in Processes \cup {Free}
          /\ UNCHANGED <<disk, marker, req>>
      BY <1>8 DEF CallFails, Exit, Crash, Released, TypeOK
    <2>2. CASE EndProcess(p)
      BY <2>1, <2>2, ProcessEnds DEF TypeOK, Statuses
    <2>3. CASE ~EndProcess(p)
      <3>1. /\ pc' = [pc EXCEPT ![p] = "dying"]
            /\ UNCHANGED <<seen, task, tries, late>>
        BY <1>8, <2>3 DEF CallFails, Exit, Crash
      <3> QED  BY <2>1, <3>1 DEF TypeOK, Phases
    <2> QED  BY <2>2, <2>3
  <1>9. ASSUME NEW p \in Processes, NEW f \in Offered, LateEnds(p, f)
        PROVE  TypeOK'
    <2>1. PICK s \in Ended(p, f) \cup {disk[f]} :
            disk' = [disk EXCEPT ![f] = s]
      BY <1>9 DEF LateEnds
    <2>2. disk' \in [Offered -> {"absent", "partial", "mixed", "complete"}]
      BY <2>1 DEF Ended, TypeOK
    <2>3. late' \in [Processes -> SUBSET Offered]
      BY <1>9 DEF LateEnds, TypeOK
    <2> QED  BY <1>9, <2>2, <2>3 DEF LateEnds, TypeOK
  <1> QED
    BY <1>1, <1>2, <1>3, <1>4, <1>5, <1>6, <1>7, <1>8, <1>9 DEF Next, Progress

(* Every reachable state is typed: the lock has at most one holder, and no *)
(* download is retried more than MAX_CONTENT_RETRIES times.                *)
THEOREM TypeCorrect == Spec => []TypeOK
  <1>1. Init => TypeOK
    <2> SUFFICES ASSUME Init PROVE TypeOK
      OBVIOUS
    <2>1. req \in [Processes -> [scope : Scopes, excluded : ExcludeSets,
                                 bestEffort : BestEffortSets]]
      BY ConstantsAssumption DEF Init, Requests
    <2> QED
      BY <2>1, ConstantsAssumption DEF Init, TypeOK, NoTasks, NoTries, Phases
  <1> QED  BY <1>1, TypeStep, PTL DEF Spec

-----------------------------------------------------------------------------
(* Exclusion: the lock is held exactly from Acquire to Return, and tasks   *)
(* run under it or in a process whose call has failed.                     *)
LockInv ==
    \A p \in Processes :
        /\ Holding(p) <=> lock = p
        /\ \A f \in Offered :
            task[p][f] \in {"queued", "writing"} =>
                pc[p] \in {"downloading", "dying"}

LEMMA LockStep == TypeOK /\ LockInv /\ [Next]_vars => LockInv'
  <1> SUFFICES ASSUME TypeOK, LockInv, [Next]_vars PROVE LockInv'
    OBVIOUS
  <1> USE ConstantsAssumption DEF TypeOK, LockInv, Holding
  <1>1. CASE UNCHANGED vars
    BY <1>1 DEF vars
  <1>2. ASSUME NEW p \in Processes, Call(p) \/ Acquire(p) \/ GiveUp(p)
        PROVE  LockInv'
    BY <1>2 DEF Call, Acquire, GiveUp, LockFree
  <1>3. ASSUME NEW p \in Processes, CheckMarker(p) PROVE LockInv'
    <2>1. pc[p] = "checking" /\ lock = p /\ UNCHANGED task
      BY <1>3 DEF CheckMarker
    <2>2. \/ lock' = Free /\ pc' = [pc EXCEPT ![p] = "using"]
          \/ lock' = lock /\ pc' = [pc EXCEPT ![p] = "listing"]
      BY <1>3, <2>1 DEF CheckMarker, Return, Released
    <2>3. \A q \in Processes \ {p} : pc'[q] = pc[q] /\ ~Holding(q)
      BY <2>1, <2>2
    <2>4. \/ pc'[p] = "using" /\ lock' = Free
          \/ pc'[p] = "listing" /\ lock' = p
      BY <2>1, <2>2
    <2>5. \A f \in Offered : task[p][f] \notin {"queued", "writing"}
      BY <2>1
    <2> HIDE DEF TypeOK
    <2> QED  BY <2>1, <2>3, <2>4, <2>5
  <1>4. ASSUME NEW p \in Processes, ListFiles(p) PROVE LockInv'
    BY <1>4 DEF ListFiles
  <1>5. ASSUME NEW p \in Processes, NEW f \in Offered, Download(p, f)
        PROVE  LockInv'
    <2>1. PICK s \in Statuses : SetTask(p, f, s)
      BY <1>5 DEF Download, StartWriting, RequestFails, FinishWriting,
                  ContentFails, ExtractionTimesOut, GivenUp, Statuses
    <2>2. \A q \in Processes, g \in Offered :
            q # p \/ g # f => task'[q][g] = task[q][g]
      BY <2>1, TaskTyped DEF TypeOK
    <2>3. pc[p] \in {"downloading", "dying"} /\ UNCHANGED <<lock, pc>>
      BY <1>5 DEF Download
    <2> QED  BY <2>2, <2>3
  <1>6. ASSUME NEW p \in Processes, DownloadsDone(p) \/ WriteMarker(p)
        PROVE  LockInv'
    <2>1. lock = p /\ UNCHANGED task
      BY <1>6 DEF DownloadsDone, WriteMarker
    <2>2. \A f \in Offered : task[p][f] \notin {"queued", "writing"}
      BY <1>6 DEF DownloadsDone, WriteMarker, AllDownloaded
    <2>3. \/ lock' = Free /\ pc' = [pc EXCEPT ![p] = "using"]
          \/ lock' = lock /\ pc' = [pc EXCEPT ![p] = "marking"]
      BY <1>6, <2>1 DEF DownloadsDone, WriteMarker, Return, Released
    <2>4. \A q \in Processes \ {p} : pc'[q] = pc[q] /\ ~Holding(q)
      BY <2>1, <2>3
    <2>5. \/ pc'[p] = "using" /\ lock' = Free
          \/ pc'[p] = "marking" /\ lock' = p
      BY <2>1, <2>3
    <2> HIDE DEF TypeOK
    <2> QED  BY <2>1, <2>2, <2>4, <2>5
  <1>7. ASSUME NEW p \in Processes, CallFails(p) \/ Exit(p) \/ Crash(p)
        PROVE  LockInv'
    <2>1. lock' = IF lock = p THEN Free ELSE lock
      BY <1>7 DEF CallFails, Exit, Crash, Released
    <2>2. CASE EndProcess(p)
      <3> HIDE DEF TypeOK
      <3> QED  BY <2>1, <2>2, ProcessEnds DEF TypeOK
    <2>3. CASE ~EndProcess(p)
      <3>1. /\ pc' = [pc EXCEPT ![p] = "dying"] /\ UNCHANGED task
            /\ Holding(p)
        BY <1>7, <2>3 DEF CallFails, Exit, Crash
      <3> QED  BY <2>1, <3>1
    <2> QED  BY <2>2, <2>3
  <1>8. ASSUME NEW p \in Processes, NEW f \in Offered, LateEnds(p, f)
        PROVE  LockInv'
    BY <1>8 DEF LateEnds
  <1> QED
    BY <1>1, <1>2, <1>3, <1>4, <1>5, <1>6, <1>7, <1>8 DEF Next, Progress

LEMMA LockInvariant == Spec => []LockInv
  <1>1. Init => LockInv
    BY ConstantsAssumption DEF Init, LockInv, Holding, NoTasks
  <1> QED  BY <1>1, LockStep, TypeCorrect, PTL DEF Spec

(* When two processes write the same artifact at once, one of the writes   *)
(* is an extraction that had timed out or a download of a call that had    *)
(* failed: for any number of processes, any requests, and processes that   *)
(* outlive their calls (replays.ts: the lock around downloadReplayV3Files).*)
THEOREM LockKeepsAwaitedApart == Spec => []OnlyLeftoversOverlap
  <1>1. LockInv => OnlyLeftoversOverlap
    BY ConstantsAssumption
    DEF LockInv, Holding, OnlyLeftoversOverlap, Leftover, Writes
  <1> QED  BY <1>1, LockInvariant, PTL

(* Where processes end with their failed calls and nothing is optional,    *)
(* there is nothing left over: an extraction that timed out is a failed    *)
(* download, which leaves its call no way to go on.                        *)
NoLeftovers ==
    \A p \in Processes :
        /\ pc[p] # "dying"
        /\ req[p].bestEffort = {}
        /\ \A f \in late[p] : pc[p] = "downloading" /\ task[p][f] = "failed"

LEMMA NoLeftoversStep ==
    ASSUME NoLinger, NothingOptional
    PROVE  TypeOK /\ NoLeftovers /\ [Next]_vars => NoLeftovers'
  <1> SUFFICES ASSUME TypeOK, NoLeftovers, [Next]_vars PROVE NoLeftovers'
    OBVIOUS
  <1> USE DEF NoLeftovers
  <1>1. CASE UNCHANGED vars
    BY <1>1 DEF vars
  <1>2. ASSUME NEW p \in Processes, Call(p) PROVE NoLeftovers'
    <2>1. PICK r \in Requests : req' = [req EXCEPT ![p] = r]
      BY <1>2 DEF Call
    <2>2. r.bestEffort = {}
      BY DEF Requests, NothingOptional
    <2> QED  BY <1>2, <2>1, <2>2 DEF Call, TypeOK
  <1>3. ASSUME NEW p \in Processes, Acquire(p) \/ GiveUp(p) PROVE NoLeftovers'
    BY <1>3 DEF Acquire, GiveUp, TypeOK
  <1>4. ASSUME NEW p \in Processes, CheckMarker(p) PROVE NoLeftovers'
    <2>1. Widened(req[p]).bestEffort = {}
      BY DEF Widened, TypeOK
    <2>2. /\ req' \in {req, [req EXCEPT ![p] = Widened(req[p])]}
          /\ pc' \in {[pc EXCEPT ![p] = "using"], [pc EXCEPT ![p] = "listing"]}
          /\ pc[p] # "downloading" /\ UNCHANGED <<task, late>>
      BY <1>4 DEF CheckMarker, Return
    <2> QED  BY <2>1, <2>2 DEF TypeOK
  <1>5. ASSUME NEW p \in Processes, ListFiles(p) PROVE NoLeftovers'
    BY <1>5 DEF ListFiles, TypeOK
  <1>6. ASSUME NEW p \in Processes, NEW f \in Offered, Download(p, f)
        PROVE  NoLeftovers'
    <2>1. GivenUp(p, f) = "failed"
      BY DEF GivenUp
    <2>2. PICK s \in Statuses : SetTask(p, f, s)
      BY <1>6, <2>1 DEF Download, StartWriting, RequestFails, FinishWriting,
                  ContentFails, ExtractionTimesOut, Statuses
    <2>3. /\ task'[p][f] = s
          /\ \A q \in Processes, g \in Offered :
               q # p \/ g # f => task'[q][g] = task[q][g]
      BY <2>2, TaskTyped
    <2>4. pc[p] = "downloading" /\ UNCHANGED <<pc, req>>
      BY <1>6 DEF Download
    <2>5. task[p][f] # "failed"
      BY <1>6 DEF Download, StartWriting, RequestFails, FinishWriting,
                  ContentFails, ExtractionTimesOut
    <2>6. \/ late' = late
          \/ late' = [late EXCEPT ![p] = @ \cup {f}] /\ task'[p][f] = "failed"
      BY <1>6, <2>1, TaskTyped
      DEF Download, StartWriting, RequestFails, FinishWriting,
          ContentFails, ExtractionTimesOut, Statuses
    <2>7. late[p] \subseteq late'[p] /\ late'[p] \subseteq late[p] \cup {f}
      BY <2>6 DEF TypeOK
    <2>8. \A q \in Processes \ {p} : late'[q] = late[q]
      BY <2>6 DEF TypeOK
    <2>9. f \in late'[p] => task'[p][f] = "failed"
      BY <2>5, <2>6
    <2>10. \A g \in late'[p] : g # f => g \in Offered /\ task[p][g] = "failed"
      BY <2>7 DEF TypeOK
    <2>11. \A g \in late'[p] : task'[p][g] = "failed"
      BY <2>3, <2>9, <2>10
    <2>12. ASSUME NEW q \in Processes \ {p}, NEW g \in late'[q]
           PROVE  task'[q][g] = task[q][g]
      BY <2>3, <2>8, <2>12 DEF TypeOK
    <2> QED  BY <2>4, <2>8, <2>11, <2>12
  <1>7. ASSUME NEW p \in Processes, DownloadsDone(p) \/ WriteMarker(p)
        PROVE  NoLeftovers'
    <2>1. \A f \in Offered : f \notin late[p]
      BY <1>7 DEF DownloadsDone, WriteMarker, AllDownloaded
    <2>2. late[p] = {}
      BY <2>1 DEF TypeOK
    <2>3. /\ pc' \in {[pc EXCEPT ![p] = "using"], [pc EXCEPT ![p] = "marking"]}
          /\ UNCHANGED <<req, task, late>>
      BY <1>7 DEF DownloadsDone, WriteMarker, Return
    <2>4. /\ pc'[p] # "dying"
          /\ \A q \in Processes \ {p} : pc'[q] = pc[q]
      BY <2>3 DEF TypeOK
    <2> SUFFICES ASSUME NEW q \in Processes
                 PROVE  /\ pc'[q] # "dying" /\ req[q].bestEffort = {}
                        /\ \A f \in late[q] :
                             pc'[q] = "downloading" /\ task[q][f] = "failed"
      BY <2>3
    <2>5. CASE q = p
      BY <2>2, <2>4, <2>5
    <2>6. CASE q # p
      BY <2>4, <2>6
    <2> QED  BY <2>5, <2>6
  <1>8. ASSUME NEW p \in Processes, CallFails(p) \/ Exit(p) \/ Crash(p)
        PROVE  NoLeftovers'
    <2>1. EndProcess(p) /\ UNCHANGED req
      BY <1>8 DEF CallFails, Exit, Crash, NoLinger
    <2>2. /\ pc'[p] = "idle" /\ late'[p] = {}
          /\ \A q \in Processes \ {p} :
               pc'[q] = pc[q] /\ task'[q] = task[q] /\ late'[q] = late[q]
      BY <2>1, ProcessEnds
    <2> SUFFICES ASSUME NEW q \in Processes
                 PROVE  /\ pc'[q] # "dying" /\ req[q].bestEffort = {}
                        /\ \A f \in late'[q] :
                             pc'[q] = "downloading" /\ task'[q][f] = "failed"
      BY <2>1
    <2>3. CASE q = p
      BY <2>2, <2>3
    <2>4. CASE q # p
      BY <2>2, <2>4
    <2> QED  BY <2>3, <2>4
  <1>9. ASSUME NEW p \in Processes, NEW f \in Offered, LateEnds(p, f)
        PROVE  NoLeftovers'
    BY <1>9 DEF LateEnds, TypeOK
  <1> QED
    BY <1>1, <1>2, <1>3, <1>4, <1>5, <1>6, <1>7, <1>8, <1>9 DEF Next, Progress

LEMMA NoLeftoversInvariant ==
    ASSUME NoLinger, NothingOptional
    PROVE  Spec => []NoLeftovers
  <1>1. Init => NoLeftovers
    BY DEF Init, NoLeftovers, Requests, NothingOptional
  <1> QED  BY <1>1, NoLeftoversStep, TypeCorrect, PTL DEF Spec

(* No two processes write the same artifact at once, for any number of     *)
(* processes, scopes and exclusions, as long as no artifact is best-effort *)
(* and a process ends when a call failed in it; neither can be dropped.    *)
THEOREM LockExcludes ==
    ASSUME NoLinger, NothingOptional
    PROVE  Spec => []OneWriterPerFile
  <1>1. OnlyLeftoversOverlap /\ LockInv /\ NoLeftovers => OneWriterPerFile
    BY ConstantsAssumption
    DEF OnlyLeftoversOverlap, Leftover, LockInv, Holding, NoLeftovers,
        OneWriterPerFile, Writes
  <1> QED
    BY <1>1, LockKeepsAwaitedApart, LockInvariant, NoLeftoversInvariant, PTL

-----------------------------------------------------------------------------
(* The truth of the marker, for careful callers.  A download under way     *)
(* knows the marker it found, never writes an artifact that marker vouches *)
(* for, and knows which of its own are complete; whoever has returned      *)
(* vouches for the marker in turn.                                         *)

CarefulRequests ==
    \A p \in Processes :
        /\ req[p].scope \in {"everything", "screenshots-only"}
        /\ req[p].excluded = {}
        /\ req[p].bestEffort = {}

Complete(F) == \A f \in F : disk[f] = "complete"

MarkerTrue ==
    /\ marker \in {"none", "empty", "everything", "screenshots-only"}
    /\ marker \in Scopes => Complete(FilesOf(marker))

FoundMarker(p) ==
    /\ seen[p] = marker
    /\ marker \in {"none", "screenshots-only"}
    /\ marker = "screenshots-only" => req[p].scope = "everything"

TasksKnown(p) ==
    \A f \in Offered :
        /\ f \in ToDownload(p) <=> task[p][f] # "off"
        /\ task[p][f] = "writing" => disk[f] = "partial"
        /\ task[p][f] = "done" => disk[f] = "complete"

CallInv ==
    \A p \in Processes :
        /\ pc[p] \in {"listing", "downloading"} => FoundMarker(p)
        /\ pc[p] = "downloading" => TasksKnown(p)
        /\ pc[p] = "marking" =>
             marker = "empty" /\ Complete(FilesOf(req[p].scope))

ReadInv ==
    \A p \in Processes :
        pc[p] = "using" =>
            /\ req[p].scope = "everything" => marker = "everything"
            /\ marker \in {"empty", "everything", "screenshots-only"}
            /\ Complete(FilesOf(req[p].scope))

CacheInv == CarefulRequests /\ MarkerTrue /\ CallInv /\ ReadInv

LEMMA TwoScopes ==
    /\ FilesOf("everything") = Offered
    /\ FilesOf("screenshots-only") = Offered \cap {"screenshots"}
    /\ {"everything", "screenshots-only"} \subseteq Scopes
    /\ {"none", "empty"} \cap Scopes = {}
  BY DEF FilesOf, Scopes

LEMMA NothingBypasses ==
    ASSUME CarefulRequests, NEW p \in Processes
    PROVE  ~BypassCache(req[p])
  BY DEF CarefulRequests, BypassCache

(* A download, and an extraction that timed out while its call still has   *)
(* the lock, writes nothing that the marker, or a reader, vouches for.     *)
LEMMA DownloadIsSafe ==
    ASSUME TypeOK, LockInv, NoLeftovers, CacheInv,
           NEW p \in Processes, NEW f \in Offered,
           Download(p, f) \/ LateEnds(p, f)
    PROVE  CacheInv'
  <1>1. pc[p] = "downloading" /\ lock = p
    BY DEF Download, LateEnds, LockInv, Holding, NoLeftovers
  <1>2. UNCHANGED <<marker, lock, pc, req, seen>>
    BY DEF Download, LateEnds
  <1>3. /\ \A g \in Offered \ {f} : disk'[g] = disk[g]
        /\ task'[p][f] = "writing" => disk'[f] = "partial"
        /\ task'[p][f] = "done" => disk'[f] = "complete"
        /\ task[p][f] # "off" /\ task'[p][f] # "off"
        /\ \A q \in Processes, g \in Offered :
             q # p \/ g # f => task'[q][g] = task[q][g]
    <2>1. GivenUp(p, f) = "failed"
      BY DEF GivenUp, NoLeftovers
    <2>2. \A s \in Statuses :
            SetTask(p, f, s) =>
              /\ task'[p][f] = s
              /\ \A q \in Processes, g \in Offered :
                   q # p \/ g # f => task'[q][g] = task[q][g]
      BY TaskTyped
    <2>3. disk \in [Offered -> {"absent", "partial", "mixed", "complete"}]
      BY DEF TypeOK
    <2>4. CASE StartWriting(p, f)
      <3>1. ~OthersWrite(p, f)
        BY <1>1 DEF OthersWrite, Writes, LockInv, Holding, NoLeftovers
      <3> QED  BY <2>2, <2>3, <2>4, <3>1 DEF StartWriting, Statuses
    <2>5. CASE RequestFails(p, f)
      BY <2>1, <2>2, <2>3, <2>5 DEF RequestFails, Statuses
    <2>6. CASE FinishWriting(p, f)
      <3>1. disk[f] = "partial"
        BY <1>1, <2>6 DEF FinishWriting, CacheInv, CallInv, TasksKnown
      <3>2. disk' = [disk EXCEPT ![f] = "complete"]
        BY <2>6, <3>1 DEF FinishWriting, Ended
      <3> QED  BY <2>2, <2>3, <2>6, <3>2 DEF FinishWriting, Statuses
    <2>7. CASE ContentFails(p, f)
      BY <2>1, <2>2, <2>3, <2>7 DEF ContentFails, Statuses
    <2>8. CASE ExtractionTimesOut(p, f)
      BY <2>1, <2>2, <2>3, <2>8 DEF ExtractionTimesOut, Statuses
    <2>9. CASE LateEnds(p, f)
      <3>1. task[p][f] = "failed" /\ task' = task
        BY <2>9 DEF LateEnds, NoLeftovers
      <3>2. \A g \in Offered \ {f} : disk'[g] = disk[g]
        BY <2>3, <2>9 DEF LateEnds
      <3> QED  BY <3>1, <3>2
    <2> QED  BY <2>4, <2>5, <2>6, <2>7, <2>8, <2>9 DEF Download
  <1>4. /\ FoundMarker(p)
        /\ f \in ToDownload(p)
        /\ ToDownload(p)' = ToDownload(p)
    BY <1>1, <1>2, <1>3
    DEF CacheInv, CallInv, TasksKnown, ToDownload, SkipScreenshots
  <1>5. marker = "screenshots-only" => f # "screenshots"
    BY <1>4 DEF FoundMarker, ToDownload, SkipScreenshots
  <1>6. CarefulRequests'
    BY <1>2 DEF CacheInv, CarefulRequests
  <1>7. MarkerTrue'
    BY <1>2, <1>3, <1>4, <1>5, TwoScopes
    DEF CacheInv, MarkerTrue, Complete, FoundMarker
  <1>8. CallInv'
    <2>1. \A q \in Processes \ {p} :
            pc[q] \notin {"listing", "downloading", "marking"}
      BY <1>1 DEF LockInv, Holding
    <2>2. FoundMarker(p)'
      BY <1>2, <1>4 DEF FoundMarker
    <2>3. TasksKnown(p)
      BY <1>1 DEF CacheInv, CallInv
    <2>4. TasksKnown(p)'
      BY <1>3, <1>4, <2>3 DEF TasksKnown
    <2> QED  BY <1>1, <1>2, <2>1, <2>2, <2>4 DEF CallInv
  <1>9. ReadInv'
    <2> SUFFICES ASSUME NEW q \in Processes, pc[q] = "using"
                 PROVE  /\ req[q].scope = "everything" => marker = "everything"
                        /\ marker \in {"empty", "everything", "screenshots-only"}
                        /\ Complete(FilesOf(req[q].scope))'
      BY <1>2 DEF ReadInv
    <2>1. /\ req[q].scope = "everything" => marker = "everything"
          /\ marker \in {"empty", "everything", "screenshots-only"}
          /\ Complete(FilesOf(req[q].scope))
      BY DEF CacheInv, ReadInv
    <2>2. marker = "screenshots-only" /\ req[q].scope = "screenshots-only"
      BY <1>4, <2>1 DEF FoundMarker, CacheInv, CarefulRequests
    <2> QED  BY <1>2, <1>3, <1>5, <2>1, <2>2, TwoScopes DEF Complete
  <1> QED  BY <1>6, <1>7, <1>8, <1>9 DEF CacheInv

(* The call that takes the marker away has every artifact of its scope.    *)
LEMMA MarkingIsSafe ==
    ASSUME TypeOK, LockInv, CacheInv,
           NEW p \in Processes, DownloadsDone(p)
    PROVE  CacheInv'
  <1>1. /\ pc[p] = "downloading" /\ lock = p
        /\ FoundMarker(p) /\ TasksKnown(p)
    BY DEF DownloadsDone, LockInv, Holding, CacheInv, CallInv
  <1>2. /\ marker' = "empty"
        /\ pc' = [pc EXCEPT ![p] = "marking"]
        /\ UNCHANGED <<disk, req, seen, task>>
    BY NothingBypasses DEF DownloadsDone, CacheInv
  <1>3. Complete(FilesOf(req[p].scope))
    <2> SUFFICES ASSUME NEW f \in FilesOf(req[p].scope)
                 PROVE  disk[f] = "complete"
      BY DEF Complete
    <2>1. f \in Offered
      BY DEF FilesOf
    <2>2. CASE f \in ToDownload(p)
      BY <1>1, <2>1, <2>2 DEF TasksKnown, DownloadsDone, AllDownloaded
    <2>3. CASE f \notin ToDownload(p)
      <3>1. f = "screenshots" /\ seen[p] = "screenshots-only"
        BY <2>3 DEF ToDownload, SkipScreenshots, CacheInv, CarefulRequests
      <3> QED
        BY <1>1, <2>1, <3>1, TwoScopes
        DEF FoundMarker, CacheInv, MarkerTrue, Complete
    <2> QED  BY <2>2, <2>3
  <1>4. CarefulRequests' /\ MarkerTrue'
    BY <1>2, TwoScopes DEF CacheInv, CarefulRequests, MarkerTrue
  <1>5. CallInv'
    <2>1. \A q \in Processes \ {p} :
            pc[q] \notin {"listing", "downloading", "marking"}
      BY <1>1 DEF LockInv, Holding
    <2>2. \A q \in Processes :
            /\ pc'[p] = "marking"
            /\ q # p => pc'[q] = pc[q]
      BY <1>2 DEF TypeOK
    <2> QED  BY <1>2, <1>3, <2>1, <2>2 DEF CallInv, Complete
  <1>6. ReadInv'
    <2> SUFFICES ASSUME NEW q \in Processes, pc'[q] = "using"
                 PROVE  /\ req[q].scope # "everything"
                        /\ Complete(FilesOf(req[q].scope))
      BY <1>2 DEF ReadInv, Complete
    <2>1. pc[q] = "using"
      BY <1>2 DEF TypeOK
    <2> QED  BY <1>1, <2>1 DEF FoundMarker, CacheInv, ReadInv
  <1> QED  BY <1>4, <1>5, <1>6 DEF CacheInv

LEMMA CacheStep ==
    ASSUME Careful
    PROVE  /\ TypeOK /\ LockInv /\ NoLeftovers /\ CacheInv
           /\ [Next]_vars
           => CacheInv'
  <1> SUFFICES ASSUME TypeOK, LockInv, NoLeftovers, CacheInv, [Next]_vars
               PROVE  CacheInv'
    OBVIOUS
  <1>1. CASE UNCHANGED vars
    BY <1>1 DEF vars, CacheInv, CarefulRequests, MarkerTrue, CallInv, ReadInv,
                FoundMarker, TasksKnown, Complete, ToDownload, SkipScreenshots
  <1>2. ASSUME NEW p \in Processes, Call(p) PROVE CacheInv'
    <2>1. PICK r \in Requests : req' = [req EXCEPT ![p] = r]
      BY <1>2 DEF Call
    <2>2. /\ r.scope \in {"everything", "screenshots-only"}
          /\ r.excluded = {} /\ r.bestEffort = {}
      BY DEF Requests, Careful, NothingOptional
    <2>3. /\ req'[p] = r /\ pc'[p] = "waiting"
          /\ \A q \in Processes \ {p} : req'[q] = req[q] /\ pc'[q] = pc[q]
      BY <1>2, <2>1 DEF Call, TypeOK
    <2>4. UNCHANGED <<disk, marker, seen, task>>
      BY <1>2 DEF Call
    <2> QED
      BY <2>2, <2>3, <2>4
      DEF CacheInv, CarefulRequests, MarkerTrue, CallInv, ReadInv,
          FoundMarker, TasksKnown, Complete, ToDownload, SkipScreenshots
  <1>3. ASSUME NEW p \in Processes, Acquire(p) \/ GiveUp(p) PROVE CacheInv'
    <2>1. /\ pc'[p] \in {"checking", "idle"}
          /\ \A q \in Processes \ {p} : pc'[q] = pc[q]
          /\ UNCHANGED <<disk, marker, req, seen, task>>
      BY <1>3 DEF Acquire, GiveUp, TypeOK
    <2> QED
      BY <2>1
      DEF CacheInv, CarefulRequests, MarkerTrue, CallInv, ReadInv,
          FoundMarker, TasksKnown, Complete, ToDownload, SkipScreenshots
  <1>4. ASSUME NEW p \in Processes, CheckMarker(p) PROVE CacheInv'
    <2>1. ~BypassCache(req[p])
      BY NothingBypasses DEF CacheInv
    <2>2. UNCHANGED <<disk, marker, task>>
      BY <1>4 DEF CheckMarker
    <2>3. CASE CacheHit(req[p])
      <3>1. /\ pc'[p] = "using"
            /\ \A q \in Processes \ {p} : pc'[q] = pc[q]
            /\ UNCHANGED <<req, seen>>
        BY <1>4, <2>3 DEF CheckMarker, Return, TypeOK
      <3>2. /\ marker \in {req[p].scope, "everything"}
            /\ Complete(FilesOf(marker))
        BY <2>3 DEF CacheHit, CacheInv, MarkerTrue
      <3>3. Complete(FilesOf(req[p].scope))
        BY <3>2, TwoScopes
        DEF Complete, CacheInv, CarefulRequests
      <3> QED
        BY <2>2, <3>1, <3>2, <3>3
        DEF CacheInv, CarefulRequests, MarkerTrue, CallInv, ReadInv,
            FoundMarker, TasksKnown, Complete, ToDownload, SkipScreenshots
    <2>4. CASE ~CacheHit(req[p])
      <3>1. /\ seen' = [seen EXCEPT ![p] = marker]
            /\ req' = [req EXCEPT ![p] = Widened(req[p])]
            /\ pc' = [pc EXCEPT ![p] = "listing"]
        BY <1>4, <2>4 DEF CheckMarker
      <3>2. /\ seen'[p] = marker /\ req'[p] = Widened(req[p])
            /\ pc'[p] = "listing"
            /\ \A q \in Processes \ {p} :
                 seen'[q] = seen[q] /\ req'[q] = req[q] /\ pc'[q] = pc[q]
        BY <3>1 DEF TypeOK
      <3>3. marker \in {"none", "screenshots-only"}
        BY <1>4, <2>1, <2>4, TwoScopes
        DEF CheckMarker, CacheHit, CacheInv, MarkerTrue
      <3>4. /\ Widened(req[p]).scope \in {"everything", "screenshots-only"}
            /\ Widened(req[p]).excluded = {}
            /\ Widened(req[p]).bestEffort = {}
            /\ marker = "screenshots-only" =>
                 Widened(req[p]).scope = "everything"
        BY <2>1, TwoScopes DEF Widened, CacheInv, CarefulRequests, TypeOK
      <3> QED
        BY <2>2, <3>2, <3>3, <3>4
        DEF CacheInv, CarefulRequests, MarkerTrue, CallInv, ReadInv,
            FoundMarker, TasksKnown, Complete, ToDownload, SkipScreenshots
    <2> QED  BY <2>3, <2>4
  <1>5. ASSUME NEW p \in Processes, ListFiles(p) PROVE CacheInv'
    <2>1. /\ pc'[p] = "downloading"
          /\ \A q \in Processes \ {p} :
               pc'[q] = pc[q] /\ task'[q] = task[q]
          /\ \A f \in Offered :
               task'[p][f] = IF f \in ToDownload(p) THEN "queued" ELSE "off"
          /\ UNCHANGED <<disk, marker, req, seen>>
      BY <1>5 DEF ListFiles, TypeOK
    <2>2. pc[p] = "listing" /\ FoundMarker(p)
      BY <1>5 DEF ListFiles, CacheInv, CallInv
    <2> QED
      BY <2>1, <2>2
      DEF CacheInv, CarefulRequests, MarkerTrue, CallInv, ReadInv,
          FoundMarker, TasksKnown, Complete, ToDownload, SkipScreenshots
  <1>6. ASSUME NEW p \in Processes, NEW f \in Offered,
               Download(p, f) \/ LateEnds(p, f)
        PROVE  CacheInv'
    BY <1>6, DownloadIsSafe
  <1>7. ASSUME NEW p \in Processes, DownloadsDone(p) PROVE CacheInv'
    BY <1>7, MarkingIsSafe
  <1>8. ASSUME NEW p \in Processes, WriteMarker(p) PROVE CacheInv'
    <2>1. /\ marker' = req[p].scope
          /\ pc'[p] = "using"
          /\ \A q \in Processes \ {p} : pc'[q] = pc[q]
          /\ UNCHANGED <<disk, req, seen, task>>
      BY <1>8 DEF WriteMarker, Return, TypeOK
    <2>2. /\ pc[p] = "marking" /\ lock = p /\ marker = "empty"
          /\ Complete(FilesOf(req[p].scope))
          /\ req[p].scope \in {"everything", "screenshots-only"}
      BY <1>8
      DEF WriteMarker, LockInv, Holding, CacheInv, CallInv, CarefulRequests
    <2>3. \A q \in Processes \ {p} :
            pc[q] \notin {"listing", "downloading", "marking"}
      BY <2>2 DEF LockInv, Holding
    <2> QED
      BY <2>1, <2>2, <2>3
      DEF CacheInv, CarefulRequests, MarkerTrue, CallInv, ReadInv, Complete
  <1>9. ASSUME NEW p \in Processes, CallFails(p) \/ Exit(p) \/ Crash(p)
        PROVE  CacheInv'
    <2>1. EndProcess(p) /\ UNCHANGED <<disk, marker, req>>
      BY <1>9 DEF CallFails, Exit, Crash, Careful, NoLinger
    <2>2. /\ pc'[p] = "idle"
          /\ \A q \in Processes \ {p} :
               pc'[q] = pc[q] /\ task'[q] = task[q] /\ seen'[q] = seen[q]
      BY <2>1, ProcessEnds
    <2> QED
      BY <2>1, <2>2
      DEF CacheInv, CarefulRequests, MarkerTrue, CallInv, ReadInv,
          FoundMarker, TasksKnown, Complete, ToDownload, SkipScreenshots
  <1> QED
    BY <1>1, <1>2, <1>3, <1>4, <1>5, <1>6, <1>7, <1>8, <1>9
    DEF Next, Progress

LEMMA CacheInvariant ==
    ASSUME Careful
    PROVE  Spec => []CacheInv
  <1>1. Init => CacheInv
    <2> SUFFICES ASSUME Init PROVE CacheInv
      OBVIOUS
    <2>1. CarefulRequests
      BY DEF Init, Requests, Careful, NothingOptional, CarefulRequests
    <2> QED
      BY <2>1, TwoScopes DEF Init, CacheInv, MarkerTrue, CallInv, ReadInv
  <1>2. Spec => []NoLeftovers
    BY NoLeftoversInvariant DEF Careful
  <1> QED
    BY <1>1, <1>2, LockInvariant, CacheStep, TypeCorrect, PTL DEF Spec

(* previously-downloaded.txt never vouches for a scope that is not there,  *)
(* for any number of processes that download, fail or are killed in any    *)
(* order, when callers keep to "everything" and "screenshots-only".        *)
THEOREM MarkerTruthful ==
    ASSUME Careful
    PROVE  Spec => []MarkerMeansComplete
  <1>1. CacheInv => MarkerMeansComplete
    BY DEF CacheInv, MarkerTrue, Complete, MarkerMeansComplete
  <1> QED  BY <1>1, CacheInvariant, PTL

(* ... and what a call handed out is never written again under its reader. *)
THEOREM ReadersUndisturbed ==
    ASSUME Careful
    PROVE  Spec => []UsedIsComplete
  <1>1. CacheInv => UsedIsComplete
    BY DEF CacheInv, ReadInv, Complete, UsedIsComplete
  <1> QED  BY <1>1, CacheInvariant, PTL

-----------------------------------------------------------------------------
(* TarExtraction. *)

LEMMA JobTyped ==
    ASSUME TarTypeOK, NEW a \in Attempts, NEW e \in Entries,
           NEW s \in JobStates, SetJob(a, e, s)
    PROVE  /\ job' \in [Attempts -> [Entries -> JobStates]]
           /\ job'[a][e] = s
           /\ \A b \in Attempts, f \in Entries :
                b # a \/ f # e => job'[b][f] = job[b][f]
  <1>1. job \in [Attempts -> [Entries -> JobStates]]
    BY DEF TarTypeOK
  <1>2. job' = [job EXCEPT ![a] = [job[a] EXCEPT ![e] = s]]
    BY DEF SetJob
  <1>3. [job[a] EXCEPT ![e] = s] \in [Entries -> JobStates]
    BY <1>1
  <1> QED  BY <1>1, <1>2, <1>3

(* The loop sleeps only when another attempt is left: TarTypeOK alone is not   *)
(* inductive, as Retry counts without looking.                             *)
TarTypeInv == TarTypeOK /\ (phase = "sleeping" => attempt < maxRetries)

LEMMA TarInitTyped == TarInit => TarTypeOK /\ attempt = 0 /\ job = NoJobs
  <1> SUFFICES ASSUME TarInit PROVE TarTypeOK /\ attempt = 0 /\ job = NoJobs
    OBVIOUS
  <1>1. 0 \in Attempts /\ 0 \in 0..EntryCount
    BY TarAssumption DEF Attempts
  <1>2. NoJobs \in [Attempts -> [Entries -> JobStates]]
    BY DEF NoJobs, JobStates
  <1> QED  BY <1>1, <1>2 DEF TarInit, TarTypeOK, TarPhases

(* Every reachable state is typed: no attempt beyond maxRetries is made    *)
(* and the parser of an attempt never passes more entries than there are.  *)
THEOREM TarTypeCorrect == TarSpec => []TarTypeOK
  <1>1. TarInit => TarTypeInv
    BY TarInitTyped DEF TarInit, TarTypeInv
  <1>2. TarTypeInv /\ [TarNext]_tarVars => TarTypeOK'
    <2> SUFFICES ASSUME TarTypeInv, [TarNext]_tarVars PROVE TarTypeOK'
      OBVIOUS
    <2>0. TarTypeOK
      BY DEF TarTypeInv
    <2> USE <2>0
    <2>1. ASSUME Fail PROVE TarTypeOK'
      BY <2>1 DEF Fail, TarTypeOK, TarPhases
    <2>2. CASE MakeDirectory
      BY <2>2 DEF MakeDirectory, TarTypeOK, TarPhases
    <2>3. CASE Respond
      BY <2>3 DEF Respond, TarTypeOK, TarPhases
    <2>4. CASE ReadEntry
      <3>1. read + 1 \in Entries /\ attempt \in Attempts
        BY <2>4, TarAssumption DEF ReadEntry, TarTypeOK, Entries
      <3>2. job' \in [Attempts -> [Entries -> JobStates]]
        BY <2>4, <3>1, JobTyped DEF ReadEntry, JobStates
      <3> QED  BY <2>4, <3>1, <3>2 DEF ReadEntry, TarTypeOK, Entries
    <2>5. CASE PipelineEnds
      BY <2>5 DEF PipelineEnds, TarTypeOK, TarPhases
    <2>6. CASE AttemptFails
      BY <2>1, <2>6 DEF AttemptFails
    <2>7. CASE ReturnEntries
      BY <2>7 DEF ReturnEntries, TarTypeOK, TarPhases
    <2>8. CASE ThrowRecorded
      BY <2>1, <2>8 DEF ThrowRecorded
    <2>9. CASE Deadline
      BY <2>1, <2>9 DEF Deadline, TarTypeOK
    <2>10. CASE StartedLate
      BY <2>10 DEF StartedLate, TarTypeOK, TarPhases
    <2>11. CASE Remove
      BY <2>11 DEF Remove, TarTypeOK, TarPhases
    <2>12. CASE Retry
      <3>1. attempt + 1 \in Attempts /\ 0 \in 0..EntryCount
        BY <2>12, TarAssumption
        DEF Retry, TarTypeInv, TarTypeOK, Attempts
      <3> QED  BY <2>12, <3>1 DEF Retry, TarTypeOK, TarPhases
    <2>13. ASSUME NEW a \in Attempts, NEW e \in Entries, Pool(a, e)
           PROVE  TarTypeOK'
      <3>1. CASE StartWrite(a, e)
        <4>1. job' \in [Attempts -> [Entries -> JobStates]]
          BY <3>1, JobTyped DEF StartWrite, JobStates
        <4> QED  BY <3>1, <4>1 DEF StartWrite, TarTypeOK
      <3>2. CASE OpenLands(a, e)
        <4>1. job' \in [Attempts -> [Entries -> JobStates]]
          BY <3>2, JobTyped DEF OpenLands, JobStates
        <4> QED  BY <3>2, <4>1 DEF OpenLands, TarTypeOK
      <3>3. CASE WriteLands(a, e)
        <4>1. job' \in [Attempts -> [Entries -> JobStates]]
          BY <3>3, JobTyped DEF WriteLands, JobStates
        <4> QED  BY <3>3, <4>1 DEF WriteLands, TarTypeOK
      <3>4. CASE WriteFails(a, e)
        <4>1. job' \in [Attempts -> [Entries -> JobStates]]
          BY <3>4, JobTyped DEF WriteFails, JobStates
        <4> QED  BY <3>4, <4>1 DEF WriteFails, TarTypeOK
      <3> QED  BY <2>13, <3>1, <3>2, <3>3, <3>4 DEF Pool
    <2>14. CASE UNCHANGED tarVars
      BY <2>14 DEF tarVars, TarTypeOK
    <2> QED
      BY <2>2, <2>3, <2>4, <2>5, <2>6, <2>7, <2>8, <2>9, <2>10, <2>11,
         <2>12, <2>13, <2>14 DEF TarNext
  <1>3. TarTypeInv /\ [TarNext]_tarVars =>
            (phase = "sleeping" => attempt < maxRetries)'
    BY DEF TarTypeInv, tarVars, TarNext, MakeDirectory, Respond, ReadEntry,
       PipelineEnds, AttemptFails, ReturnEntries, ThrowRecorded, Deadline,
       StartedLate, Remove, MayTryAgain, Retry, Fail, Pool, StartWrite,
       OpenLands, WriteLands, WriteFails
  <1>4. TarTypeInv => TarTypeOK
    BY DEF TarTypeInv
  <1>5. TarTypeInv /\ [TarNext]_tarVars => TarTypeInv'
    BY <1>2, <1>3 DEF TarTypeInv
  <1> QED  BY <1>1, <1>4, <1>5, PTL DEF TarSpec

-----------------------------------------------------------------------------
(* Completeness of what is returned. *)

(* No open of an earlier attempt is under way, no later attempt has begun. *)
OthersQuiet ==
    \A a \in Attempts, e \in Entries :
        /\ a < attempt => job[a][e] # "opening"
        /\ a > attempt => job[a][e] = "none"

(* What the pool of a live attempt has done is there.                      *)
DoneIsThere ==
    ~aborted => \A e \in Entries :
        job[attempt][e] = "done" => file[e] = "complete"

(* A call that returned did so in a live attempt, all of whose writes      *)
(* ended well.                                                             *)
ReturnedDone ==
    phase = "returned" =>
        ~aborted /\ \A e \in Entries : job[attempt][e] = "done"

(* rm runs, and the delay passes, with the signal fired; the drain of the  *)
(* pool does not outlive it.                                               *)
CleaningAborted ==
    /\ phase \in {"cleaning", "sleeping", "thrown"} => aborted
    /\ phase \in Abortable => ~aborted

TarInv == TarTypeOK /\ OthersQuiet /\ DoneIsThere /\ ReturnedDone /\ CleaningAborted

(* The step of a pool changes no more than its own job and its own file.   *)
LEMMA PoolKeeps ==
    ASSUME TarInv, NEW a \in Attempts, NEW e \in Entries, Pool(a, e)
    PROVE  OthersQuiet' /\ DoneIsThere' /\ ReturnedDone'
  <1> DEFINE S == {"opening", "writing", "done", "failed"}
  <1>1. TarTypeOK /\ OthersQuiet /\ DoneIsThere /\ ReturnedDone
    BY DEF TarInv
  <1>2. PICK s \in S : SetJob(a, e, s)
    BY DEF Pool, StartWrite, OpenLands, WriteLands, WriteFails
  <1>3. /\ job'[a][e] = s
        /\ \A b \in Attempts, f \in Entries :
                b # a \/ f # e => job'[b][f] = job[b][f]
    BY <1>1, <1>2, JobTyped DEF JobStates
  <1>4. /\ attempt' = attempt /\ aborted' = aborted /\ phase' = phase
        /\ job[a][e] \in {"queued", "opening", "writing"}
    BY DEF Pool, StartWrite, OpenLands, WriteLands, WriteFails
  <1>5. attempt \in Nat /\ a \in Nat /\ attempt \in Attempts
    BY <1>1, TarAssumption DEF TarTypeOK, Attempts
  <1>6. a <= attempt
    BY <1>1, <1>4, <1>5 DEF OthersQuiet
  <1>7. a < attempt => s # "opening"
    BY <1>1, <1>3, <1>5 DEF Pool, StartWrite, OpenLands, WriteLands,
       WriteFails, Aborted, SetJob, TarTypeOK, OthersQuiet
  <1>8. OthersQuiet'
    <2> SUFFICES ASSUME NEW b \in Attempts, NEW f \in Entries
                 PROVE  /\ b < attempt => job'[b][f] # "opening"
                        /\ b > attempt => job'[b][f] = "none"
      BY <1>4 DEF OthersQuiet
    <2>1. CASE b = a /\ f = e
      BY <2>1, <1>3, <1>5, <1>6, <1>7
    <2>2. CASE ~(b = a /\ f = e)
      BY <2>2, <1>1, <1>3 DEF OthersQuiet
    <2> QED  BY <2>1, <2>2
  <1>9. ReturnedDone'
    BY <1>1, <1>3, <1>4, <1>5 DEF ReturnedDone
  <1>10. DoneIsThere'
    <2> SUFFICES ASSUME ~aborted, NEW f \in Entries,
                        job'[attempt][f] = "done"
                 PROVE  file'[f] = "complete"
      BY <1>4 DEF DoneIsThere
    <2>1. CASE a = attempt /\ f = e
      BY <2>1, <1>1, <1>3, <1>4, <1>5 DEF Pool, StartWrite, OpenLands,
         WriteLands, WriteFails, Aborted, SetJob, TarTypeOK
    <2>2. CASE ~(a = attempt /\ f = e)
      <3>1. job[attempt][f] = "done" /\ file[f] = "complete"
        BY <2>2, <1>1, <1>3, <1>5 DEF DoneIsThere
      <3>2. CASE f # e
        BY <3>1, <3>2, <1>1 DEF Pool, StartWrite, OpenLands, WriteLands,
           WriteFails, TarTypeOK
      <3>3. CASE f = e
        <4>1. a < attempt
          BY <2>2, <3>3, <1>5, <1>6
        <4>2. job[a][e] # "opening"
          BY <4>1, <1>1 DEF OthersQuiet
        <4> QED
          BY <3>1, <3>3, <4>2, <1>1 DEF Pool, StartWrite, OpenLands,
             WriteLands, WriteFails, TarTypeOK
      <3> QED  BY <3>2, <3>3
    <2> QED  BY <2>1, <2>2
  <1> QED  BY <1>8, <1>9, <1>10

(* When no open outlasts its attempt, a call that returned has every file  *)
(* in place, and nothing that is still running takes one away.             *)
THEOREM ReturnsAllFiles ==
    ASSUME StalledOpens = FALSE
    PROVE  TarSpec => []ReturnedIsComplete
  <1>1. TarInit => TarInv
    <2> SUFFICES ASSUME TarInit PROVE TarInv
      OBVIOUS
    <2>1. \A a \in Attempts, e \in Entries : job[a][e] = "none"
      BY TarInitTyped DEF NoJobs
    <2>2. attempt \in Attempts
      BY TarInitTyped DEF TarTypeOK
    <2> QED
      BY <2>1, <2>2, TarInitTyped DEF TarInit, TarInv, OthersQuiet, DoneIsThere,
         ReturnedDone, CleaningAborted, Abortable
  <1>2. TarInv /\ TarTypeOK' /\ [TarNext]_tarVars => TarInv'
    <2> SUFFICES ASSUME TarInv, TarTypeOK', [TarNext]_tarVars PROVE TarInv'
      OBVIOUS
    <2>0. /\ TarTypeOK /\ OthersQuiet /\ DoneIsThere /\ ReturnedDone
          /\ CleaningAborted
      BY DEF TarInv
    <2>1. ASSUME Fail PROVE TarInv'
      BY <2>0, <2>1
      DEF Fail, TarInv, OthersQuiet, DoneIsThere, ReturnedDone, CleaningAborted, Abortable
    <2>2. CASE MakeDirectory
      BY <2>0, <2>2 DEF MakeDirectory, TarInv, OthersQuiet, DoneIsThere,
         ReturnedDone, CleaningAborted, Abortable
    <2>3. CASE Respond
      BY <2>0, <2>3 DEF Respond, TarInv, OthersQuiet, DoneIsThere,
         ReturnedDone, CleaningAborted, Abortable
    <2>4. CASE ReadEntry
      <3>1. read + 1 \in Entries /\ attempt \in Attempts
        BY <2>0, <2>4, TarAssumption DEF ReadEntry, TarTypeOK, Entries
      <3>2. PICK s \in {"queued", "failed"} : SetJob(attempt, read + 1, s)
        BY <2>4 DEF ReadEntry
      <3>3. /\ job'[attempt][read + 1] = s
            /\ \A b \in Attempts, f \in Entries :
                  b # attempt \/ f # read + 1 => job'[b][f] = job[b][f]
        BY <2>0, <3>1, <3>2, JobTyped DEF JobStates
      <3>4. /\ attempt' = attempt /\ aborted' = aborted
            /\ phase' = "extracting" /\ file' = file
        BY <2>4 DEF ReadEntry
      <3>5. attempt \in Nat
        BY <3>1, TarAssumption DEF Attempts
      <3>6. OthersQuiet'
        BY <2>0, <3>1, <3>3, <3>4, <3>5 DEF OthersQuiet, Attempts
      <3>7. DoneIsThere'
        BY <2>0, <3>1, <3>3, <3>4 DEF DoneIsThere
      <3> QED
        BY <2>0, <2>4, <3>4, <3>6, <3>7
        DEF ReadEntry, TarInv, ReturnedDone, CleaningAborted, Abortable
    <2>5. CASE PipelineEnds
      BY <2>0, <2>5 DEF PipelineEnds, TarInv, OthersQuiet, DoneIsThere,
         ReturnedDone, CleaningAborted, Abortable
    <2>6. CASE AttemptFails
      BY <2>1, <2>6 DEF AttemptFails
    <2>7. CASE ReturnEntries
      <3>1. \A e \in Entries : job[attempt][e] = "done"
        BY <2>7 DEF ReturnEntries, Drained, Recorded, Settled
      <3>2. ~aborted
        BY <2>0, <2>7 DEF ReturnEntries, CleaningAborted, Abortable
      <3> QED
        BY <2>0, <2>7, <3>1, <3>2 DEF ReturnEntries, TarInv, OthersQuiet,
           DoneIsThere, ReturnedDone, CleaningAborted, Abortable
    <2>8. CASE ThrowRecorded
      BY <2>1, <2>8 DEF ThrowRecorded
    <2>9. CASE Deadline
      <3>1. CASE Fail
        BY <2>1, <3>1
      <3>2. CASE ~Fail
        BY <2>0, <2>9, <3>2 DEF Deadline, TarInv, OthersQuiet, DoneIsThere,
           ReturnedDone, CleaningAborted, Abortable
      <3> QED  BY <3>1, <3>2
    <2>10. CASE StartedLate
      BY <2>0, <2>10 DEF StartedLate, TarInv, OthersQuiet, DoneIsThere,
         ReturnedDone, CleaningAborted, Abortable
    <2>11. CASE Remove
      BY <2>0, <2>11 DEF Remove, TarInv, OthersQuiet, DoneIsThere,
         ReturnedDone, CleaningAborted, Abortable
    <2>12. CASE Retry
      <3>1. \A e \in Entries : job[attempt][e] # "opening"
        BY <2>12 DEF Retry
      <3> QED
        BY <2>0, <2>12, <3>1, TarAssumption DEF Retry, TarInv, TarTypeOK,
           OthersQuiet, DoneIsThere, ReturnedDone, CleaningAborted, Abortable, Attempts
    <2>13. ASSUME NEW a \in Attempts, NEW e \in Entries, Pool(a, e)
           PROVE  TarInv'
      <3>1. phase' = phase /\ aborted' = aborted
        BY <2>13 DEF Pool, StartWrite, OpenLands, WriteLands, WriteFails
      <3> QED  BY <2>0, <2>13, <3>1, PoolKeeps DEF TarInv, CleaningAborted
    <2>14. CASE UNCHANGED tarVars
      BY <2>0, <2>14 DEF tarVars, TarInv, OthersQuiet, DoneIsThere,
         ReturnedDone, CleaningAborted, Abortable
    <2> QED
      BY <2>2, <2>3, <2>4, <2>5, <2>6, <2>7, <2>8, <2>9, <2>10, <2>11,
         <2>12, <2>13, <2>14 DEF TarNext
  <1>3. TarInv => ReturnedIsComplete
    BY DEF TarInv, DoneIsThere, ReturnedDone, ReturnedIsComplete
  <1> QED  BY <1>1, <1>2, <1>3, TarTypeCorrect, PTL DEF TarSpec

=============================================================================
