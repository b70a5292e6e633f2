---------------------------- MODULE ReplayArchive ----------------------------
(***************************************************************************)
(* The cache directory of one replay, shared by the processes that         *)
(* download it (downloading-helpers/src/scripts/replays.ts), with the      *)
(* directory lock (local-data.utils.ts) and the download of one file       *)
(* (download-file.ts).                                                     *)
(*                                                                         *)
(* A replay never changes, so a file is absent, partial or complete; mixed *)
(* is the state in which overlapping writers leave it, which may be any of *)
(* the others.  Some artifacts are downloaded in place; the others as an   *)
(* archive beside their target, which only the extraction writes.  Nobody  *)
(* stops an extraction that is given up: it goes on writing, late, for as  *)
(* long as its process lives.                                              *)
(*                                                                         *)
(* proper-lockfile is external: one holder at a time, a call gives up      *)
(* after a while, and the lock of a process that died is taken over.  That *)
(* MAX_DOWNLOAD_CONCURRENCY tasks run at once only delays their starts,    *)
(* which here may be delayed for as long as you like.                      *)
(***************************************************************************)
EXTENDS Naturals, FiniteSets

CONSTANTS
    Processes,
    Offered,              \* the artifacts the server offers for the replay
    DownloadScopes,       \* the scopes callers ask for
    ExcludeSets,          \* the excludeFileTypes they pass
    BestEffortSets,       \* the bestEffortFileTypes they pass
    MAX_CONTENT_RETRIES,
    LingerAfterFailure,   \* a process outlives the call that failed in it
    Free                  \* the lock when nobody holds it

Scopes ==
    {"everything", "screenshots-only", "timeline-only",
     "post-test-run-processing-files-only",
     "post-process-including-unmapped-ranges"}

PostProcessed == {"mappedCoverage", "timeline", "mappedPerScreenshotJsCoverage"}

FilesOf(scope) ==
    Offered \cap
    CASE scope = "everything" -> Offered
      [] scope = "screenshots-only" -> {"screenshots"}
      [] scope = "timeline-only" -> {"timeline"}
      [] scope = "post-test-run-processing-files-only" -> PostProcessed
      [] OTHER -> PostProcessed \cup {"rawCoverage"}

(* Downloaded in place, by downloadFile; the others are archives. *)
InPlace == {"screenshots", "diffs", "appContainerLogs"}

BestEffortFileTypes ==
    {"snapshottedAssets", "rawPerScreenshotCssCoverage",
     "rawPerScreenshotJsCoverage", "mappedPerScreenshotJsCoverage"}

Requests ==
    [scope : DownloadScopes, excluded : ExcludeSets,
     bestEffort : BestEffortSets]

ASSUME ConstantsAssumption ==
    /\ DownloadScopes \subseteq Scopes
    /\ ExcludeSets \subseteq SUBSET Offered
    /\ BestEffortSets \subseteq SUBSET BestEffortFileTypes
    /\ MAX_CONTENT_RETRIES \in Nat
    /\ LingerAfterFailure \in BOOLEAN
    /\ Free \notin Processes

VARIABLES
    disk,     \* disk[f]: state of the artifact's files
    marker,   \* previously-downloaded.txt
    lock,     \* the holder of dir.lock
    pc,       \* pc[p]: where p stands in getOrFetchReplayArchive
    req,      \* req[p]: its arguments; scope is widened on the way
    seen,     \* seen[p]: previouslyDownloadedScope
    task,     \* task[p][f]: the download of f by p
    tries,    \* tries[p][f]: content retries used
    late      \* late[p]: timed-out extractions of p that still write

vars == <<disk, marker, lock, pc, req, seen, task, tries, late>>

-----------------------------------------------------------------------------
BypassCache(r) == r.excluded # {} \/ r.bestEffort # {}

(* Mutated form of CacheHit: any earlier download will do. *)
AnyMarkerHits(r) == ~BypassCache(r) /\ marker \in Scopes

CacheHit(r) ==
    ~BypassCache(r) /\ marker \in Scopes \cap {r.scope, "everything"}

Widened(r) ==
    IF ~BypassCache(r) /\ marker \in Scopes
    THEN [r EXCEPT !.scope = "everything"] ELSE r

(* Mutated form of SkipScreenshots: they are taken to be there. *)
AlwaysSkipScreenshots(p) == {"screenshots"}

SkipScreenshots(p) ==
    IF seen[p] = "screenshots-only" THEN {"screenshots"} ELSE {}

ToDownload(p) ==
    FilesOf(req[p].scope) \ (req[p].excluded \cup SkipScreenshots(p))

NoTasks == [f \in Offered |-> "off"]

NoTries == [f \in Offered |-> 0]

(* Mutated form of LockFree: nobody waits. *)
LockIgnored == TRUE

LockFree == lock = Free

(* Mutated form of Released: the lock is left behind. *)
NeverReleased(p) == lock

Released(p) == IF lock = p THEN Free ELSE lock

(* The call returns to its caller, who starts to read the files. *)
Return(p) ==
    /\ lock' = Released(p)
    /\ pc' = [pc EXCEPT ![p] = "using"]

EndProcess(p) ==
    /\ pc' = [pc EXCEPT ![p] = "idle"]
    /\ task' = [task EXCEPT ![p] = NoTasks]
    /\ tries' = [tries EXCEPT ![p] = NoTries]
    /\ seen' = [seen EXCEPT ![p] = "none"]
    /\ late' = [late EXCEPT ![p] = {}]

-----------------------------------------------------------------------------
Init ==
    /\ disk = [f \in Offered |-> "absent"]
    /\ marker = "none"
    /\ lock = Free
    /\ pc = [p \in Processes |-> "idle"]
    /\ req \in [Processes -> Requests]
    /\ seen = [p \in Processes |-> "none"]
    /\ task = [p \in Processes |-> NoTasks]
    /\ tries = [p \in Processes |-> NoTries]
    /\ late = [p \in Processes |-> {}]

Call(p) ==
    /\ pc[p] = "idle"
    /\ \E r \in Requests : req' = [req EXCEPT ![p] = r]
    /\ pc' = [pc EXCEPT ![p] = "waiting"]
    /\ UNCHANGED <<disk, marker, lock, seen, task, tries, late>>

Acquire(p) ==
    /\ pc[p] = "waiting"
    /\ LockFree
    /\ lock' = p
    /\ pc' = [pc EXCEPT ![p] = "checking"]
    /\ UNCHANGED <<disk, marker, req, seen, task, tries, late>>

(* maxRetryTime is up while somebody else holds the lock. *)
GiveUp(p) ==
    /\ pc[p] = "waiting"
    /\ ~LockFree
    /\ pc' = [pc EXCEPT ![p] = "idle"]
    /\ UNCHANGED <<disk, marker, lock, req, seen, task, tries, late>>

(* The marker is read under the lock: a hit returns at once. *)
CheckMarker(p) ==
    /\ pc[p] = "checking"
    /\ marker # "empty"
    /\ IF CacheHit(req[p])
       THEN Return(p) /\ UNCHANGED <<req, seen>>
       ELSE /\ seen' = [seen EXCEPT ![p] = marker]
            /\ req' = [req EXCEPT ![p] = Widened(@)]
            /\ pc' = [pc EXCEPT ![p] = "listing"]
            /\ UNCHANGED lock
    /\ UNCHANGED <<disk, marker, task, tries, late>>

(* getReplay and getReplayV3DownloadUrls answer; the downloads are queued. *)
ListFiles(p) ==
    /\ pc[p] = "listing"
    /\ task' = [task EXCEPT ![p] =
                  [f \in Offered |->
                     IF f \in ToDownload(p) THEN "queued" ELSE "off"]]
    /\ tries' = [tries EXCEPT ![p] = NoTries]
    /\ pc' = [pc EXCEPT ![p] = "downloading"]
    /\ UNCHANGED <<disk, marker, lock, req, seen, late>>

-----------------------------------------------------------------------------
(* The download of one artifact. *)

SetTask(p, f, status) == task' = [task EXCEPT ![p][f] = status]

(* maybeBestEffort: the failure of an optional artifact is swallowed. *)
GivenUp(p, f) == IF f \in req[p].bestEffort THEN "done" ELSE "failed"

Writes(p, f) == task[p][f] = "writing" \/ f \in late[p]

OthersWrite(p, f) == \E q \in Processes \ {p} : Writes(q, f)

(* What p's writing of f to the end makes of the target.  A file removed   *)
(* meanwhile stays away; where writers overlapped, the last may complete   *)
(* what they left, or not.                                                 *)
Ended(p, f) ==
    IF disk[f] = "mixed"
    THEN IF OthersWrite(p, f) THEN {"mixed"} ELSE {"partial", "complete"}
    ELSE IF disk[f] = "absent" THEN {"absent"} ELSE {"complete"}

(* The response has come, or the archive: the target is being written. *)
StartWriting(p, f) ==
    /\ task[p][f] = "queued"
    /\ SetTask(p, f, "writing")
    /\ disk' = [disk EXCEPT ![f] = IF OthersWrite(p, f)
                                   THEN "mixed" ELSE "partial"]
    /\ UNCHANGED <<tries, late>>

(* No response, or no archive: the target is not touched. *)
RequestFails(p, f) ==
    /\ task[p][f] = "queued"
    /\ SetTask(p, f, GivenUp(p, f))
    /\ UNCHANGED <<disk, tries, late>>

FinishWriting(p, f) ==
    /\ task[p][f] = "writing"
    /\ SetTask(p, f, "done")
    /\ \E s \in Ended(p, f) : disk' = [disk EXCEPT ![f] = s]
    /\ UNCHANGED <<tries, late>>

(* Mutated form of MayRetry: one retry too many. *)
RetryOnceMore(p, f) == tries[p][f] <= MAX_CONTENT_RETRIES

MayRetry(p, f) == tries[p][f] < MAX_CONTENT_RETRIES

(* The content breaks off: a file downloaded in place is removed and tried *)
(* again; an extraction leaves what it wrote.                              *)
ContentFails(p, f) ==
    /\ task[p][f] = "writing"
    /\ IF f \in InPlace
       THEN /\ disk' = [disk EXCEPT ![f] = "absent"]
            /\ IF MayRetry(p, f)
               THEN /\ SetTask(p, f, "queued")
                    /\ tries' = [tries EXCEPT ![p][f] = @ + 1]
               ELSE SetTask(p, f, "failed") /\ UNCHANGED tries
       ELSE SetTask(p, f, GivenUp(p, f)) /\ UNCHANGED <<disk, tries>>
    /\ UNCHANGED late

(* The extraction takes too long: Promise.race rejects, and nothing stops  *)
(* the extraction.                                                         *)
ExtractionTimesOut(p, f) ==
    /\ f \notin InPlace
    /\ task[p][f] = "writing"
    /\ SetTask(p, f, GivenUp(p, f))
    /\ late' = [late EXCEPT ![p] = @ \cup {f}]
    /\ UNCHANGED <<disk, tries>>

Download(p, f) ==
    /\ pc[p] \in {"downloading", "dying"}
    /\ \/ StartWriting(p, f) \/ RequestFails(p, f)
       \/ FinishWriting(p, f) \/ ContentFails(p, f)
       \/ ExtractionTimesOut(p, f)
    /\ UNCHANGED <<marker, lock, pc, req, seen>>

(* A timed-out extraction gets to its end, or breaks off. *)
LateEnds(p, f) ==
    /\ f \in late[p]
    /\ late' = [late EXCEPT ![p] = @ \ {f}]
    /\ \E s \in Ended(p, f) \cup {disk[f]} : disk' = [disk EXCEPT ![f] = s]
    /\ UNCHANGED <<marker, lock, pc, req, seen, task, tries>>

-----------------------------------------------------------------------------
AllDownloaded(p) == \A f \in Offered : task[p][f] \in {"off", "done"}

(* Promise.all resolves.  A cached download opens the marker for writing,  *)
(* which empties it; a bypassing one leaves it alone.                      *)
DownloadsDone(p) ==
    /\ pc[p] = "downloading"
    /\ AllDownloaded(p)
    /\ IF BypassCache(req[p])
       THEN Return(p) /\ UNCHANGED marker
       ELSE /\ marker' = "empty"
            /\ pc' = [pc EXCEPT ![p] = "marking"]
            /\ UNCHANGED lock
    /\ UNCHANGED <<disk, req, seen, task, tries, late>>

WriteMarker(p) ==
    /\ pc[p] = "marking"
    /\ marker' = req[p].scope
    /\ Return(p)
    /\ UNCHANGED <<disk, req, seen, task, tries, late>>

(* Something throws: an empty marker is an unknown scope, an API call or   *)
(* the write of the marker fails, or the first failed download rejects     *)
(* Promise.all.  The lock is released at once; other downloads go on for   *)
(* as long as the process does.                                            *)
CallFails(p) ==
    /\ \/ pc[p] = "checking" /\ marker = "empty"
       \/ pc[p] \in {"listing", "marking"}
       \/ pc[p] = "downloading" /\ \E f \in Offered : task[p][f] = "failed"
    /\ lock' = Released(p)
    /\ IF LingerAfterFailure
       THEN /\ pc' = [pc EXCEPT ![p] = "dying"]
            /\ UNCHANGED <<seen, task, tries, late>>
       ELSE EndProcess(p)
    /\ UNCHANGED <<disk, marker, req>>

(* The process ends: it has read what it wanted, or its call had failed. *)
Exit(p) ==
    /\ pc[p] \in {"using", "dying"}
    /\ EndProcess(p)
    /\ UNCHANGED <<disk, marker, lock, req>>

(* The process is killed; its lock goes stale and is taken over. *)
Crash(p) ==
    /\ pc[p] # "idle"
    /\ lock' = IF lock = p THEN Free ELSE lock
    /\ EndProcess(p)
    /\ UNCHANGED <<disk, marker, req>>

Progress(p) ==
    \/ CheckMarker(p) \/ ListFiles(p) \/ CallFails(p)
    \/ \E f \in Offered : Download(p, f)
    \/ DownloadsDone(p) \/ WriteMarker(p)

Next ==
    \E p \in Processes :
        \/ Call(p) \/ Acquire(p) \/ GiveUp(p) \/ Progress(p)
        \/ \E f \in Offered : LateEnds(p, f)
        \/ Exit(p) \/ Crash(p)

(* Requests, timers and file operations settle. *)
Fairness == \A p \in Processes : WF_vars(Progress(p))

Spec == Init /\ [][Next]_vars

FairSpec == Spec /\ Fairness

-----------------------------------------------------------------------------
(* Properties. *)

Phases == {"idle", "waiting", "checking", "listing", "downloading",
           "marking", "using", "dying"}

(* Types; no download is retried more than MAX_CONTENT_RETRIES times.      *)
TypeOK ==
    /\ disk \in [Offered -> {"absent", "partial", "mixed", "complete"}]
    /\ marker \in Scopes \cup {"none", "empty"}
    /\ lock \in Processes \cup {Free}
    /\ pc \in [Processes -> Phases]
    /\ req \in [Processes -> [scope : Scopes, excluded : ExcludeSets,
                              bestEffort : BestEffortSets]]
    /\ seen \in [Processes -> Scopes \cup {"none"}]
    /\ task \in [Processes ->
                   [Offered -> {"off", "queued", "writing", "done", "failed"}]]
    /\ tries \in [Processes -> [Offered -> 0..MAX_CONTENT_RETRIES]]
    /\ late \in [Processes -> SUBSET Offered]

(* "Do not try downloading a file to a path that may already be in use by  *)
(* another process": no two processes write the same artifact at once, an  *)
(* extraction that was given up and still writes included.                 *)
OneWriterPerFile ==
    \A p, q \in Processes, f \in Offered :
        Writes(p, f) /\ Writes(q, f) => p = q

(* A write nobody waits for: an extraction that timed out, or a download   *)
(* of a call that failed before.                                           *)
Leftover(p, f) == f \in late[p] \/ pc[p] = "dying"

(* What the directory lock gives whatever callers ask for, and whether or  *)
(* not processes outlive their failed calls: when two processes write the  *)
(* same artifact, one of the two writes is a leftover.                     *)
OnlyLeftoversOverlap ==
    \A p, q \in Processes, f \in Offered :
        Writes(p, f) /\ Writes(q, f) /\ p # q =>
            Leftover(p, f) \/ Leftover(q, f)

(* previously-downloaded.txt tells the truth: whoever takes the lock and   *)
(* finds a scope in it finds every artifact of that scope complete,        *)
(* however calls overlapped, failed or were killed before.                 *)
MarkerMeansComplete ==
    lock = Free /\ marker \in Scopes =>
        \A f \in FilesOf(marker) : disk[f] = "complete"

(* What a call returned stays complete while its caller reads it, whoever  *)
(* else downloads the replay meanwhile.                                    *)
UsedIsComplete ==
    \A p \in Processes :
        pc[p] = "using" /\ ~BypassCache(req[p]) =>
            \A f \in FilesOf(req[p].scope) : disk[f] = "complete"

(* No path through a call keeps the lock: hit, miss, failure or death.     *)
LockReleased == \A p \in Processes : lock = p ~> lock # p

=============================================================================
