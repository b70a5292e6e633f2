---------------------------- MODULE TarExtraction -----------------------------
(***************************************************************************)
(* Streamed download and parallel extraction of a tar archive              *)
(* (downloading-helpers/src/file-downloads/download-file.ts): attempts     *)
(* that are cut off by a deadline, a pool of file writes that outlives the *)
(* attempt it belongs to, and the removal and retry in between.  Entries   *)
(* are the files of the archive in order, all in the directory itself; an  *)
(* archive is immutable, so a file is absent, truncated or complete.       *)
(***************************************************************************)
EXTENDS Naturals, FiniteSets

CONSTANTS
    EntryCount,          \* files in the archive
    extractConcurrency,
    maxRetries,
    StalledOpens         \* may an open() outlast the removal and the delay?

ASSUME TarAssumption ==
    /\ EntryCount \in Nat \ {0}
    /\ extractConcurrency \in Nat \ {0}
    /\ maxRetries \in Nat
    /\ StalledOpens \in BOOLEAN

VARIABLES
    phase,     \* where the call is
    attempt,   \* number of the current attempt, from 0
    aborted,   \* has the signal of the current attempt fired?
    read,      \* entries the parser of this attempt has passed
    job,       \* by attempt and entry: the write, in its attempt's pool
    exists,    \* is the directory there?
    file       \* by entry: what is in the directory

tarVars == <<phase, attempt, aborted, read, job, exists, file>>

Entries == 1..EntryCount

Attempts == 0..maxRetries

(* An attempt is over and aborted once the next has begun. *)
Aborted(a) == a < attempt \/ aborted

NoJobs == [a \in Attempts |-> [e \in Entries |-> "none"]]

SetJob(a, e, s) == job' = [job EXCEPT ![a][e] = s]

-----------------------------------------------------------------------------
(* The call: one loop iteration per attempt. *)

TarInit ==
    /\ phase = "starting" /\ attempt = 0 /\ aborted = FALSE /\ read = 0
    /\ job = NoJobs
    /\ exists = FALSE
    /\ file = [e \in Entries |-> "absent"]

(* The catch block up to its first await: the signal is fired. *)
Fail ==
    /\ phase' = "cleaning"
    /\ aborted' = TRUE
    /\ UNCHANGED <<attempt, read, job, exists, file>>

(* mkdir of the directory; a signal that fired meanwhile stops the GET. *)
MakeDirectory ==
    /\ phase = "starting"
    /\ ~aborted
    /\ phase' = "requesting"
    /\ exists' = TRUE
    /\ UNCHANGED <<attempt, aborted, read, job, file>>

Respond ==
    /\ phase = "requesting"
    /\ phase' = "extracting"
    /\ UNCHANGED <<attempt, aborted, read, job, exists, file>>

(* The parser passes an entry: its write joins the pool, or its error is  *)
(* recorded.                                                              *)
ReadEntry ==
    /\ phase = "extracting"
    /\ read < EntryCount
    /\ read' = read + 1
    /\ \E s \in {"queued", "failed"} : SetJob(attempt, read + 1, s)
    /\ UNCHANGED <<phase, attempt, aborted, exists, file>>

PipelineEnds ==
    /\ phase = "extracting"
    /\ read = EntryCount
    /\ phase' = "draining"
    /\ UNCHANGED <<attempt, aborted, read, job, exists, file>>

(* The directory, the request, the download or the archive is bad. *)
AttemptFails ==
    /\ phase \in {"starting", "requesting", "extracting"}
    /\ Fail

(* Mutated form of Settled: the pool has taken up every write. *)
SettledEarly(s) == s \notin {"none", "queued"}

Settled(s) == s \in {"done", "failed"}

Drained == \A e \in Entries : Settled(job[attempt][e])

(* firstError, but for errors of the pipeline. *)
Recorded == \E e \in Entries : job[attempt][e] = "failed"

ReturnEntries ==
    /\ phase = "draining"
    /\ Drained
    /\ ~Recorded
    /\ phase' = "returned"
    /\ UNCHANGED <<attempt, aborted, read, job, exists, file>>

ThrowRecorded ==
    /\ phase = "draining"
    /\ Drained
    /\ Recorded
    /\ Fail

(* Mutated form of Abortable: the drain of the pool is not raced. *)
AbortableButDrain == {"requesting", "extracting"}

(* Waits that the signal cuts short; a mkdir under way is not one. *)
Abortable == {"requesting", "extracting", "draining"}

Deadline ==
    /\ ~aborted
    /\ \/ phase \in Abortable /\ Fail
       \/ /\ phase = "starting"
          /\ aborted' = TRUE
          /\ UNCHANGED <<phase, attempt, read, job, exists, file>>

(* A mkdir that outlasted the deadline. *)
StartedLate ==
    /\ phase = "starting"
    /\ aborted
    /\ phase' = "cleaning"
    /\ exists' = TRUE
    /\ UNCHANGED <<attempt, aborted, read, job, file>>

-----------------------------------------------------------------------------
(* Mutated form of MayTryAgain: one attempt too many. *)
TryOnceMore == attempt <= maxRetries

MayTryAgain == attempt < maxRetries

(* rm of the directory: all of it is gone, or rm gave up half-way and its *)
(* error is swallowed.                                                    *)
Remove ==
    /\ phase = "cleaning"
    /\ \/ /\ exists' = FALSE
          /\ file' = [e \in Entries |-> "absent"]
       \/ \E kept \in SUBSET Entries :
            /\ file' = [e \in Entries |->
                            IF e \in kept THEN file[e] ELSE "absent"]
            /\ UNCHANGED exists
    /\ phase' = IF MayTryAgain THEN "sleeping" ELSE "thrown"
    /\ UNCHANGED <<attempt, aborted, read, job>>

(* The delay is over. Unless opens stall, those of the last attempt are   *)
(* over too.                                                              *)
Retry ==
    /\ phase = "sleeping"
    /\ StalledOpens \/ \A e \in Entries : job[attempt][e] # "opening"
    /\ phase' = "starting"
    /\ attempt' = attempt + 1
    /\ aborted' = FALSE
    /\ read' = 0
    /\ UNCHANGED <<job, exists, file>>

-----------------------------------------------------------------------------
(* The pool of an attempt, which nobody stops: only its signal does. *)

Busy(a) == {e \in Entries : job[a][e] \in {"opening", "writing"}}

FirstQueued(a, e) == \A f \in Entries : f < e => job[a][f] # "queued"

(* A slot is free: writeFile looks at the signal and opens the file. *)
StartWrite(a, e) ==
    /\ job[a][e] = "queued"
    /\ FirstQueued(a, e)
    /\ Cardinality(Busy(a)) < extractConcurrency
    /\ SetJob(a, e, IF Aborted(a) THEN "failed" ELSE "opening")
    /\ UNCHANGED <<phase, attempt, aborted, read, exists, file>>

(* open() truncates or creates the file, whatever the signal says by now; *)
(* the signal is looked at again before anything is written.              *)
OpenLands(a, e) ==
    /\ job[a][e] = "opening"
    /\ IF exists
       THEN /\ file' = [file EXCEPT ![e] = "truncated"]
            /\ SetJob(a, e, IF Aborted(a) THEN "failed" ELSE "writing")
       ELSE /\ SetJob(a, e, "failed")
            /\ UNCHANGED file
    /\ UNCHANGED <<phase, attempt, aborted, read, exists>>

(* The content is written. A write that was under way when the signal     *)
(* fired may still land, in the file if that has not been removed.        *)
WriteLands(a, e) ==
    /\ job[a][e] = "writing"
    /\ IF Aborted(a)
       THEN /\ SetJob(a, e, "failed")
            /\ \/ UNCHANGED file
               \/ /\ file[e] # "absent"
                  /\ file' = [file EXCEPT ![e] = "complete"]
       ELSE /\ SetJob(a, e, "done")
            /\ file' = [file EXCEPT ![e] = "complete"]
    /\ UNCHANGED <<phase, attempt, aborted, read, exists>>

WriteFails(a, e) ==
    /\ job[a][e] \in {"opening", "writing"}
    /\ SetJob(a, e, "failed")
    /\ UNCHANGED <<phase, attempt, aborted, read, exists, file>>

Pool(a, e) ==
    StartWrite(a, e) \/ OpenLands(a, e) \/ WriteLands(a, e) \/ WriteFails(a, e)

TarNext ==
    \/ MakeDirectory \/ Respond \/ ReadEntry \/ PipelineEnds
    \/ AttemptFails \/ ReturnEntries \/ ThrowRecorded \/ Deadline \/ StartedLate
    \/ Remove \/ Retry
    \/ \E a \in Attempts, e \in Entries : Pool(a, e)

(* The timer fires, mkdir and rm settle, the delay ends, and so does an    *)
(* open of an attempt that is over.  Writes and the network may stall for  *)
(* ever.                                                                   *)
TarFairness ==
    /\ WF_tarVars(Deadline)
    /\ WF_tarVars(MakeDirectory \/ StartedLate)
    /\ WF_tarVars(Remove)
    /\ WF_tarVars(Retry)
    /\ WF_tarVars(\E e \in Entries : aborted /\ OpenLands(attempt, e))

TarSpec == TarInit /\ [][TarNext]_tarVars

TarFairSpec == TarSpec /\ TarFairness

-----------------------------------------------------------------------------
(* Properties. *)

TarPhases == {"starting", "requesting", "extracting", "draining", "cleaning",
           "sleeping", "returned", "thrown"}

JobStates == {"none", "queued", "opening", "writing", "done", "failed"}

(* Types; no attempt beyond maxRetries is made.                            *)
TarTypeOK ==
    /\ phase \in TarPhases
    /\ attempt \in Attempts
    /\ aborted \in BOOLEAN
    /\ read \in 0..EntryCount
    /\ job \in [Attempts -> [Entries -> JobStates]]
    /\ exists \in BOOLEAN
    /\ file \in [Entries -> {"absent", "truncated", "complete"}]

(* A call that returns leaves "a fully-materialized directory": every file *)
(* is there and complete, and stays so, whatever the pools of this and of  *)
(* earlier attempts were doing when their attempt was cut off.             *)
ReturnedIsComplete ==
    phase = "returned" => \A e \in Entries : file[e] = "complete"

(* The call ends by its deadlines even when the network or the writes      *)
(* stall for ever ("rejects promptly instead of blocking past the timeout  *)
(* window").                                                               *)
Terminates == <>(phase \in {"returned", "thrown"})

=============================================================================
