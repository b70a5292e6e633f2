--------------------------- MODULE MultipartUpload ----------------------------
(***************************************************************************)
(* The streaming multipart upload of a build's assets: the part buffer     *)
(* (remote-replay-launcher/src/upload-utils/multipart-buffer-manager.ts),  *)
(* the uploader that feeds it (multipart-compressing-uploader.ts) and the  *)
(* retried PUT of one part (client/src/utils/retry-transient-upload-       *)
(* errors.ts).  The compressed stream is its byte positions 1..produced;   *)
(* a part is the interval of positions it carries, and so is its eTag.     *)
(***************************************************************************)
EXTENDS Naturals, Sequences, FiniteSets

CONSTANTS
    uploadChunkSize,          \* chosen by the backend
    UrlCount,                 \* pre-signed part URLs the backend handed out
    MAX_CONCURRENT_UPLOADS,
    MAX_ATTEMPTS,             \* of one PUT
    MaxBytes,                 \* bound: length of the compressed stream
    MaxData                   \* most bytes one data event compresses to

ASSUME ConstantsAssumption ==
    /\ uploadChunkSize \in Nat \ {0}
    /\ UrlCount \in Nat
    /\ MAX_CONCURRENT_UPLOADS \in Nat \ {0}
    /\ MAX_ATTEMPTS \in Nat \ {0}
    /\ MaxBytes \in Nat
    /\ MaxData \in Nat \ {0}

VARIABLES
    phase,       \* "streaming", "finalizing", "resolved", "rejected", "crashed"
    produced,    \* bytes the compressor has emitted
    flushed,     \* bytes already cut into parts; the rest is buffered
    parts,       \* pendingUploads, by part number
    urlIndex,    \* preSignedUrlIndex
    stored,      \* what S3 holds under each part number
    eTags        \* the result of execute()

vars == <<phase, produced, flushed, parts, urlIndex, stored, eTags>>

-----------------------------------------------------------------------------
Interval(a, b) == [from |-> a, to |-> b]

Size(r) == r.to + 1 - r.from

Part(r, isLast) ==
    [range |-> r, last |-> isLast, status |-> "waiting", url |-> 0, tries |-> 0]

Active == {i \in DOMAIN parts : parts[i].status \in {"signing", "putting"}}

(* Mutated form of Failed: the promise of the last part only is awaited. *)
LastFailed == parts # <<>> /\ parts[Len(parts)].status = "failed"

Failed == \E i \in DOMAIN parts : parts[i].status = "failed"

LastPartCut == parts # <<>> /\ parts[Len(parts)].last

(* Parts under way are not stopped when execute() rejects. *)
Alive == phase # "crashed"

(* Mutated form of PartEnd: a full buffer is uploaded whole. *)
PartEndWhole(isLast, total) == total

(* The last byte of the next part when the buffer ends at total. *)
PartEnd(isLast, total) ==
    IF ~isLast /\ total - flushed > uploadChunkSize
    THEN flushed + uploadChunkSize ELSE total

(* addChunk of n bytes, then flush if the caller asks for it. *)
AddAndFlush(n, isLast) ==
    LET total == produced + n
        end   == PartEnd(isLast, total)
        cut   == /\ total > flushed
                 /\ isLast \/ total - flushed >= uploadChunkSize
    IN  /\ produced' = total
        /\ IF cut
           THEN /\ parts' = Append(parts,
                              Part(Interval(flushed + 1, end), isLast))
                /\ flushed' = end
           ELSE UNCHANGED <<parts, flushed>>

Init ==
    /\ phase = "streaming"
    /\ produced = 0 /\ flushed = 0
    /\ parts = <<>>
    /\ urlIndex = 0
    /\ stored = [i \in {} |-> Interval(1, 0)]
    /\ eTags = <<>>

(* A data event of the tar stream: at most one part is cut per event. *)
Data ==
    /\ phase = "streaming"
    /\ \E n \in 1..MaxData :
        /\ produced + n <= MaxBytes
        /\ AddAndFlush(n, FALSE)
    /\ UNCHANGED <<phase, urlIndex, stored, eTags>>

(* The stream ends: the compressor's final bytes and all that is buffered *)
(* become the last part.                                                  *)
StreamEnds ==
    /\ phase = "streaming"
    /\ \E n \in 1..MaxData : AddAndFlush(n, TRUE)
    /\ phase' = "finalizing"
    /\ UNCHANGED <<urlIndex, stored, eTags>>

StreamFails ==
    /\ phase = "streaming"
    /\ phase' = "rejected"
    /\ UNCHANGED <<produced, flushed, parts, urlIndex, stored, eTags>>

-----------------------------------------------------------------------------
NextInLine(i) == \A j \in 1..(i - 1) : parts[j].status # "waiting"

CanUsePreSignedUrl(p) ==
    /\ Size(p.range) = uploadChunkSize
    /\ ~p.last
    /\ urlIndex < UrlCount

(* Mutated form of AfterUrl: the counter stays where it is. *)
AfterSameUrl == urlIndex

(* The counter is moved past the URL that is handed out: an index from 0 *)
(* before, the number of the part after.                                 *)
AfterUrl == urlIndex + 1

(* The limiter starts the part, and getUploadUrl runs to its first await. *)
StartPart(i) ==
    /\ Alive
    /\ parts[i].status = "waiting"
    /\ NextInLine(i)
    /\ Cardinality(Active) < MAX_CONCURRENT_UPLOADS
    /\ IF CanUsePreSignedUrl(parts[i])
       THEN /\ urlIndex' = AfterUrl
            /\ parts' = [parts EXCEPT ![i].status = "putting",
                                      ![i].url = urlIndex + 1]
       ELSE /\ parts' = [parts EXCEPT ![i].status = "signing"]
            /\ UNCHANGED urlIndex
    /\ UNCHANGED <<phase, produced, flushed, stored, eTags>>

(* requestUploadPart answers, or fails. *)
UrlArrives(i) ==
    /\ Alive
    /\ parts[i].status = "signing"
    /\ \/ parts' = [parts EXCEPT ![i].status = "putting", ![i].url = i]
       \/ parts' = [parts EXCEPT ![i].status = "failed"]
    /\ UNCHANGED <<phase, produced, flushed, urlIndex, stored, eTags>>

Put(i) ==
    [j \in DOMAIN stored \cup {parts[i].url} |->
        IF j = parts[i].url THEN parts[i].range ELSE stored[j]]

PutSucceeds(i) ==
    /\ Alive
    /\ parts[i].status = "putting"
    /\ stored' = Put(i)
    /\ parts' = [parts EXCEPT ![i].status = "done"]
    /\ UNCHANGED <<phase, produced, flushed, urlIndex, eTags>>

(* Mutated form of MayRetry: one attempt too many. *)
RetryOnceMore(p) == p.tries < MAX_ATTEMPTS

MayRetry(p) == p.tries + 1 < MAX_ATTEMPTS

(* An attempt fails, possibly after S3 stored the part: a transient error *)
(* is retried until MAX_ATTEMPTS is reached.                              *)
PutFails(i) ==
    /\ Alive
    /\ parts[i].status = "putting"
    /\ stored' \in {stored, Put(i)}
    /\ \/ /\ MayRetry(parts[i])
          /\ parts' = [parts EXCEPT ![i].tries = @ + 1]
       \/ parts' = [parts EXCEPT ![i].status = "failed"]
    /\ UNCHANGED <<phase, produced, flushed, urlIndex, eTags>>

-----------------------------------------------------------------------------
(* Mutated form of AllUploaded: the parts under way are not awaited. *)
AllStarted == \A i \in DOMAIN parts : parts[i].status \notin {"waiting", "failed"}

AllUploaded == \A i \in DOMAIN parts : parts[i].status = "done"

(* finalize(): Promise.all over the parts, then their eTags in order. *)
Finalize ==
    /\ phase = "finalizing"
    /\ AllUploaded
    /\ phase' = "resolved"
    /\ eTags' = [i \in DOMAIN parts |-> parts[i].range]
    /\ UNCHANGED <<produced, flushed, parts, urlIndex, stored>>

FinalizeFails ==
    /\ phase = "finalizing"
    /\ Failed
    /\ phase' = "rejected"
    /\ UNCHANGED <<produced, flushed, parts, urlIndex, stored, eTags>>

(* Nobody handles the rejection of a part before finalize() does: unless   *)
(* the host process has a handler of its own (the CLI has Sentry's, when   *)
(* that is enabled), Node ends the process on it.  The step is optional,   *)
(* so that both kinds of process are covered.                              *)
UnhandledRejection ==
    /\ Alive
    /\ Failed
    /\ ~LastPartCut
    /\ phase' = "crashed"
    /\ UNCHANGED <<produced, flushed, parts, urlIndex, stored, eTags>>

PartStep(i) == StartPart(i) \/ UrlArrives(i) \/ PutSucceeds(i) \/ PutFails(i)

Next ==
    \/ Data \/ StreamEnds \/ StreamFails
    \/ \E i \in DOMAIN parts : PartStep(i)
    \/ Finalize \/ FinalizeFails \/ UnhandledRejection

(* The stream ends or fails, requests settle, promises are resolved. *)
Fairness == WF_vars(Next)

Spec == Init /\ [][Next]_vars

FairSpec == Spec /\ Fairness

-----------------------------------------------------------------------------
(* Properties. *)

Statuses == {"waiting", "signing", "putting", "done", "failed"}

(* Types; a part never holds more tries than MAX_ATTEMPTS allows.          *)
TypeOK ==
    /\ phase \in {"streaming", "finalizing", "resolved", "rejected", "crashed"}
    /\ produced \in Nat
    /\ flushed \in 0..produced
    /\ urlIndex \in 0..UrlCount
    /\ \A i \in DOMAIN parts :
        /\ parts[i].range.from \in Nat
        /\ parts[i].range.to \in Nat
        /\ parts[i].last \in BOOLEAN
        /\ parts[i].status \in Statuses
        /\ parts[i].url \in Nat
        /\ parts[i].tries \in 0..(MAX_ATTEMPTS - 1)

(* The parts are the stream cut in order without gap or overlap, and every *)
(* part but the last is exactly one chunk, as pre-signed URLs and S3 need. *)
PartsTileTheStream ==
    /\ \A i \in DOMAIN parts :
        /\ parts[i].range.from =
             IF i = 1 THEN 1 ELSE parts[i - 1].range.to + 1
        /\ ~parts[i].last => Size(parts[i].range) = uploadChunkSize
        /\ parts[i].last => i = Len(parts) /\ phase # "streaming"
    /\ flushed = IF parts = <<>> THEN 0 ELSE parts[Len(parts)].range.to

(* A part is PUT to the URL of its own number, although pre-signed URLs    *)
(* are handed out by a counter and parts run concurrently.                 *)
UrlMatchesPart ==
    \A i \in DOMAIN parts : parts[i].url # 0 => parts[i].url = i

(* When execute() resolves, S3 holds the whole stream: part by part what   *)
(* the eTags say, in order, up to the last byte the compressor emitted.    *)
ResolvedIsComplete ==
    phase = "resolved" =>
        /\ DOMAIN eTags = DOMAIN stored
        /\ \A i \in DOMAIN eTags : eTags[i] = stored[i]
        /\ eTags # <<>>
        /\ eTags[Len(eTags)].to = produced

(* The upload always comes to an end, whatever part fails: no part waits   *)
(* for a slot that is never freed, and no promise is left unsettled.       *)
Terminates == <>(phase \notin {"streaming", "finalizing"})

=============================================================================
