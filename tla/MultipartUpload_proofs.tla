------------------------ MODULE MultipartUpload_proofs ------------------------
(***************************************************************************)
(* What MultipartUpload guarantees for every chunk size, every number of   *)
(* pre-signed URLs, slots and attempts, and streams of any length.         *)
(***************************************************************************)
EXTENDS MultipartUpload, TLAPS, SequenceTheorems

Phases  == {"streaming", "finalizing", "resolved", "rejected", "crashed"}
Ranges  == [from : Nat, to : Nat]
PartRec == [range : Ranges, last : BOOLEAN, status : Statuses, url : Nat,
            tries : 0..(MAX_ATTEMPTS - 1)]

\* The types of TypeOK, with the parts as a sequence.
TypeInv ==
    /\ phase \in Phases
    /\ produced \in Nat /\ flushed \in 0..produced
    /\ parts \in Seq(PartRec)
    /\ urlIndex \in 0..UrlCount

\* Parts start in order, and the counter has passed exactly those of the
\* started full-size parts that there are pre-signed URLs for.
UrlInv ==
    /\ urlIndex <= Len(parts)
    /\ \A i \in 1..urlIndex : parts[i].status # "waiting"
    /\ \A i \in DOMAIN parts :
         parts[i].status # "waiting" /\ ~parts[i].last /\ i <= UrlCount =>
           i <= urlIndex

\* A part is put under its own number, and what S3 holds are parts.
StoredInv ==
    /\ \A i \in DOMAIN parts :
         /\ parts[i].status = "putting" => parts[i].url = i
         /\ parts[i].status = "done" => i \in DOMAIN stored
    /\ \A j \in DOMAIN stored : j \in DOMAIN parts /\ stored[j] = parts[j].range

\* Once the stream has ended everything is cut, and the result is taken from
\* parts that are all uploaded.
EndInv ==
    /\ phase \in {"finalizing", "resolved"} => parts # <<>> /\ flushed = produced
    /\ phase = "resolved" =>
         /\ AllUploaded
         /\ eTags = [i \in DOMAIN parts |-> parts[i].range]

Inv == TypeInv /\ PartsTileTheStream /\ UrlInv /\ UrlMatchesPart /\ StoredInv
         /\ EndInv

-----------------------------------------------------------------------------
\* A step of part i changes nothing of the other parts, nor its interval.
LEMMA PartStepShape ==
    ASSUME TypeInv, NEW i \in DOMAIN parts, PartStep(i)
    PROVE  /\ parts' \in Seq(PartRec) /\ Len(parts') = Len(parts)
           /\ DOMAIN parts' = DOMAIN parts
           /\ \A j \in DOMAIN parts : j # i => parts'[j] = parts[j]
           /\ parts'[i].range = parts[i].range /\ parts'[i].last = parts[i].last
           /\ parts'[i].status # "waiting"
           /\ urlIndex' \in 0..UrlCount
           /\ UNCHANGED <<phase, produced, flushed, eTags>>
<1> USE ConstantsAssumption
<1>1. /\ parts[i] \in PartRec /\ parts \in Seq(PartRec)
      /\ DOMAIN parts = 1..Len(parts) /\ Len(parts) \in Nat
      /\ urlIndex \in 0..UrlCount
  BY DEF TypeInv
<1>0. /\ parts[i].url \in Nat /\ parts[i].tries \in 0..(MAX_ATTEMPTS - 1)
      /\ parts[i].status \in Statuses /\ i \in Nat
  BY <1>1 DEF PartRec
<1> DEFINE Upd(st, u, t) == [parts[i] EXCEPT !.status = st, !.url = u, !.tries = t]
<1>2. ASSUME NEW st \in Statuses, NEW u \in Nat,
             NEW t \in 0..(MAX_ATTEMPTS - 1), st # "waiting",
             parts' = [parts EXCEPT ![i] = Upd(st, u, t)],
             urlIndex' \in 0..UrlCount,
             UNCHANGED <<phase, produced, flushed, eTags>>
      PROVE  /\ parts' \in Seq(PartRec) /\ Len(parts') = Len(parts)
             /\ DOMAIN parts' = DOMAIN parts
             /\ \A j \in DOMAIN parts : j # i => parts'[j] = parts[j]
             /\ parts'[i].range = parts[i].range
             /\ parts'[i].last = parts[i].last
             /\ parts'[i].status # "waiting"
             /\ urlIndex' \in 0..UrlCount
             /\ UNCHANGED <<phase, produced, flushed, eTags>>
  <2>1. /\ Upd(st, u, t) \in PartRec
        /\ Upd(st, u, t).range = parts[i].range
        /\ Upd(st, u, t).last = parts[i].last
        /\ Upd(st, u, t).status = st
    BY <1>1, <1>2 DEF PartRec
  <2> HIDE DEF Upd
  <2>2. QED
    BY <1>1, <1>2, <2>1
<1>3. CASE StartPart(i)
  <2>1. CASE CanUsePreSignedUrl(parts[i])
    <3>0. /\ urlIndex' = urlIndex + 1 /\ urlIndex < UrlCount
          /\ urlIndex' \in 0..UrlCount /\ urlIndex + 1 \in Nat
          /\ UNCHANGED <<phase, produced, flushed, eTags>>
      BY <1>1, <1>3, <2>1 DEF StartPart, CanUsePreSignedUrl, AfterUrl
    <3>1. parts' = [parts EXCEPT ![i] = Upd("putting", urlIndex + 1, parts[i].tries)]
      BY <1>1, <1>0, <1>3, <2>1 DEF StartPart, PartRec
    <3>2. QED
      BY <1>1, <1>2, <1>0, <3>0, <3>1 DEF Statuses
  <2>2. CASE ~CanUsePreSignedUrl(parts[i])
    <3>1. /\ parts' = [parts EXCEPT ![i] = Upd("signing", parts[i].url, parts[i].tries)]
          /\ urlIndex' \in 0..UrlCount
          /\ UNCHANGED <<phase, produced, flushed, eTags>>
      BY <1>1, <1>0, <1>3, <2>2 DEF StartPart, PartRec
    <3>2. QED
      BY <1>1, <1>2, <1>0, <3>1 DEF Statuses
  <2>3. QED
    BY <2>1, <2>2
<1>4. CASE UrlArrives(i)
  <2>1. /\ \/ parts' = [parts EXCEPT ![i] = Upd("putting", i, parts[i].tries)]
           \/ parts' = [parts EXCEPT ![i] = Upd("failed", parts[i].url, parts[i].tries)]
        /\ urlIndex' \in 0..UrlCount
        /\ UNCHANGED <<phase, produced, flushed, eTags>>
    <3>1. \/ parts' = [parts EXCEPT ![i].status = "putting", ![i].url = i]
          \/ parts' = [parts EXCEPT ![i].status = "failed"]
      BY <1>4 DEF UrlArrives
    <3>2. /\ [parts EXCEPT ![i].status = "putting", ![i].url = i]
               = [parts EXCEPT ![i] = Upd("putting", i, parts[i].tries)]
          /\ [parts EXCEPT ![i].status = "failed"]
               = [parts EXCEPT ![i] = Upd("failed", parts[i].url, parts[i].tries)]
      BY <1>1, <1>0 DEF PartRec
    <3>3. urlIndex' \in 0..UrlCount /\ UNCHANGED <<phase, produced, flushed, eTags>>
      BY <1>1, <1>4 DEF UrlArrives
    <3>4. QED
      BY <3>1, <3>2, <3>3
  <2>2. QED
    BY <1>1, <1>2, <1>0, <2>1 DEF Statuses
<1>5. CASE PutSucceeds(i)
  <2>1. /\ parts' = [parts EXCEPT ![i] = Upd("done", parts[i].url, parts[i].tries)]
        /\ urlIndex' \in 0..UrlCount
        /\ UNCHANGED <<phase, produced, flushed, eTags>>
    BY <1>1, <1>0, <1>5 DEF PutSucceeds, PartRec
  <2>2. QED
    BY <1>1, <1>2, <1>0, <2>1 DEF Statuses
<1>6. CASE PutFails(i)
  <2>1. /\ \/ /\ parts[i].tries + 1 \in 0..(MAX_ATTEMPTS - 1)
              /\ parts' = [parts EXCEPT ![i] =
                             Upd("putting", parts[i].url, parts[i].tries + 1)]
           \/ parts' = [parts EXCEPT ![i] = Upd("failed", parts[i].url, parts[i].tries)]
        /\ urlIndex' \in 0..UrlCount
        /\ UNCHANGED <<phase, produced, flushed, eTags>>
    <3>1. MayRetry(parts[i]) => parts[i].tries + 1 \in 0..(MAX_ATTEMPTS - 1)
      BY <1>0 DEF MayRetry
    <3>2. \/ /\ MayRetry(parts[i])
             /\ parts' = [parts EXCEPT ![i] =
                            Upd("putting", parts[i].url, parts[i].tries + 1)]
          \/ parts' = [parts EXCEPT ![i] = Upd("failed", parts[i].url, parts[i].tries)]
      <4>1. parts[i].status = "putting"
        BY <1>6 DEF PutFails
      <4>2. CASE parts' = [parts EXCEPT ![i].tries = @ + 1] /\ MayRetry(parts[i])
        BY <1>1, <1>0, <4>1, <4>2 DEF PartRec
      <4>3. CASE parts' = [parts EXCEPT ![i].status = "failed"]
        BY <1>1, <1>0, <4>3 DEF PartRec
      <4>4. QED
        BY <1>6, <4>2, <4>3 DEF PutFails
    <3>3. QED
      BY <1>1, <1>6, <3>1, <3>2 DEF PutFails
  <2>2. QED
    BY <1>1, <1>2, <1>0, <2>1 DEF Statuses
<1>7. QED
  BY <1>3, <1>4, <1>5, <1>6 DEF PartStep

\* addChunk and flush: no part is cut, or one that begins where the last one
\* ended; a full-size one, unless it is the last.
LEMMA CutShape ==
    ASSUME TypeInv, NEW n \in 1..MaxData, NEW isLast \in BOOLEAN,
           AddAndFlush(n, isLast)
    PROVE  /\ produced' = produced + n /\ produced' \in Nat
           /\ flushed' \in 0..produced'
           /\ \/ ~isLast /\ UNCHANGED <<parts, flushed>>
              \/ /\ parts' = Append(parts, Part(Interval(flushed + 1, flushed'),
                                                isLast))
                 /\ flushed' > flushed
                 /\ isLast => flushed' = produced'
                 /\ ~isLast => flushed' = flushed + uploadChunkSize
<1> USE ConstantsAssumption DEF TypeInv
<1> DEFINE total == produced + n
<1>1. total \in Nat /\ total > flushed /\ produced' = total
  BY DEF AddAndFlush
<1>2. CASE isLast
  <2>1. PartEnd(isLast, total) = total
    BY <1>2 DEF PartEnd
  <2>2. /\ flushed' = total
        /\ parts' = Append(parts, Part(Interval(flushed + 1, total), isLast))
    BY <1>1, <1>2, <2>1 DEF AddAndFlush
  <2>3. QED
    BY <1>1, <1>2, <2>2
<1>3. CASE ~isLast /\ total - flushed >= uploadChunkSize
  <2>1. PartEnd(isLast, total) = flushed + uploadChunkSize
    BY <1>1, <1>3 DEF PartEnd
  <2>2. QED
    BY <1>1, <1>3, <2>1 DEF AddAndFlush
<1>4. CASE ~isLast /\ ~(total - flushed >= uploadChunkSize)
  BY <1>1, <1>4 DEF AddAndFlush
<1>5. QED
  BY <1>2, <1>3, <1>4

\* What an appended part looks like from outside.
LEMMA Appended ==
    ASSUME TypeInv, NEW isLast \in BOOLEAN, NEW end \in Nat,
           parts' = Append(parts, Part(Interval(flushed + 1, end), isLast))
    PROVE  /\ parts' \in Seq(PartRec) /\ Len(parts') = Len(parts) + 1
           /\ DOMAIN parts = 1..Len(parts) /\ DOMAIN parts' = 1..(Len(parts) + 1)
           /\ \A j \in DOMAIN parts : parts'[j] = parts[j]
           /\ parts'[Len(parts) + 1] = Part(Interval(flushed + 1, end), isLast)
<1>1. Part(Interval(flushed + 1, end), isLast) \in PartRec
  BY ConstantsAssumption DEF TypeInv, Part, Interval, PartRec, Ranges, Statuses
<1>2. QED
  BY <1>1 DEF TypeInv

-----------------------------------------------------------------------------
LEMMA InitInv == Init => Inv
<1> SUFFICES ASSUME Init PROVE Inv
  OBVIOUS
<1> USE ConstantsAssumption DEF Init
<1>1. parts = <<>> /\ parts \in Seq(PartRec) /\ Len(parts) = 0 /\ DOMAIN parts = {}
  OBVIOUS
<1>2. TypeInv
  BY <1>1 DEF TypeInv, Phases
<1>3. PartsTileTheStream /\ UrlInv /\ UrlMatchesPart /\ StoredInv /\ EndInv
  BY <1>1 DEF PartsTileTheStream, UrlInv, UrlMatchesPart, StoredInv, EndInv
<1>4. QED
  BY <1>2, <1>3 DEF Inv

\* The heart of it: a part that is given a pre-signed URL is the one whose
\* number the counter has reached, as those before it have started, are full
\* size, and have taken one each.
LEMMA CounterIsPart ==
    ASSUME Inv, NEW i \in DOMAIN parts, parts[i].status = "waiting",
           NextInLine(i), urlIndex < UrlCount
    PROVE  urlIndex + 1 = i
<1> USE ConstantsAssumption
<1>1. /\ DOMAIN parts = 1..Len(parts) /\ Len(parts) \in Nat
      /\ urlIndex \in Nat /\ UrlCount \in Nat
  BY DEF Inv, TypeInv
<1>2. urlIndex < i
  BY <1>1 DEF Inv, UrlInv
<1>3. \A j \in 1..(i - 1) : j <= UrlCount => j <= urlIndex
  <2>1. TAKE j \in 1..(i - 1)
  <2>2. j \in DOMAIN parts /\ j # Len(parts)
    <3>1. i \in 1..Len(parts)
      BY <1>1
    <3>2. j \in Nat /\ 1 <= j /\ j < i /\ i \in Nat /\ i <= Len(parts)
      BY <1>1, <3>1
    <3>0. \A a, b, c \in Nat : 1 <= a /\ a < b /\ b <= c => a \in 1..c /\ a # c
      OBVIOUS
    <3>3. j \in 1..Len(parts) /\ j # Len(parts)
      BY <1>1, <3>0, <3>2
    <3>4. QED
      BY <1>1, <3>3, Zenon
  <2>3. ~parts[j].last
    BY <2>2 DEF Inv, PartsTileTheStream
  <2>4. parts[j].status # "waiting"
    BY DEF NextInLine
  <2>5. QED
    BY <2>2, <2>3, <2>4 DEF Inv, UrlInv
<1>4. CASE i = 1
  BY <1>1, <1>2, <1>4
<1>5. CASE i > 1 /\ i - 1 <= UrlCount
  BY <1>1, <1>2, <1>3, <1>5
<1>6. CASE i > 1 /\ i - 1 > UrlCount
  BY <1>1, <1>2, <1>3, <1>6
<1>7. QED
  BY <1>1, <1>4, <1>5, <1>6

\* A step of one part keeps the invariant.
LEMMA PartStepInv ==
    ASSUME Inv, NEW i \in DOMAIN parts, PartStep(i)
    PROVE  Inv'
<1> USE ConstantsAssumption
<1>1. TypeInv
  BY DEF Inv
<1>2. /\ DOMAIN parts = 1..Len(parts) /\ Len(parts) \in Nat
      /\ urlIndex \in Nat /\ UrlCount \in Nat /\ parts[i] \in PartRec
  BY <1>1 DEF TypeInv
<1>3. /\ parts' \in Seq(PartRec) /\ Len(parts') = Len(parts)
      /\ DOMAIN parts' = DOMAIN parts
      /\ \A j \in DOMAIN parts : j # i => parts'[j] = parts[j]
      /\ parts'[i].range = parts[i].range /\ parts'[i].last = parts[i].last
      /\ parts'[i].status # "waiting"
      /\ urlIndex' \in 0..UrlCount
      /\ UNCHANGED <<phase, produced, flushed, eTags>>
  BY <1>1, PartStepShape
<1>4. \A j \in DOMAIN parts : /\ parts'[j].range = parts[j].range
                              /\ parts'[j].last = parts[j].last
  BY <1>3
<1>5. TypeInv'
  BY <1>1, <1>3 DEF TypeInv
<1>6. PartsTileTheStream'
  <2>1. /\ (parts' = <<>>) <=> (parts = <<>>)
        /\ parts # <<>> => Len(parts) \in DOMAIN parts
    BY <1>1, <1>2, <1>3 DEF TypeInv
  <2>2. \A j \in DOMAIN parts : j # 1 => j - 1 \in DOMAIN parts
    BY <1>2
  <2>3. \A j \in DOMAIN parts' :
          /\ parts'[j].range.from =
               IF j = 1 THEN 1 ELSE parts'[j - 1].range.to + 1
          /\ ~parts'[j].last => Size(parts'[j].range) = uploadChunkSize
          /\ parts'[j].last => j = Len(parts') /\ phase' # "streaming"
    <3>1. SUFFICES ASSUME NEW j \in DOMAIN parts
                   PROVE  /\ parts[j].range.from =
                               IF j = 1 THEN 1 ELSE parts'[j - 1].range.to + 1
                          /\ ~parts[j].last => Size(parts[j].range) = uploadChunkSize
                          /\ parts[j].last => j = Len(parts) /\ phase # "streaming"
      BY <1>3, <1>4
    <3>2. j # 1 => parts'[j - 1].range.to = parts[j - 1].range.to
      BY <1>4, <2>2
    <3>3. QED
      BY <3>2 DEF Inv, PartsTileTheStream
  <2>4. flushed' = IF parts' = <<>> THEN 0 ELSE parts'[Len(parts')].range.to
    BY <1>3, <1>4, <2>1 DEF Inv, PartsTileTheStream
  <2>5. QED
    BY <2>3, <2>4 DEF PartsTileTheStream
\* What the step did to part i, its URL, the counter and S3.
<1>7. \/ /\ parts[i].status = "waiting" /\ NextInLine(i)
         /\ CanUsePreSignedUrl(parts[i])
         /\ parts'[i].url = urlIndex + 1 /\ parts'[i].status = "putting"
         /\ urlIndex' = urlIndex + 1 /\ UNCHANGED stored
      \/ /\ parts[i].status = "waiting" /\ ~CanUsePreSignedUrl(parts[i])
         /\ parts'[i].url = parts[i].url /\ parts'[i].status = "signing"
         /\ UNCHANGED <<urlIndex, stored>>
      \/ /\ parts[i].status = "signing" /\ parts'[i].url = i
         /\ parts'[i].status = "putting" /\ UNCHANGED <<urlIndex, stored>>
      \/ /\ parts[i].status \in {"signing", "putting"}
         /\ parts'[i].url = parts[i].url
         /\ parts'[i].status = "failed" /\ UNCHANGED urlIndex
         /\ \/ UNCHANGED stored
            \/ parts[i].status = "putting" /\ stored' = Put(i)
      \/ /\ parts[i].status = "putting" /\ parts'[i].url = parts[i].url
         /\ parts'[i].status \in {"putting", "failed"}
         /\ UNCHANGED urlIndex /\ stored' \in {stored, Put(i)}
      \/ /\ parts[i].status = "putting" /\ parts'[i].url = parts[i].url
         /\ parts'[i].status = "done" /\ stored' = Put(i) /\ UNCHANGED urlIndex
  <2>1. CASE StartPart(i)
    BY <1>2, <2>1, SMTT(20) DEF StartPart, AfterUrl, PartRec, TypeInv
  <2>2. CASE UrlArrives(i)
    BY <1>2, <2>2, SMTT(20) DEF UrlArrives, PartRec
  <2>3. CASE PutSucceeds(i)
    BY <1>2, <2>3 DEF PutSucceeds, PartRec
  <2>4. CASE PutFails(i)
    BY <1>2, <2>4 DEF PutFails, PartRec
  <2>5. QED
    BY <2>1, <2>2, <2>3, <2>4 DEF PartStep
<1>8. parts'[i].url # 0 => parts'[i].url = i
  BY <1>2, <1>7, CounterIsPart DEF CanUsePreSignedUrl, Inv, UrlMatchesPart
<1>9. UrlMatchesPart'
  BY <1>3, <1>8 DEF Inv, UrlMatchesPart
<1>10. UrlInv'
  <2>1. CASE parts[i].status = "waiting" /\ urlIndex' = urlIndex + 1
    <3>1. urlIndex' = i
      BY <1>2, <1>7, <2>1, CounterIsPart DEF CanUsePreSignedUrl
    <3>2. QED
      BY <1>2, <1>3, <2>1, <3>1 DEF Inv, UrlInv
  <2>2. CASE parts[i].status = "waiting" /\ urlIndex' # urlIndex + 1
    <3>1. ~CanUsePreSignedUrl(parts[i]) /\ urlIndex' = urlIndex
      BY <1>7, <2>2
    <3>2. ~parts[i].last => urlIndex >= UrlCount
      BY <1>2, <3>1 DEF CanUsePreSignedUrl, Inv, PartsTileTheStream
    <3>3. QED
      BY <1>2, <1>3, <3>1, <3>2 DEF Inv, UrlInv
  <2>3. CASE parts[i].status # "waiting"
    <3>1. urlIndex' = urlIndex
      BY <1>7, <2>3
    <3>2. QED
      BY <1>2, <1>3, <2>3, <3>1 DEF Inv, UrlInv
  <2>4. QED
    BY <2>1, <2>2, <2>3
<1>11. StoredInv'
  <2>1. parts[i].status = "putting" => parts[i].url = i
    BY DEF Inv, StoredInv
  <2>2. \/ UNCHANGED stored
        \/ stored' = [j \in DOMAIN stored \cup {i} |->
                       IF j = i THEN parts[i].range ELSE stored[j]]
    BY <1>7, <2>1 DEF Put
  <2>3. \A j \in DOMAIN stored' : /\ j \in DOMAIN parts'
                                  /\ stored'[j] = parts'[j].range
    <3>1. \A j \in DOMAIN stored : j \in DOMAIN parts /\ stored[j] = parts[j].range
      BY DEF Inv, StoredInv
    <3>2. CASE UNCHANGED stored
      BY <1>3, <1>4, <3>1, <3>2
    <3>3. CASE stored' = [j \in DOMAIN stored \cup {i} |->
                           IF j = i THEN parts[i].range ELSE stored[j]]
      BY <1>3, <1>4, <3>1, <3>3
    <3>4. QED
      BY <2>2, <3>2, <3>3
  <2>4. parts'[i].status = "putting" => parts'[i].url = i
    BY <1>7, <1>8, <2>1, CounterIsPart DEF CanUsePreSignedUrl
  <2>5. parts'[i].status = "done" => i \in DOMAIN stored'
    BY <1>7, <2>1, <2>2 DEF Put
  <2>6. DOMAIN stored \subseteq DOMAIN stored'
    BY <2>2
  <2>7. QED
    BY <1>3, <2>3, <2>4, <2>5, <2>6 DEF Inv, StoredInv
<1>12. EndInv'
  <2>1. phase # "resolved"
    BY <1>7 DEF Inv, EndInv, AllUploaded
  <2>2. parts' # <<>>
    BY <1>3
  <2>3. QED
    BY <1>3, <2>1, <2>2 DEF Inv, EndInv
<1>13. QED
  BY <1>5, <1>6, <1>9, <1>10, <1>11, <1>12 DEF Inv

\* So does addChunk, with or without a final flush.
LEMMA CutInv ==
    ASSUME Inv, NEW n \in 1..MaxData, NEW isLast \in BOOLEAN,
           AddAndFlush(n, isLast), phase = "streaming",
           phase' = IF isLast THEN "finalizing" ELSE "streaming",
           UNCHANGED <<urlIndex, stored, eTags>>
    PROVE  Inv'
<1> USE ConstantsAssumption
<1>1. /\ DOMAIN parts = 1..Len(parts) /\ Len(parts) \in Nat
      /\ urlIndex \in Nat /\ UrlCount \in Nat /\ TypeInv
      /\ produced \in Nat /\ flushed \in Nat /\ parts \in Seq(PartRec)
  BY DEF Inv, TypeInv
<1>2. /\ produced' = produced + n /\ produced' \in Nat
      /\ flushed' \in 0..produced'
      /\ \/ ~isLast /\ UNCHANGED <<parts, flushed>>
         \/ /\ parts' = Append(parts, Part(Interval(flushed + 1, flushed'),
                                           isLast))
            /\ flushed' > flushed
            /\ isLast => flushed' = produced'
            /\ ~isLast => flushed' = flushed + uploadChunkSize
  BY <1>1, CutShape
<1>3. phase # "resolved" /\ phase' # "resolved" /\ phase' \in Phases
  BY DEF Phases
<1>4. CASE ~isLast /\ UNCHANGED <<parts, flushed>>
  <2>1. TypeInv'
    BY <1>1, <1>2, <1>3, <1>4 DEF TypeInv
  <2>2. PartsTileTheStream'
    BY <1>4 DEF Inv, PartsTileTheStream
  <2>3. UrlInv' /\ UrlMatchesPart' /\ StoredInv'
    BY <1>4 DEF Inv, UrlInv, UrlMatchesPart, StoredInv
  <2>4. EndInv'
    BY <1>4 DEF EndInv
  <2>5. QED
    BY <2>1, <2>2, <2>3, <2>4 DEF Inv
<1>5. CASE /\ parts' = Append(parts, Part(Interval(flushed + 1, flushed'), isLast))
           /\ flushed' > flushed
           /\ isLast => flushed' = produced'
           /\ ~isLast => flushed' = flushed + uploadChunkSize
  <2> DEFINE new == Part(Interval(flushed + 1, flushed'), isLast)
  <2>1. flushed' \in Nat
    BY <1>2
  <2>2. /\ parts' \in Seq(PartRec) /\ Len(parts') = Len(parts) + 1
        /\ DOMAIN parts' = 1..(Len(parts) + 1)
        /\ \A j \in DOMAIN parts : parts'[j] = parts[j]
        /\ parts'[Len(parts) + 1] = new
    BY <1>1, <1>5, <2>1, Appended
  <2>3. /\ new.range.from = flushed + 1 /\ new.range.to = flushed'
        /\ new.last = isLast /\ new.status = "waiting" /\ new.url = 0
    BY DEF Part, Interval
  <2> HIDE DEF new
  <2>4. TypeInv'
    BY <1>1, <1>2, <1>3, <2>2 DEF TypeInv
  <2>5. \A j \in DOMAIN parts : ~parts[j].last
    BY DEF Inv, PartsTileTheStream
  <2>6. parts' # <<>> /\ DOMAIN parts' = DOMAIN parts \cup {Len(parts) + 1}
    BY <1>1, <2>2
  <2>7. PartsTileTheStream'
    <3>1. ASSUME NEW j \in DOMAIN parts
          PROVE  /\ parts'[j].range.from =
                     IF j = 1 THEN 1 ELSE parts'[j - 1].range.to + 1
                 /\ ~parts'[j].last /\ Size(parts'[j].range) = uploadChunkSize
      <4>1. j = 1 \/ j - 1 \in DOMAIN parts
        BY <1>1
      <4>2. QED
        BY <2>2, <2>5, <4>1 DEF Inv, PartsTileTheStream
    <3>2. /\ new.range.from =
               IF Len(parts) + 1 = 1 THEN 1
               ELSE parts'[Len(parts)].range.to + 1
          /\ ~new.last => Size(new.range) = uploadChunkSize
      <4>1. CASE Len(parts) = 0
        BY <1>1, <1>5, <2>3, <4>1 DEF Inv, PartsTileTheStream, Size
      <4>2. CASE Len(parts) > 0
        <5>1. Len(parts) \in DOMAIN parts /\ parts # <<>>
          BY <1>1, <4>2
        <5>2. flushed = parts'[Len(parts)].range.to
          BY <2>2, <5>1 DEF Inv, PartsTileTheStream
        <5>3. ~new.last => Size(new.range) = uploadChunkSize
          BY <1>1, <1>5, <2>1, <2>3 DEF Size
        <5>4. new.range.from = parts'[Len(parts)].range.to + 1
          BY <2>3, <5>2
        <5>5. Len(parts) + 1 # 1
          BY <1>1, <4>2
        <5>6. QED
          BY <5>3, <5>4, <5>5
      <4>3. QED
        BY <1>1, <4>1, <4>2
    <3>3. flushed' = parts'[Len(parts')].range.to
      BY <2>2, <2>3
    <3>4. isLast => phase' # "streaming"
      OBVIOUS
    <3>5. QED
      BY <1>1, <2>2, <2>3, <2>6, <3>1, <3>2, <3>3, <3>4 DEF PartsTileTheStream
  <2>8. UrlInv' /\ UrlMatchesPart'
    <3>1. urlIndex <= Len(parts') /\ \A j \in 1..urlIndex : j \in DOMAIN parts
      BY <1>1, <2>2 DEF Inv, UrlInv
    <3>2. \A j \in 1..urlIndex : parts'[j].status # "waiting"
      BY <2>2, <3>1 DEF Inv, UrlInv
    <3>3. \A j \in DOMAIN parts' :
            parts'[j].status # "waiting" /\ ~parts'[j].last /\ j <= UrlCount =>
              j <= urlIndex
      BY <2>2, <2>3, <2>6 DEF Inv, UrlInv
    <3>4. QED
      BY <2>2, <2>3, <2>6, <3>1, <3>2, <3>3 DEF Inv, UrlInv, UrlMatchesPart
  <2>9. StoredInv'
    BY <1>1, <2>2, <2>3, <2>6 DEF Inv, StoredInv
  <2>10. EndInv'
    BY <1>3, <1>5, <2>6 DEF EndInv
  <2>11. QED
    BY <2>4, <2>7, <2>8, <2>9, <2>10 DEF Inv
<1>6. QED
  BY <1>2, <1>4, <1>5

\* Phases that end: only Finalize has something to show.
LEMMA PhaseInv ==
    ASSUME Inv, UNCHANGED <<produced, flushed, parts, urlIndex, stored>>,
           phase' \in Phases, phase' # "streaming",
           \/ phase' \in {"rejected", "crashed"}
           \/ Finalize
    PROVE  Inv'
<1>1. TypeInv' /\ PartsTileTheStream' /\ UrlInv' /\ UrlMatchesPart' /\ StoredInv'
  BY DEF Inv, TypeInv, PartsTileTheStream, UrlInv, UrlMatchesPart, StoredInv
<1>2. EndInv'
  BY DEF Inv, EndInv, Finalize, AllUploaded
<1>3. QED
  BY <1>1, <1>2 DEF Inv

LEMMA NextInv == Inv /\ [Next]_vars => Inv'
<1> SUFFICES ASSUME Inv, [Next]_vars PROVE Inv'
  OBVIOUS
<1>1. CASE Data
  BY <1>1, CutInv DEF Data
<1>2. CASE StreamEnds
  BY <1>2, CutInv DEF StreamEnds
<1>3. CASE \E i \in DOMAIN parts : PartStep(i)
  BY <1>3, PartStepInv
<1>4. CASE StreamFails
  BY <1>4, PhaseInv DEF StreamFails, Phases
<1>5. CASE Finalize
  BY <1>5, PhaseInv DEF Finalize, Phases
<1>6. CASE FinalizeFails
  BY <1>6, PhaseInv DEF FinalizeFails, Phases
<1>7. CASE UnhandledRejection
  BY <1>7, PhaseInv DEF UnhandledRejection, Phases
<1>8. CASE UNCHANGED vars
  BY <1>8 DEF vars, Inv, TypeInv, PartsTileTheStream, UrlInv, UrlMatchesPart,
              StoredInv, EndInv, AllUploaded
<1>9. QED
  BY <1>1, <1>2, <1>3, <1>4, <1>5, <1>6, <1>7, <1>8 DEF Next

\* The strengthened invariant holds of every behaviour.
THEOREM InvHolds == Spec => []Inv
<1>1. QED
  BY InitInv, NextInv, PTL DEF Spec

-----------------------------------------------------------------------------
\* The types are respected; no part is tried more often than MAX_ATTEMPTS.
THEOREM TypeCorrect == Spec => []TypeOK
<1>1. ASSUME Inv PROVE TypeOK
  <2>1. TypeInv
    BY <1>1 DEF Inv
  <2>2. \A i \in DOMAIN parts : parts[i] \in PartRec
    BY <2>1 DEF TypeInv
  <2>3. ASSUME NEW i \in DOMAIN parts
        PROVE  /\ parts[i].range.from \in Nat /\ parts[i].range.to \in Nat
               /\ parts[i].last \in BOOLEAN /\ parts[i].status \in Statuses
               /\ parts[i].url \in Nat
               /\ parts[i].tries \in 0..(MAX_ATTEMPTS - 1)
    BY <2>2 DEF PartRec, Ranges
  <2>4. QED
    BY <2>1, <2>3 DEF TypeInv, TypeOK, Phases
<1>2. QED
  BY <1>1, InvHolds, PTL

\* However the stream arrives, the parts cut from it are the stream, and S3 is
\* given full-size parts everywhere but at the end.
THEOREM PartsTile == Spec => []PartsTileTheStream
<1>1. Inv => PartsTileTheStream
  BY DEF Inv
<1>2. QED
  BY <1>1, InvHolds, PTL

\* However many parts run at once, none is put under another part's number.
THEOREM UrlsMatch == Spec => []UrlMatchesPart
<1>1. Inv => UrlMatchesPart
  BY DEF Inv
<1>2. QED
  BY <1>1, InvHolds, PTL

\* A resolved upload is whole, whatever was retried on the way.
THEOREM ResolvedComplete == Spec => []ResolvedIsComplete
<1>1. Inv => ResolvedIsComplete
  <2> SUFFICES ASSUME Inv, phase = "resolved" PROVE ResolvedIsComplete
    BY DEF ResolvedIsComplete
  <2>1. /\ DOMAIN parts = 1..Len(parts) /\ Len(parts) \in Nat /\ parts # <<>>
        /\ Len(parts) > 0
    BY DEF Inv, TypeInv, EndInv
  <2>2. DOMAIN eTags = DOMAIN parts
        /\ \A i \in DOMAIN parts : eTags[i] = parts[i].range
    BY DEF Inv, EndInv
  <2>3. DOMAIN stored = DOMAIN parts
        /\ \A i \in DOMAIN parts : stored[i] = parts[i].range
    BY DEF Inv, StoredInv, EndInv, AllUploaded
  <2>4. Len(eTags) = Len(parts) /\ eTags # <<>>
    BY <2>1, <2>2
  <2>5. eTags[Len(eTags)].to = produced
    BY <2>1, <2>2, <2>4 DEF Inv, EndInv, PartsTileTheStream
  <2>6. QED
    BY <2>2, <2>3, <2>4, <2>5 DEF ResolvedIsComplete
<1>2. QED
  BY <1>1, InvHolds, PTL

=============================================================================
