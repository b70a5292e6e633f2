------------------------- MODULE CaptureBuffer_proofs -------------------------
(***************************************************************************)
(* What CaptureBuffer guarantees for any number of jobs and events, any    *)
(* buffer limit and any number of drain rounds.                            *)
(***************************************************************************)
EXTENDS CaptureBuffer, TLAPS, SequenceTheorems, WellFoundedInduction

\* The argument of capture-buffer.ts, on MAX_DRAIN_ROUNDS: fewer jobs begin
\* after the handler returned than there are rounds to wait for them.
FewLate == MaxLate < MAX_DRAIN_ROUNDS

BatchStatuses == {"queued", "posting", "settled"}
BatchRec == [events : SUBSET Nat, after : Nat, single : BOOLEAN,
             status : BatchStatuses]

Flushed(b) == b \in DOMAIN batches /\ ~batches[b].single

\* The flushes form one chain whose end is sending; whatever is sent alone,
\* outside the chain, is held.
Linked(b) ==
    /\ batches[b].events \subseteq 1..added
    /\ batches[b].after \in 0..(b - 1)
    /\ ~batches[b].single =>
         /\ b <= sending
         /\ batches[b].after # 0 => Flushed(batches[b].after)
         /\ \A c \in 1..(b - 1) : Flushed(c) => c <= batches[b].after
    /\ batches[b].single => <<"batch", b>> \in held

ChainInv ==
    /\ batches \in Seq(BatchRec)
    /\ sending \in 0..Len(batches)
    /\ sending # 0 => Flushed(sending)
    /\ \A b \in DOMAIN batches : Linked(b)
    /\ FlushesInOrder

\* The buffer; nothing is left in it once it is closed.
BufferInv ==
    /\ added \in Nat
    /\ events \subseteq 1..added
    /\ chars \in 0..(MAX_BUFFERED_CHARS - 1)
    /\ closed => events = {}

\* Every drain round but the first was caused by a job that began after the
\* handler returned, so few of those leave nobody unattended at the end.
RoundInv ==
    /\ job \in [Producers -> {"new", "pending", "settled"}]
    /\ awaited \subseteq Producers
    /\ \A p \in awaited : job[p] # "new"
    /\ round \in 0..MAX_DRAIN_ROUNDS
    /\ late \in 0..MaxLate
    /\ phase = "draining" =>
         /\ round <= late + 1
         /\ Pending \ awaited # {} => round <= late
    /\ closed /\ FewLate => \A p \in Pending : <<"job", p>> \in held

\* close() hands on the end of the chain, and the request ends after it.
EndInv ==
    /\ phase \in {"open", "draining", "flushing", "done"}
    /\ alive \in BOOLEAN /\ closed \in BOOLEAN
    /\ closed <=> phase \in {"flushing", "done"}
    /\ last \in 0..Len(batches)
    /\ closed => last = sending
    /\ phase = "done" => Settled(last)
    /\ ~alive => phase = "done" /\ HeldSettled

Inv == ChainInv /\ BufferInv /\ RoundInv /\ EndInv

-----------------------------------------------------------------------------
\* The four things a step may do to the batches.
Same == UNCHANGED <<batches, sending>>

FlushedNow ==
    \E E \in SUBSET (1..added') :
        /\ batches' = Append(batches, Batch(E, sending, FALSE))
        /\ sending' = Len(batches) + 1

SentAlone ==
    /\ added' = added + 1
    /\ batches' = Append(batches, Batch({added'}, 0, TRUE))
    /\ sending' = sending
    /\ <<"batch", Len(batches) + 1>> \in held'

Moved(b) ==
    /\ sending' = sending
    /\ \/ /\ batches[b].status = "queued" /\ Settled(batches[b].after)
          /\ batches' = [batches EXCEPT ![b].status = "posting"]
       \/ /\ batches[b].status = "posting"
          /\ batches' = [batches EXCEPT ![b].status = "settled"]

BatchStep ==
    \/ Same \/ FlushedNow \/ SentAlone
    \/ \E b \in DOMAIN batches : Moved(b)

\* What a move leaves of the others, and of the batch itself.
LEMMA MoveShape ==
    ASSUME batches \in Seq(BatchRec), NEW b \in DOMAIN batches, Moved(b)
    PROVE  /\ batches' \in Seq(BatchRec) /\ Len(batches') = Len(batches)
           /\ DOMAIN batches' = DOMAIN batches
           /\ \A c \in DOMAIN batches : c # b => batches'[c] = batches[c]
           /\ batches'[b].events = batches[b].events
           /\ batches'[b].after = batches[b].after
           /\ batches'[b].single = batches[b].single
           /\ \/ /\ batches[b].status = "queued" /\ Settled(batches[b].after)
                 /\ batches'[b].status = "posting"
              \/ /\ batches[b].status = "posting"
                 /\ batches'[b].status = "settled"
<1>1. batches[b] \in BatchRec
  OBVIOUS
<1>2. /\ [batches[b] EXCEPT !.status = "posting"] \in BatchRec
      /\ [batches[b] EXCEPT !.status = "settled"] \in BatchRec
  BY <1>1 DEF BatchRec, BatchStatuses
<1>3. CASE /\ batches[b].status = "queued" /\ Settled(batches[b].after)
           /\ batches' = [batches EXCEPT ![b].status = "posting"]
  <2>1. batches' = [batches EXCEPT ![b] = [batches[b] EXCEPT !.status = "posting"]]
    BY <1>3
  <2>2. /\ batches' \in Seq(BatchRec) /\ Len(batches') = Len(batches)
        /\ DOMAIN batches' = DOMAIN batches
        /\ \A c \in DOMAIN batches : c # b => batches'[c] = batches[c]
    BY <1>2, <2>1
  <2>3. QED
    BY <1>1, <1>3, <2>2 DEF BatchRec
<1>4. CASE /\ batches[b].status = "posting"
           /\ batches' = [batches EXCEPT ![b].status = "settled"]
  <2>1. batches' = [batches EXCEPT ![b] = [batches[b] EXCEPT !.status = "settled"]]
    BY <1>4
  <2>2. /\ batches' \in Seq(BatchRec) /\ Len(batches') = Len(batches)
        /\ DOMAIN batches' = DOMAIN batches
        /\ \A c \in DOMAIN batches : c # b => batches'[c] = batches[c]
    BY <1>2, <2>1
  <2>3. QED
    BY <1>1, <1>4, <2>2 DEF BatchRec
<1>5. QED
  BY <1>3, <1>4 DEF Moved

\* A settled batch stays settled.
LEMMA SettledStays ==
    ASSUME ChainInv, BatchStep, added \in Nat, added' \in Nat
    PROVE  /\ Len(batches') \in Nat /\ Len(batches) <= Len(batches')
           /\ DOMAIN batches \subseteq DOMAIN batches'
           /\ \A b \in DOMAIN batches :
                batches[b].status = "settled" => batches'[b].status = "settled"
<1>1. batches \in Seq(BatchRec) /\ sending \in Nat /\ Len(batches) \in Nat
  BY DEF ChainInv, Linked
<1>2. CASE Same
  BY <1>1, <1>2 DEF Same
<1>3. CASE FlushedNow
  <2>1. PICK E \in SUBSET (1..added') :
          batches' = Append(batches, Batch(E, sending, FALSE))
    BY <1>3 DEF FlushedNow
  <2>2. E \in SUBSET Nat
    OBVIOUS
  <2>3. Batch(E, sending, FALSE) \in BatchRec
    BY <1>1, <2>2 DEF Batch, BatchRec, BatchStatuses
  <2>4. QED
    BY <1>1, <2>1, <2>3 DEF Batch
<1>4. CASE SentAlone
  <2>1. batches' = Append(batches, Batch({added'}, 0, TRUE))
    BY <1>4 DEF SentAlone
  <2>2. Batch({added'}, 0, TRUE) \in BatchRec
    BY DEF Batch, BatchRec, BatchStatuses
  <2>3. QED
    BY <1>1, <2>1, <2>2 DEF Batch
<1>5. CASE \E b \in DOMAIN batches : Moved(b)
  BY <1>1, <1>5, MoveShape
<1>6. QED
  BY <1>2, <1>3, <1>4, <1>5 DEF BatchStep

\* Each of them keeps the chain.
LEMMA ChainStep ==
    ASSUME ChainInv, BatchStep, held \subseteq held',
           added \in Nat, added' \in Nat, added <= added'
    PROVE  ChainInv'
<1>1. /\ batches \in Seq(BatchRec) /\ sending \in Nat /\ Len(batches) \in Nat
      /\ DOMAIN batches = 1..Len(batches) /\ sending <= Len(batches)
  BY DEF ChainInv, Linked
<1>2. 1..added \subseteq 1..added'
  OBVIOUS
<1>3. CASE Same
  BY <1>2, <1>3 DEF Same, ChainInv, Linked, Flushed, FlushesInOrder
<1>4. CASE FlushedNow
  <2>1. PICK E \in SUBSET (1..added') :
          /\ batches' = Append(batches, Batch(E, sending, FALSE))
          /\ sending' = Len(batches) + 1
    BY <1>4 DEF FlushedNow
  <2>2. E \in SUBSET Nat
    OBVIOUS
  <2>0. PICK n \in Nat : n = Len(batches) + 1
    BY <1>1
  <2> DEFINE r == Batch(E, sending, FALSE)
  <2>a. /\ r \in BatchRec /\ r.events = E /\ r.after = sending
        /\ r.single = FALSE /\ r.status = "queued"
    BY <1>1, <2>2 DEF Batch, BatchRec, BatchStatuses
  <2> HIDE DEF r
  <2>3. /\ batches' \in Seq(BatchRec) /\ Len(batches') = n
        /\ DOMAIN batches' = DOMAIN batches \cup {n} /\ n \notin DOMAIN batches
        /\ \A b \in DOMAIN batches : batches'[b] = batches[b]
        /\ batches'[n].events = E /\ batches'[n].after = sending
        /\ batches'[n].single = FALSE /\ batches'[n].status = "queued"
        /\ n \in Nat /\ sending' = n /\ n > 0
    BY <1>1, <2>0, <2>1, <2>a DEF r, Batch
  <2>4. \A b \in DOMAIN batches : b < n /\ b \in Nat
    BY <1>1, <2>0
  <2>5. \A c : (Flushed(c))' <=> Flushed(c) \/ c = n
    BY <2>3 DEF Flushed
  <2>6. ASSUME NEW b \in DOMAIN batches
        PROVE  Linked(b)'
    <3>1. \A c \in 1..(b - 1) : c # n
      BY <2>3, <2>4
    <3>2. b <= n
      BY <2>3, <2>4
    <3>3. QED
      BY <1>2, <2>3, <2>5, <3>1, <3>2 DEF ChainInv, Linked
  <2>7. Linked(n)'
    <3>1. n - 1 = Len(batches)
      BY <1>1, <2>0
    <3>2. \A c \in 1..(n - 1) : c # n
      BY <2>3
    <3>3. \A c : Flushed(c) => c <= sending
      BY DEF ChainInv, Linked, Flushed
    <3>4. sending \in 0..(n - 1)
      BY <1>1, <3>1
    <3>5. sending # 0 => /\ sending \in DOMAIN batches'
                         /\ ~batches'[sending].single
      BY <2>3 DEF ChainInv, Flushed
    <3>6. \A c \in 1..(n - 1) : (Flushed(c))' => c <= sending
      BY <2>5, <3>2, <3>3
    <3>7. QED
      BY <2>3, <3>4, <3>5, <3>6 DEF Linked, Flushed
  <2>8. FlushesInOrder'
    BY <2>3, <2>4 DEF FlushesInOrder, ChainInv
  <2>9. sending' \in 0..Len(batches') /\ (Flushed(sending))'
    BY <2>3 DEF Flushed
  <2>10. QED
    BY <2>3, <2>6, <2>7, <2>8, <2>9 DEF ChainInv
<1>5. CASE SentAlone
  <2>1. /\ batches' = Append(batches, Batch({added'}, 0, TRUE))
        /\ added' = added + 1 /\ sending' = sending
        /\ <<"batch", Len(batches) + 1>> \in held'
    BY <1>5 DEF SentAlone
  <2>0. PICK n \in Nat : n = Len(batches) + 1
    BY <1>1
  <2> DEFINE r == Batch({added'}, 0, TRUE)
  <2>a. /\ r \in BatchRec /\ r.events = {added'} /\ r.after = 0
        /\ r.single = TRUE /\ r.status = "queued"
    BY DEF Batch, BatchRec, BatchStatuses
  <2> HIDE DEF r
  <2>3. /\ batches' \in Seq(BatchRec) /\ Len(batches') = n
        /\ DOMAIN batches' = DOMAIN batches \cup {n} /\ n \notin DOMAIN batches
        /\ \A b \in DOMAIN batches : batches'[b] = batches[b]
        /\ batches'[n].events = {added'} /\ batches'[n].after = 0
        /\ batches'[n].single = TRUE /\ batches'[n].status = "queued"
        /\ n \in Nat /\ n > 0 /\ <<"batch", n>> \in held'
    BY <1>1, <2>0, <2>1, <2>a DEF r, Batch
  <2>4. /\ {added'} \subseteq 1..added'
        /\ sending \in 0..n /\ 0 \in 0..(n - 1)
        /\ \A b \in DOMAIN batches : b # n
    BY <1>1, <2>0, <2>1
  <2>5. \A c : (Flushed(c))' <=> Flushed(c)
    BY <2>3 DEF Flushed
  <2>6. ASSUME NEW b \in DOMAIN batches
        PROVE  Linked(b)'
    BY <1>2, <2>1, <2>3, <2>5 DEF ChainInv, Linked
  <2>7. FlushesInOrder'
    BY <2>3 DEF ChainInv, Linked, FlushesInOrder
  <2>8. sending' \in 0..Len(batches') /\ (sending # 0 => Flushed(sending))'
    BY <2>1, <2>3, <2>4, <2>5 DEF ChainInv, Linked
  <2>9. Linked(n)'
    BY <2>3, <2>4 DEF Linked
  <2>10. QED
    BY <2>3, <2>6, <2>7, <2>8, <2>9 DEF ChainInv
<1>6. CASE \E b \in DOMAIN batches : Moved(b)
  <2>1. PICK b \in DOMAIN batches : Moved(b)
    BY <1>6
  <2>2. /\ batches' \in Seq(BatchRec) /\ Len(batches') = Len(batches)
        /\ DOMAIN batches' = DOMAIN batches
        /\ \A c \in DOMAIN batches : c # b => batches'[c] = batches[c]
        /\ batches'[b].events = batches[b].events
        /\ batches'[b].after = batches[b].after
        /\ batches'[b].single = batches[b].single
        /\ \/ /\ batches[b].status = "queued" /\ Settled(batches[b].after)
              /\ batches'[b].status = "posting"
           \/ /\ batches[b].status = "posting"
              /\ batches'[b].status = "settled"
    BY <1>1, <2>1, MoveShape
  <2>3. /\ \A c \in DOMAIN batches :
             /\ batches'[c].events = batches[c].events
             /\ batches'[c].after = batches[c].after
             /\ batches'[c].single = batches[c].single
        /\ \A c : (Flushed(c))' <=> Flushed(c)
        /\ sending' = sending
    BY <2>1, <2>2 DEF Flushed, Moved
  \* The batch that goes on the wire is behind one that has settled, and
  \* that one was behind all the others.
  <2>4. ASSUME NEW c \in DOMAIN batches, c < b, Flushed(b), Flushed(c)
        PROVE  batches[c].status = "settled"
    <3>0. c \in 1..(b - 1) /\ c \in Nat /\ b \in Nat /\ c > 0
      BY <1>1, <2>4
    <3>5. Linked(b) /\ ~batches[b].single
      BY <2>4 DEF ChainInv, Flushed
    <3>1. c <= batches[b].after /\ batches[b].after \in Nat
      BY <2>4, <3>0, <3>5 DEF Linked
    <3>2. CASE batches[b].status # "queued"
      BY <2>4, <3>2 DEF ChainInv, Linked, FlushesInOrder, Flushed
    <3>3. CASE batches[b].status = "queued"
      <4>1. batches[b].after # 0 /\ Flushed(batches[b].after)
        BY <3>0, <3>1, <3>5 DEF Linked
      <4>2. batches[batches[b].after].status = "settled"
        BY <2>2, <3>3, <4>1 DEF Settled
      <4>3. CASE c = batches[b].after
        BY <4>2, <4>3
      <4>4. CASE c < batches[b].after
        BY <2>4, <4>1, <4>2, <4>4 DEF ChainInv, Linked, FlushesInOrder, Flushed
      <4>5. QED
        BY <3>0, <3>1, <4>3, <4>4
    <3>4. QED
      BY <3>2, <3>3
  <2>5. FlushesInOrder'
    <3>1. SUFFICES ASSUME NEW c \in DOMAIN batches, NEW d \in DOMAIN batches,
                          c < d, ~batches[c].single, ~batches[d].single,
                          batches'[d].status # "queued"
                   PROVE  batches'[c].status = "settled"
      BY <2>2, <2>3 DEF FlushesInOrder
    <3>2. batches[c].status = "settled"
      <4>1. CASE d = b
        BY <2>4, <3>1, <4>1 DEF Flushed
      <4>2. CASE d # b
        BY <2>2, <3>1, <4>2 DEF ChainInv, Linked, FlushesInOrder
      <4>3. QED
        BY <4>1, <4>2
    <3>3. QED
      BY <2>2, <3>2
  <2>6. QED
    BY <1>2, <2>2, <2>3, <2>5 DEF ChainInv, Linked
<1>7. QED
  BY <1>3, <1>4, <1>5, <1>6 DEF BatchStep

-----------------------------------------------------------------------------
\* flush() chains the buffer behind the last batch, if there is anything.
LEMMA FlushShape ==
    ASSUME NEW E \in SUBSET (1..added'), Flush(E)
    PROVE  /\ events' = {} /\ chars' = 0
           /\ Same \/ FlushedNow
  BY DEF Flush, ChainedBehind, Same, FlushedNow

\* add() buffers, flushes, or, once closed, sends alone.
LEMMA AddShape ==
    ASSUME BufferInv, NEW size \in Sizes, Add(size)
    PROVE  /\ added' = added + 1 /\ held \subseteq held'
           /\ events' \subseteq 1..added' /\ chars' \in 0..(MAX_BUFFERED_CHARS - 1)
           /\ closed => SentAlone /\ events' = {}
           /\ ~closed => Same \/ FlushedNow
<1> USE ConstantsAssumption
<1>1. /\ added' = added + 1 /\ added \in Nat /\ chars \in Nat
      /\ MAX_BUFFERED_CHARS \in Nat \ {0}
      /\ events \cup {added + 1} \subseteq 1..added' /\ events \subseteq 1..added'
  BY DEF Add, BufferInv
<1>2. CASE closed
  BY <1>1, <1>2 DEF Add, NextHeld, SentAlone, BufferInv
<1>3. CASE ~closed /\ TooLarge(size)
  <2>1. Flush(events \cup {added + 1}) /\ held' = NextHeld
    BY <1>3 DEF Add
  <2>2. events' = {} /\ chars' = 0 /\ (Same \/ FlushedNow)
    BY <1>1, <2>1, FlushShape
  <2>3. QED
    BY <1>1, <1>3, <2>1, <2>2 DEF NextHeld
<1>4. CASE ~closed /\ ~TooLarge(size)
  <2>1. /\ events' = events \cup {added + 1} /\ chars' = chars + size
        /\ UNCHANGED <<batches, sending, held>>
    BY <1>4 DEF Add
  <2>2. size \in Nat /\ chars + size < MAX_BUFFERED_CHARS
    BY <1>1, <1>4 DEF TooLarge, Sizes
  <2>3. QED
    BY <1>1, <1>4, <2>1, <2>2 DEF Same
<1>5. QED
  BY <1>2, <1>3, <1>4

\* What close() knows stays true while batches are sent and settle.
LEMMA EndKept ==
    ASSUME ChainInv, ChainInv', EndInv, BatchStep, added \in Nat, added' \in Nat,
           alive, closed => sending' = sending,
           UNCHANGED <<closed, phase, last, alive>>
    PROVE  EndInv'
<1>1. /\ Len(batches) \in Nat /\ Len(batches') \in Nat
      /\ Len(batches) <= Len(batches') /\ DOMAIN batches = 1..Len(batches)
      /\ \A b \in DOMAIN batches :
           batches[b].status = "settled" => batches'[b].status = "settled"
  BY SettledStays DEF ChainInv
<1>2. last' \in 0..Len(batches')
  BY <1>1 DEF EndInv
<1>3. last # 0 => last \in DOMAIN batches
  BY <1>1 DEF EndInv
<1>4. (phase = "done" => Settled(last))'
  BY <1>1, <1>3 DEF EndInv, Settled
<1>5. QED
  BY <1>2, <1>4 DEF EndInv

\* Jobs that only settle, or do nothing, keep what the rounds count.
LEMMA RoundKept ==
    ASSUME RoundInv, held \subseteq held',
           UNCHANGED <<closed, phase, round, awaited, late>>,
           \/ UNCHANGED job
           \/ \E p \in Producers : job' = [job EXCEPT ![p] = "settled"]
    PROVE  RoundInv'
<1>1. /\ job' \in [Producers -> {"new", "pending", "settled"}]
      /\ \A p \in Producers : job'[p] \in {job[p], "settled"}
  BY DEF RoundInv
<1>2. Pending' \subseteq Pending
  BY <1>1 DEF Pending
<1>3. \A p \in awaited : job'[p] # "new"
  BY <1>1 DEF RoundInv
<1>4. Pending' \ awaited # {} => Pending \ awaited # {}
  BY <1>2
<1>5. QED
  BY <1>1, <1>2, <1>3, <1>4 DEF RoundInv

-----------------------------------------------------------------------------
LEMMA InitInv == Init => Inv
<1> SUFFICES ASSUME Init PROVE Inv
  OBVIOUS
<1> USE ConstantsAssumption DEF Init
<1>1. ChainInv
  BY DEF ChainInv, Linked, FlushesInOrder
<1>2. BufferInv
  BY DEF BufferInv
<1>3. RoundInv
  BY DEF RoundInv
<1>4. EndInv
  <2>1. last \in 0..Len(batches) /\ last = sending
    OBVIOUS
  <2>2. phase = "open" /\ closed = FALSE /\ alive = TRUE
    OBVIOUS
  <2>3. QED
    BY <2>1, <2>2, Zenon DEF EndInv
<1>5. QED
  BY <1>1, <1>2, <1>3, <1>4 DEF Inv

\* track(): a job that begins while close() waits pays for the round that
\* will wait for it.
LEMMA TrackInv ==
    ASSUME Inv, NEW p \in Producers, Track(p)
    PROVE  Inv'
<1> USE DEF Inv
<1>1. held \subseteq held' /\ Same /\ added \in Nat /\ added' = added
  BY DEF Track, Same, BufferInv
<1>2. ChainInv'
  BY <1>1, ChainStep DEF BatchStep
<1>3. BufferInv'
  BY DEF BufferInv, Track, closeVars
<1>4. EndInv'
  BY <1>1, <1>2, EndKept DEF BatchStep, Track, closeVars, Same
<1>5. RoundInv'
  <2>1. /\ job' = [job EXCEPT ![p] = "pending"]
        /\ job' \in [Producers -> {"new", "pending", "settled"}]
        /\ UNCHANGED <<closed, phase, round, awaited>>
    BY DEF Track, closeVars, RoundInv
  <2>2. Pending' = Pending \cup {p}
    BY <2>1 DEF Pending, RoundInv
  <2>3. \A q \in awaited' : job'[q] # "new"
    BY <2>1 DEF RoundInv
  <2>4. /\ late' \in 0..MaxLate
        /\ phase = "draining" => late' = late + 1
    BY ConstantsAssumption DEF Track, RoundInv
  <2>5. closed' /\ FewLate => \A q \in Pending' : <<"job", q>> \in held'
    BY <2>1, <2>2 DEF Track, RoundInv
  <2>6. phase' = "draining" => round' <= late' + 1 /\ round' <= late'
    BY <2>1, <2>4 DEF RoundInv
  <2>7. QED
    BY <2>1, <2>3, <2>4, <2>5, <2>6 DEF RoundInv
<1>6. QED
  BY <1>2, <1>3, <1>4, <1>5

\* Whoever adds an event and leaves close() alone.
LEMMA AddInv ==
    ASSUME Inv, alive, NEW size \in Sizes, Add(size),
           UNCHANGED <<closeVars, alive, late>>,
           \/ UNCHANGED job
           \/ \E p \in Producers : job' = [job EXCEPT ![p] = "settled"]
    PROVE  Inv'
<1> USE DEF Inv
<1>1. /\ added' = added + 1 /\ held \subseteq held'
      /\ events' \subseteq 1..added' /\ chars' \in 0..(MAX_BUFFERED_CHARS - 1)
      /\ closed => SentAlone /\ events' = {}
      /\ ~closed => Same \/ FlushedNow
  BY AddShape
<1>2. added \in Nat /\ added' \in Nat /\ added <= added'
  BY <1>1 DEF BufferInv
<1>3. BatchStep /\ (closed => sending' = sending)
  BY <1>1 DEF BatchStep, SentAlone
<1>4. ChainInv'
  BY <1>1, <1>2, <1>3, ChainStep
<1>5. BufferInv'
  BY <1>1, <1>2 DEF BufferInv, closeVars
<1>6. RoundInv'
  BY <1>1, RoundKept DEF closeVars
<1>7. EndInv'
  BY <1>2, <1>3, <1>4, EndKept DEF closeVars
<1>8. QED
  BY <1>4, <1>5, <1>6, <1>7

\* The steps of the sends touch nothing but the batches.
LEMMA SendInv ==
    ASSUME Inv, NEW b \in DOMAIN batches, Sending(b)
    PROVE  Inv'
<1> USE DEF Inv
<1>1. /\ Moved(b) /\ alive
      /\ UNCHANGED <<events, chars, job, sending, closeVars, held, alive,
                     added, late>>
  BY DEF Sending, Post, PostSettles, Moved
<1>2. BatchStep /\ added \in Nat
  BY <1>1 DEF BatchStep, BufferInv
<1>3. ChainInv'
  BY <1>1, <1>2, ChainStep
<1>4. BufferInv'
  BY <1>1 DEF BufferInv, closeVars
<1>5. RoundInv'
  BY <1>1, RoundKept DEF closeVars
<1>6. EndInv'
  BY <1>1, <1>2, <1>3, EndKept DEF closeVars
<1>7. QED
  BY <1>3, <1>4, <1>5, <1>6

\* close() after its last round: what is buffered is chained, and every job
\* that is still pending, if any, is held.
LEMMA CloseInv ==
    ASSUME Inv, alive, phase \in {"open", "draining"},
           NEW E \in SUBSET (1..added'), CloseNow(E),
           held \subseteq held', added' \in Nat, added <= added',
           UNCHANGED <<job, alive, late, round>>,
           FewLate => Pending = {}
    PROVE  Inv'
<1> USE DEF Inv
<1>1. events' = {} /\ chars' = 0 /\ (Same \/ FlushedNow)
  BY FlushShape DEF CloseNow
<1>2. /\ closed' = TRUE /\ phase' = "flushing" /\ awaited' = {}
      /\ last' = sending'
  BY DEF CloseNow
<1>3. ChainInv'
  BY <1>1, ChainStep DEF BatchStep, BufferInv
<1>4. BufferInv'
  BY <1>1, ConstantsAssumption DEF BufferInv
<1>5. RoundInv'
  <2>1. Pending' = Pending
    BY DEF Pending
  <2>2. QED
    BY <1>2, <2>1 DEF RoundInv
<1>6. EndInv'
  BY <1>2, <1>3 DEF EndInv, ChainInv
<1>7. QED
  BY <1>3, <1>4, <1>5, <1>6

LEMMA HandlerInv == ASSUME Inv, HandlerReturns PROVE Inv'
<1> USE ConstantsAssumption DEF Inv
<1>1. alive /\ phase = "open" /\ ~closed /\ added \in Nat /\ late \in Nat
  BY DEF HandlerReturns, EndInv, BufferInv, RoundInv
<1>2. CASE Pending = {}
  <2>1. /\ added' = added + 1 /\ CloseNow(events \cup {added + 1})
        /\ held \subseteq held' /\ UNCHANGED <<job, alive, late, round>>
    BY <1>2 DEF HandlerReturns, NextHeld
  <2>2. events \cup {added + 1} \in SUBSET (1..added')
    BY <1>1, <2>1 DEF BufferInv
  <2>3. QED
    BY <1>1, <1>2, <2>1, <2>2, CloseInv
<1>3. CASE Pending # {}
  <2>1. /\ Add(1) /\ phase' = "draining" /\ round' = 1 /\ awaited' = Pending
        /\ UNCHANGED <<closed, last, job, alive, late>>
    BY <1>3 DEF HandlerReturns
  <2>2. 1 \in Sizes
    BY DEF Sizes
  <2>3. /\ added' = added + 1 /\ held \subseteq held'
        /\ events' \subseteq 1..added' /\ chars' \in 0..(MAX_BUFFERED_CHARS - 1)
        /\ Same \/ FlushedNow
    BY <1>1, <2>1, <2>2, AddShape
  <2>4. ChainInv'
    BY <1>1, <2>3, ChainStep DEF BatchStep
  <2>5. BufferInv'
    BY <1>1, <2>1, <2>3 DEF BufferInv
  <2>6. RoundInv'
    <3>1. Pending' = Pending
      BY <2>1 DEF Pending
    <3>2. QED
      BY <1>1, <2>1, <3>1 DEF RoundInv, Pending
  <2>7. EndInv'
    <3>1. Len(batches') \in Nat /\ Len(batches) <= Len(batches')
      BY <1>1, <2>3, SettledStays DEF BatchStep
    <3>2. last' \in 0..Len(batches')
      BY <2>1, <3>1 DEF EndInv, ChainInv
    <3>3. QED
      BY <1>1, <2>1, <3>2 DEF EndInv
  <2>8. QED
    BY <2>4, <2>5, <2>6, <2>7
<1>4. QED
  BY <1>2, <1>3

\* When no round is left, fewer late jobs than rounds means that the last
\* round began with nobody else to wait for.
LEMMA RoundEndsInv == ASSUME Inv, RoundEnds PROVE Inv'
<1> USE ConstantsAssumption DEF Inv
<1>1. /\ alive /\ phase = "draining" /\ awaited \cap Pending = {}
      /\ UNCHANGED <<job, held, alive, added, late>> /\ added \in Nat
      /\ round \in Nat /\ late \in Nat /\ late <= MaxLate
  BY DEF RoundEnds, BufferInv, RoundInv
<1>2. CASE MoreRounds
  <2>1. /\ round' = round + 1 /\ awaited' = Pending
        /\ UNCHANGED <<events, chars, batches, sending, closed, phase, last>>
    BY <1>2 DEF RoundEnds
  <2>2. ChainInv' /\ BufferInv'
    BY <1>1, <2>1, ChainStep DEF BatchStep, Same, BufferInv
  <2>3. RoundInv'
    <3>1. Pending' = Pending
      BY <1>1 DEF Pending
    <3>2. round <= late
      BY <1>1, <1>2 DEF MoreRounds, RoundInv
    <3>3. round' \in 0..MAX_DRAIN_ROUNDS
      BY <1>1, <1>2, <2>1 DEF MoreRounds
    <3>4. QED
      BY <1>1, <2>1, <3>1, <3>2, <3>3 DEF RoundInv, Pending
  <2>4. EndInv'
    BY <1>1, <2>1 DEF EndInv, Settled, HeldSettled
  <2>5. QED
    BY <2>2, <2>3, <2>4
<1>3. CASE ~MoreRounds
  <2>1. CloseNow(events) /\ UNCHANGED round
    BY <1>3 DEF RoundEnds
  <2>2. FewLate => Pending = {}
    <3>1. SUFFICES ASSUME FewLate, Pending # {} PROVE FALSE
      OBVIOUS
    <3>2. round <= late
      BY <1>1, <3>1 DEF RoundInv
    <3>3. ~(round < MAX_DRAIN_ROUNDS)
      BY <1>3, <3>1 DEF MoreRounds
    <3>4. QED
      BY <1>1, <3>1, <3>2, <3>3 DEF FewLate
  <2>3. events \in SUBSET (1..added')
    BY <1>1 DEF BufferInv
  <2>4. QED
    BY <1>1, <2>1, <2>2, <2>3, CloseInv
<1>4. QED
  BY <1>2, <1>3

LEMMA NextInv == Inv /\ [Next]_vars => Inv'
<1> SUFFICES ASSUME Inv, [Next]_vars PROVE Inv'
  OBVIOUS
<1>1. ASSUME NEW p \in Producers, Settle(p) PROVE Inv'
  <2>1. alive /\ job' = [job EXCEPT ![p] = "settled"]
        /\ UNCHANGED <<closeVars, alive, late>>
    BY <1>1 DEF Settle
  <2>2. CASE \E size \in Sizes : Add(size)
    BY <2>1, <2>2, AddInv
  <2>3. CASE UNCHANGED <<events, chars, batches, sending, held, added>>
    <3>1. Same /\ BatchStep /\ added \in Nat
      BY <2>3 DEF Same, BatchStep, Inv, BufferInv
    <3>2. ChainInv'
      BY <2>3, <3>1, ChainStep DEF Inv
    <3>3. BufferInv'
      BY <2>1, <2>3 DEF Inv, BufferInv, closeVars
    <3>4. RoundInv'
      BY <2>1, <2>3, RoundKept DEF Inv, closeVars
    <3>5. EndInv'
      BY <2>1, <2>3, <3>1, <3>2, EndKept DEF Inv, closeVars
    <3>6. QED
      BY <3>2, <3>3, <3>4, <3>5 DEF Inv
  <2>4. QED
    BY <1>1, <2>2, <2>3 DEF Settle
<1>2. CASE AddDirectly
  BY <1>2, AddInv DEF AddDirectly
<1>3. CASE Closed
  <2>1. /\ phase = "flushing" /\ Settled(last) /\ phase' = "done" /\ alive
        /\ UNCHANGED <<events, chars, job, batches, sending, closed, round,
                       awaited, last, held, alive, added, late>>
    BY <1>3 DEF Closed
  <2>2. ChainInv' /\ BufferInv'
    BY <2>1, ChainStep DEF Inv, BatchStep, Same, BufferInv
  <2>3. RoundInv'
    <3>1. Pending' = Pending
      BY <2>1 DEF Pending
    <3>2. QED
      BY <2>1, <3>1 DEF Inv, RoundInv
  <2>4. EndInv'
    BY <2>1 DEF Inv, EndInv, Settled
  <2>5. QED
    BY <2>2, <2>3, <2>4 DEF Inv
<1>4. CASE ContextEnds
  <2>1. /\ phase = "done" /\ HeldSettled /\ alive' = FALSE
        /\ UNCHANGED <<events, chars, job, batches, sending, closed, phase,
                       round, awaited, last, held, added, late>>
    BY <1>4 DEF ContextEnds, closeVars
  <2>2. ChainInv' /\ BufferInv'
    BY <2>1, ChainStep DEF Inv, BatchStep, Same, BufferInv
  <2>3. RoundInv'
    BY <2>1, RoundKept DEF Inv
  <2>4. EndInv'
    BY <2>1 DEF Inv, EndInv, Settled, HeldSettled
  <2>5. QED
    BY <2>2, <2>3, <2>4 DEF Inv
<1>5. CASE UNCHANGED vars
  <2>1. UNCHANGED <<events, chars, job, batches, sending, closed, phase, round,
                    awaited, last, held, alive, added, late>>
    BY <1>5 DEF vars
  <2>2. ChainInv' /\ BufferInv'
    BY <2>1, ChainStep DEF Inv, BatchStep, Same, BufferInv
  <2>3. RoundInv'
    BY <2>1, RoundKept DEF Inv
  <2>4. EndInv'
    BY <2>1 DEF Inv, EndInv, Settled, HeldSettled
  <2>5. QED
    BY <2>2, <2>3, <2>4 DEF Inv
<1>6. QED
  BY <1>1, <1>2, <1>3, <1>4, <1>5, TrackInv, HandlerInv, RoundEndsInv, SendInv
     DEF Next

\* The strengthened invariant holds of every behaviour.
THEOREM InvHolds == Spec => []Inv
<1>1. QED
  BY InitInv, NextInv, PTL DEF Spec

-----------------------------------------------------------------------------
\* The types are respected: the buffer stays below its limit and a batch is
\* chained behind an earlier one only.
THEOREM TypeCorrect == Spec => []TypeOK
<1>1. ASSUME Inv PROVE TypeOK
  <2>1. ASSUME NEW b \in DOMAIN batches
        PROVE  /\ batches[b].events \subseteq 1..added
               /\ batches[b].after \in 0..(b - 1)
               /\ batches[b].status \in {"queued", "posting", "settled"}
    <3>1. batches[b] \in BatchRec /\ Linked(b)
      BY <1>1 DEF Inv, ChainInv
    <3>2. QED
      BY <3>1 DEF BatchRec, BatchStatuses, Linked
  <2>2. late \in Nat
    BY <1>1 DEF Inv, RoundInv
  <2>3. QED
    BY <1>1, <2>1, <2>2 DEF Inv, ChainInv, BufferInv, RoundInv, EndInv, TypeOK
<1>2. QED
  BY <1>1, InvHolds, PTL

\* Of the batches flushed from the buffer, a later one is never on the wire
\* before an earlier one has settled.
THEOREM FlushesOrdered == Spec => []FlushesInOrder
<1>1. Inv => FlushesInOrder
  BY DEF Inv, ChainInv
<1>2. QED
  BY <1>1, InvHolds, PTL

\* If fewer jobs begin after the handler returned than there are rounds, the
\* runtime cannot end the request before everything captured is posted.
THEOREM ReportedBeforeTheEnd ==
    ASSUME FewLate PROVE Spec => []HeldUntilReported
<1>1. ASSUME Inv PROVE HeldUntilReported
  <2> SUFFICES ASSUME ~alive
               PROVE  /\ events = {} /\ Pending = {}
                      /\ \A b \in DOMAIN batches : batches[b].status = "settled"
    BY DEF HeldUntilReported
  <2>1. closed /\ phase = "done" /\ HeldSettled /\ last = sending /\ Settled(last)
    BY <1>1 DEF Inv, EndInv
  <2>2. events = {}
    BY <1>1, <2>1 DEF Inv, BufferInv
  <2>3. Pending = {}
    BY <1>1, <2>1, FewLate DEF Inv, RoundInv, HeldSettled, Pending
  <2>4. ASSUME NEW b \in DOMAIN batches PROVE batches[b].status = "settled"
    <3>1. Linked(b) /\ b \in Nat /\ b > 0
      BY <1>1 DEF Inv, ChainInv
    <3>2. CASE batches[b].single
      <4>1. <<"batch", b>> \in held
        BY <3>1, <3>2 DEF Linked
      <4>2. QED
        BY <2>1, <3>1, <4>1 DEF HeldSettled, Settled
    <3>3. CASE ~batches[b].single
      <4>1. b <= sending /\ sending # 0 /\ sending \in Nat
        BY <1>1, <3>1, <3>3 DEF Linked, Inv, ChainInv
      <4>2. Flushed(sending) /\ batches[sending].status = "settled"
        BY <1>1, <2>1, <4>1 DEF Inv, ChainInv, Settled
      <4>3. CASE b = sending
        BY <4>2, <4>3
      <4>4. CASE b < sending
        BY <1>1, <3>3, <4>2, <4>4 DEF Inv, ChainInv, FlushesInOrder, Flushed
      <4>5. QED
        BY <3>1, <4>1, <4>3, <4>4
    <3>4. QED
      BY <3>2, <3>3
  <2>5. QED
    BY <2>2, <2>3, <2>4
<1>2. QED
  BY <1>1, InvHolds, PTL

-----------------------------------------------------------------------------
(* Every event once, and in order.                                         *)

\* Every event added so far is buffered or in a batch; a batch holds only
\* events older than those of the batches after it and of the buffer, so no
\* event is in two places.
EachOnceInOrder ==
    /\ \A e \in 1..added :
         e \in events \/ \E b \in DOMAIN batches : e \in batches[b].events
    /\ \A b, c \in DOMAIN batches :
         b < c => \A e \in batches[b].events, f \in batches[c].events : e < f
    /\ \A b \in DOMAIN batches : \A e \in batches[b].events, f \in events : e < f

\* The events in the buffer, with one a step may have added.
WithNew == events \cup ((1..added') \ (1..added))

\* What a step may do to the events: leave them in their batches and keep the
\* rest buffered, or send all of the buffer as one more batch.
EventStep ==
    /\ added' \in {added, added + 1}
    /\ \/ /\ events' = WithNew
          /\ DOMAIN batches' = DOMAIN batches
          /\ \A b \in DOMAIN batches : batches'[b].events = batches[b].events
       \/ /\ events' = {}
          /\ \E after \in Nat, single \in BOOLEAN :
               batches' = Append(batches, Batch(WithNew, after, single))

LEMMA EventStepKeeps ==
    ASSUME ChainInv, BufferInv, EachOnceInOrder, EventStep
    PROVE  EachOnceInOrder'
<1>1. /\ added \in Nat /\ added' \in Nat /\ events \subseteq 1..added
      /\ batches \in Seq(BatchRec) /\ Len(batches) \in Nat
      /\ DOMAIN batches = 1..Len(batches)
      /\ \A b \in DOMAIN batches : batches[b].events \subseteq 1..added
  <2>1. added \in Nat /\ added' \in Nat
    BY DEF BufferInv, EventStep
  <2>2. batches \in Seq(BatchRec) /\ Len(batches) \in Nat
        /\ DOMAIN batches = 1..Len(batches)
    BY DEF ChainInv
  <2>3. QED
    BY <2>1, <2>2 DEF ChainInv, BufferInv, Linked
<1>2. \A e \in 1..added' : e \in 1..added \/ e \in WithNew
  BY DEF WithNew
<1>3. \A b \in DOMAIN batches : \A e \in batches[b].events, f \in WithNew : e < f
  BY <1>1 DEF WithNew, EachOnceInOrder
<1>4. events \subseteq WithNew
  BY DEF WithNew
<1>5. CASE /\ events' = WithNew
           /\ DOMAIN batches' = DOMAIN batches
           /\ \A b \in DOMAIN batches : batches'[b].events = batches[b].events
  <2> HIDE DEF WithNew
  <2>1. \A e \in 1..added' :
          e \in events' \/ \E b \in DOMAIN batches' : e \in batches'[b].events
    BY <1>2, <1>4, <1>5 DEF EachOnceInOrder
  <2>2. \A b, c \in DOMAIN batches' :
          b < c => \A e \in batches'[b].events, f \in batches'[c].events : e < f
    BY <1>5 DEF EachOnceInOrder
  <2>3. QED
    BY <1>3, <1>5, <2>1, <2>2 DEF EachOnceInOrder
<1>6. CASE /\ events' = {}
           /\ \E after \in Nat, single \in BOOLEAN :
                batches' = Append(batches, Batch(WithNew, after, single))
  <2>1. PICK after \in Nat, single \in BOOLEAN :
          batches' = Append(batches, Batch(WithNew, after, single))
    BY <1>6
  <2>2. PICK n \in Nat : n = Len(batches) + 1
    BY <1>1
  <2>3. /\ DOMAIN batches' = DOMAIN batches \cup {n}
        /\ \A b \in DOMAIN batches : batches'[b] = batches[b] /\ b < n
        /\ batches'[n].events = WithNew
    <3> HIDE DEF WithNew
    <3>1. Batch(WithNew, after, single).events = WithNew
      BY DEF Batch
    <3> DEFINE r == Batch(WithNew, after, single)
    <3> HIDE DEF r
    <3>2. batches' = Append(batches, r) /\ r.events = WithNew
      BY <2>1, <3>1 DEF r
    <3>3. QED
      BY <1>1, <2>2, <3>2
  <2> HIDE DEF WithNew
  <2>4. \A e \in 1..added' : \E b \in DOMAIN batches' : e \in batches'[b].events
    <3> SUFFICES ASSUME NEW e \in 1..added'
                 PROVE  \E b \in DOMAIN batches' : e \in batches'[b].events
      OBVIOUS
    <3>1. CASE e \in WithNew
      BY <2>3, <3>1
    <3>2. CASE e \notin WithNew
      <4>1. PICK b \in DOMAIN batches : e \in batches[b].events
        BY <1>2, <1>4, <3>2 DEF EachOnceInOrder
      <4>2. QED
        BY <2>3, <4>1
    <3>3. QED
      BY <3>1, <3>2
  <2>5. ASSUME NEW b \in DOMAIN batches', NEW c \in DOMAIN batches', b < c,
               NEW e \in batches'[b].events, NEW f \in batches'[c].events
        PROVE  e < f
    <3>1. b \in DOMAIN batches
      BY <1>1, <2>2, <2>3, <2>5
    <3>2. CASE c = n
      BY <1>3, <2>3, <2>5, <3>1, <3>2
    <3>3. CASE c # n
      BY <2>3, <2>5, <3>1, <3>3 DEF EachOnceInOrder
    <3>4. QED
      BY <3>2, <3>3
  <2>6. QED
    BY <1>6, <2>4, <2>5 DEF EachOnceInOrder
<1>7. QED
  BY <1>5, <1>6 DEF EventStep

\* flush() of all that is buffered, and add().
LEMMA FlushEvents ==
    ASSUME ChainInv, added' \in {added, added + 1}, Flush(WithNew)
    PROVE  EventStep
<1>1. sending \in Nat
  BY DEF ChainInv
<1>2. CASE WithNew = {}
  BY <1>2 DEF Flush, EventStep
<1>3. CASE WithNew # {}
  <2> HIDE DEF WithNew
  <2>1. events' = {} /\ batches' = Append(batches, Batch(WithNew, sending, FALSE))
    BY <1>3 DEF Flush, ChainedBehind
  <2>2. \E after \in Nat, single \in BOOLEAN :
          batches' = Append(batches, Batch(WithNew, after, single))
    BY <1>1, <2>1
  <2>3. QED
    BY <2>1, <2>2 DEF EventStep
<1>4. QED
  BY <1>2, <1>3

LEMMA AddEvents ==
    ASSUME ChainInv, BufferInv, NEW size \in Sizes, Add(size)
    PROVE  EventStep
<1>1. added \in Nat /\ added' = added + 1 /\ added' \in {added, added + 1}
  BY DEF Add, BufferInv
<1>2. WithNew = events \cup {added + 1}
  <2>1. (1..added') \ (1..added) = {added + 1}
    BY <1>1
  <2>2. QED
    BY <2>1 DEF WithNew, BufferInv
<1>3. CASE closed
  <2>1. WithNew = {added + 1} /\ events' = {}
    BY <1>2, <1>3 DEF BufferInv, Add
  <2>2. batches' = Append(batches, Batch(WithNew, 0, TRUE))
    BY <1>3, <2>1 DEF Add
  <2> HIDE DEF WithNew
  <2>3. \E after \in Nat, single \in BOOLEAN :
          batches' = Append(batches, Batch(WithNew, after, single))
    BY <2>2
  <2>4. QED
    BY <1>1, <2>1, <2>3 DEF EventStep
<1>4. CASE ~closed /\ TooLarge(size)
  <2>1. Flush(WithNew)
    BY <1>2, <1>4 DEF Add
  <2>2. QED
    BY <1>1, <2>1, FlushEvents
<1>5. CASE ~closed /\ ~TooLarge(size)
  BY <1>1, <1>2, <1>5 DEF Add, EventStep
<1>6. QED
  BY <1>3, <1>4, <1>5

LEMMA StepOfEvents ==
    ASSUME Inv, [Next]_vars
    PROVE  EventStep
<1> USE DEF Inv
<1>0. added \in Nat /\ events \subseteq 1..added
  BY DEF BufferInv
<1>1. ASSUME UNCHANGED <<events, added>>, UNCHANGED batches
      PROVE  EventStep
  BY <1>0, <1>1 DEF EventStep, WithNew
<1>2. ASSUME NEW p \in Producers, Track(p) \/ Settle(p) PROVE EventStep
  <2>1. CASE \E size \in Sizes : Add(size)
    BY <2>1, AddEvents
  <2>2. CASE UNCHANGED <<events, added>> /\ UNCHANGED batches
    BY <1>1, <2>2
  <2>3. QED
    BY <1>2, <2>1, <2>2 DEF Track, Settle
<1>3. CASE AddDirectly
  BY <1>3, AddEvents DEF AddDirectly
<1>4. CASE HandlerReturns
  <2>1. CASE Pending = {}
    <3>1. added' = added + 1 /\ Flush(events \cup {added + 1})
      BY <1>4, <2>1 DEF HandlerReturns, CloseNow
    <3>2. WithNew = events \cup {added + 1}
      <4>1. (1..added') \ (1..added) = {added + 1}
        BY <1>0, <3>1
      <4>2. QED
        BY <1>0, <4>1 DEF WithNew
    <3>3. QED
      BY <3>1, <3>2, FlushEvents
  <2>2. CASE Pending # {}
    <3>1. Add(1) /\ 1 \in Sizes
      BY <1>4, <2>2, ConstantsAssumption DEF HandlerReturns, Sizes
    <3>2. QED
      BY <3>1, AddEvents
  <2>3. QED
    BY <2>1, <2>2
<1>5. CASE RoundEnds
  <2>1. CASE MoreRounds
    BY <1>1, <1>5, <2>1 DEF RoundEnds
  <2>2. CASE ~MoreRounds
    <3>1. added' = added /\ Flush(events)
      BY <1>5, <2>2 DEF RoundEnds, CloseNow
    <3>2. WithNew = events
      BY <1>0, <3>1 DEF WithNew
    <3>3. QED
      BY <3>1, <3>2, FlushEvents
  <2>3. QED
    BY <2>1, <2>2
<1>6. ASSUME NEW b \in DOMAIN batches, Sending(b) PROVE EventStep
  <2>1. Moved(b) /\ UNCHANGED <<events, added>>
    BY <1>6 DEF Sending, Post, PostSettles, Moved
  <2>2. /\ DOMAIN batches' = DOMAIN batches
        /\ \A c \in DOMAIN batches : batches'[c].events = batches[c].events
    BY <2>1, MoveShape DEF ChainInv
  <2>3. WithNew = events
    BY <1>0, <2>1 DEF WithNew
  <2>4. QED
    BY <2>1, <2>2, <2>3 DEF EventStep
<1>7. CASE Closed \/ ContextEnds \/ UNCHANGED vars
  BY <1>1, <1>7 DEF Closed, ContextEnds, vars
<1>8. QED
  BY <1>2, <1>3, <1>4, <1>5, <1>6, <1>7 DEF Next

\* No event the request captured is dropped, sent twice or overtaken in the
\* buffer: with FlushesOrdered, the sidecar is sent them in the order they were
\* added, until close() (add and flush of the buffer).
THEOREM EventsOnceInOrder == Spec => []EachOnceInOrder
<1>1. Init => EachOnceInOrder
  BY DEF Init, EachOnceInOrder
<1>2. Inv /\ EachOnceInOrder /\ [Next]_vars => EachOnceInOrder'
  BY StepOfEvents, EventStepKeeps DEF Inv
<1>3. QED
  BY <1>1, <1>2, InvHolds, PTL DEF Spec

\* When the runtime ends a request, every event of it has been posted, in
\* exactly one batch.
PostedOnce ==
    ~alive => \A e \in 1..added :
                \E b \in DOMAIN batches :
                  /\ e \in batches[b].events /\ batches[b].status = "settled"
                  /\ \A c \in DOMAIN batches : e \in batches[c].events => c = b

THEOREM AllPostedOnce == ASSUME FewLate PROVE Spec => []PostedOnce
<1>1. Inv /\ EachOnceInOrder /\ HeldUntilReported => PostedOnce
  <2> SUFFICES ASSUME Inv, EachOnceInOrder, HeldUntilReported, ~alive,
                      NEW e \in 1..added
               PROVE  \E b \in DOMAIN batches :
                        /\ e \in batches[b].events /\ batches[b].status = "settled"
                        /\ \A c \in DOMAIN batches : e \in batches[c].events => c = b
    BY DEF PostedOnce
  <2>1. events = {} /\ \A b \in DOMAIN batches : batches[b].status = "settled"
    BY DEF HeldUntilReported
  <2>2. PICK b \in DOMAIN batches : e \in batches[b].events
    BY <2>1 DEF EachOnceInOrder
  <2>3. DOMAIN batches \subseteq Nat /\ e \in Nat
    BY DEF Inv, ChainInv
  <2>4. ASSUME NEW c \in DOMAIN batches, e \in batches[c].events PROVE c = b
    <3>1. ~(b < c) /\ ~(c < b)
      BY <2>2, <2>3, <2>4 DEF EachOnceInOrder
    <3>2. QED
      BY <2>3, <3>1
  <2>5. QED
    BY <2>1, <2>2, <2>4
<1>2. QED
  BY <1>1, InvHolds, EventsOnceInOrder, ReportedBeforeTheEnd, PTL

-----------------------------------------------------------------------------
(* The chain of sends.                                                     *)

\* As long as a batch waits, one of them is on the wire or can go there: the
\* sends of a request never wait for each other in vain (sending, the chain of
\* flush).
SomeSendMoves ==
    (\E b \in DOMAIN batches : batches[b].status # "settled") =>
      \E b \in DOMAIN batches :
        \/ batches[b].status = "posting"
        \/ batches[b].status = "queued" /\ Settled(batches[b].after)

LEMMA Least ==
    ASSUME NEW T \in SUBSET Nat, T # {}
    PROVE  \E n \in T : \A m \in T : n <= m
<1>1. \E n \in T : \A m \in T : <<m, n>> \notin OpToRel(<, Nat)
  BY NatLessThanWellFounded, WFMin
<1>2. PICK n \in T : \A m \in T : <<m, n>> \notin OpToRel(<, Nat)
  BY <1>1
<1>3. \A m \in T : ~(m < n)
  BY <1>2 DEF OpToRel
<1>4. QED
  BY <1>3

THEOREM SendsProgress == Spec => []SomeSendMoves
<1>1. Inv => SomeSendMoves
  <2> SUFFICES ASSUME Inv, NEW b0 \in DOMAIN batches, batches[b0].status # "settled"
               PROVE  \E b \in DOMAIN batches :
                        \/ batches[b].status = "posting"
                        \/ batches[b].status = "queued" /\ Settled(batches[b].after)
    BY DEF SomeSendMoves
  <2> DEFINE T == {b \in DOMAIN batches : batches[b].status # "settled"}
  <2>1. T \in SUBSET Nat /\ T # {}
    BY DEF Inv, ChainInv
  <2>2. PICK b \in T : \A c \in T : b <= c
    <3> HIDE DEF T
    <3>1. QED
      BY <2>1, Least
  <2>3. b \in DOMAIN batches /\ batches[b] \in BatchRec /\ b \in Nat
    BY DEF Inv, ChainInv
  <2>4. batches[b].status \in {"queued", "posting"}
    BY <2>3 DEF BatchRec, BatchStatuses
  <2>5. Settled(batches[b].after)
    <3>1. SUFFICES ASSUME batches[b].after # 0
                   PROVE  batches[batches[b].after].status = "settled"
      BY DEF Settled
    <3>2. batches[b].after \in 0..(b - 1)
      BY <2>3 DEF Inv, ChainInv, Linked
    <3>3. Len(batches) \in Nat /\ DOMAIN batches = 1..Len(batches)
      BY DEF Inv, ChainInv
    <3>4. batches[b].after \in DOMAIN batches /\ batches[b].after < b
      BY <2>3, <3>1, <3>2, <3>3
    <3>5. ~(b <= batches[b].after)
      BY <2>3, <3>2
    <3>6. batches[b].after \notin T
      <4> HIDE DEF T
      <4>1. QED
        BY <2>2, <3>5
    <3>7. QED
      BY <3>4, <3>6
  <2>6. QED
    BY <2>3, <2>4, <2>5
<1>2. QED
  BY <1>1, InvHolds, PTL

=============================================================================
