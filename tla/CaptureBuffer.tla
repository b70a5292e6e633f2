---------------------------- MODULE CaptureBuffer ----------------------------
(***************************************************************************)
(* The batching of one request's capture events in the app's Worker        *)
(* (backend-recorder-workerd/src/capture-buffer.ts), with the wrapper that *)
(* closes the buffer (with-meticulous.ts) and the lifetime the Workers     *)
(* runtime gives a request: it may end once the response is out and every  *)
(* promise handed to waitUntil has settled.                                *)
(*                                                                         *)
(* Events are numbered in the order they are added.  A batch is a record   *)
(* of its events, the batch its send is chained behind (0 for none) and    *)
(* the status of its POST.                                                 *)
(***************************************************************************)
EXTENDS Naturals, Sequences, FiniteSets

CONSTANTS
    Producers,          \* the tracked capture jobs of the request
    MAX_BUFFERED_CHARS,
    MAX_DRAIN_ROUNDS,
    MaxEvents,          \* bound: events of the request
    MaxLate             \* bound: jobs begun after the handler returned

Sizes == 1..MAX_BUFFERED_CHARS    \* of one event, in units of chars

ASSUME ConstantsAssumption ==
    /\ MAX_BUFFERED_CHARS \in Nat \ {0}
    /\ MAX_DRAIN_ROUNDS \in Nat \ {0}
    /\ MaxEvents \in Nat
    /\ MaxLate \in Nat
    /\ IsFiniteSet(Producers)

VARIABLES
    events,    \* buffered events
    chars,     \* bufferedChars
    job,       \* job[p]: "new", "pending" (tracked, unsettled) or "settled"
    batches,   \* every send() so far, in the order of the calls
    sending,   \* the batch the next flush is chained behind
    closed,
    phase,     \* of close(): "open", "draining", "flushing", "done"
    round,     \* drain rounds begun
    awaited,   \* the jobs the current round waits for
    last,      \* the batch whose promise the final flush() returned
    held,      \* jobs and batches handed to waitUntil, beside close() itself
    alive,     \* the request context still runs
    added,     \* events added so far
    late       \* jobs begun after close() was called

vars == <<events, chars, job, batches, sending, closed, phase, round,
          awaited, last, held, alive, added, late>>

closeVars == <<closed, phase, round, awaited, last>>

-----------------------------------------------------------------------------
Pending == {p \in Producers : job[p] = "pending"}

Settled(b) == b # 0 => batches[b].status = "settled"

Batch(E, after, single) ==
    [events |-> E, after |-> after, single |-> single, status |-> "queued"]

(* Mutated form of ChainedBehind: a flush does not wait for the last one. *)
ChainedToNothing == 0

ChainedBehind == sending

(* flush(): what is in E becomes a batch chained behind the previous one. *)
Flush(E) ==
    /\ events' = {}
    /\ chars' = 0
    /\ IF E = {}
       THEN UNCHANGED <<batches, sending>>
       ELSE /\ batches' = Append(batches, Batch(E, ChainedBehind, FALSE))
            /\ sending' = Len(batches) + 1

(* Mutated form of NextHeld: add() forgets the waitUntil of what it sends. *)
NextHeldForgotten == held

NextHeld == held \cup {<<"batch", Len(batches) + 1>>}

(* Mutated form of TooLarge: the limit itself still fits. *)
TooLargeLate(size) == chars + size > MAX_BUFFERED_CHARS

TooLarge(size) == chars + size >= MAX_BUFFERED_CHARS

(* add(): sent alone once closed, otherwise buffered, flushed when large. *)
Add(size) ==
    /\ added' = added + 1
    /\ IF closed
       THEN /\ batches' = Append(batches, Batch({added + 1}, 0, TRUE))
            /\ held' = NextHeld
            /\ UNCHANGED <<events, chars, sending>>
       ELSE IF TooLarge(size)
       THEN Flush(events \cup {added + 1}) /\ held' = NextHeld
       ELSE /\ events' = events \cup {added + 1}
            /\ chars' = chars + size
            /\ UNCHANGED <<batches, sending, held>>

-----------------------------------------------------------------------------
Init ==
    /\ events = {} /\ chars = 0
    /\ job = [p \in Producers |-> "new"]
    /\ batches = <<>> /\ sending = 0
    /\ closed = FALSE /\ phase = "open" /\ round = 0
    /\ awaited = {} /\ last = 0
    /\ held = {} /\ alive = TRUE /\ added = 0 /\ late = 0

(* track(): the app's handler, or work it left in waitUntil, makes a call. *)
Track(p) ==
    /\ alive
    /\ job[p] = "new"
    /\ phase # "open" => late < MaxLate
    /\ late' = IF phase = "open" THEN late ELSE late + 1
    /\ job' = [job EXCEPT ![p] = "pending"]
    /\ held' = IF closed THEN held \cup {<<"job", p>>} ELSE held
    /\ UNCHANGED <<events, chars, batches, sending, closeVars, alive, added>>

(* A tracked job settles: its body read is done and it reports its event, *)
(* or it throws and reports none.                                         *)
Settle(p) ==
    /\ alive
    /\ job[p] = "pending"
    /\ job' = [job EXCEPT ![p] = "settled"]
    /\ \/ added < MaxEvents /\ \E size \in Sizes : Add(size)
       \/ UNCHANGED <<events, chars, batches, sending, held, added>>
    /\ UNCHANGED <<closeVars, alive, late>>

(* The app calls a binding: its event is added without a tracked job. *)
AddDirectly ==
    /\ alive
    /\ added < MaxEvents
    /\ \E size \in Sizes : Add(size)
    /\ UNCHANGED <<job, closeVars, alive, late>>

(* close() once no round is left to wait for. *)
CloseNow(E) ==
    /\ closed' = TRUE
    /\ phase' = "flushing"
    /\ awaited' = {}
    /\ Flush(E)
    /\ last' = sending'

(* The handler returned or threw: reportInbound, whose event carries no    *)
(* body, and in the same turn close() up to its first await.               *)
HandlerReturns ==
    /\ phase = "open"
    /\ IF Pending = {}
       THEN /\ added' = added + 1
            /\ CloseNow(events \cup {added + 1})
            /\ held' = IF TooLarge(1) THEN NextHeld ELSE held
            /\ UNCHANGED round
       ELSE /\ Add(1)
            /\ phase' = "draining"
            /\ round' = 1
            /\ awaited' = Pending
            /\ UNCHANGED <<closed, last>>
    /\ UNCHANGED <<job, alive, late>>

(* Mutated form of MoreRounds: one round, whatever it started. *)
OneRound == FALSE

MoreRounds == Pending # {} /\ round < MAX_DRAIN_ROUNDS

RoundEnds ==
    /\ alive
    /\ phase = "draining"
    /\ awaited \cap Pending = {}
    /\ IF MoreRounds
       THEN /\ round' = round + 1
            /\ awaited' = Pending
            /\ UNCHANGED <<events, chars, batches, sending, closed, phase, last>>
       ELSE CloseNow(events) /\ UNCHANGED round
    /\ UNCHANGED <<job, held, alive, added, late>>

(* postCaptureEvents starts when the batch it is chained behind settled. *)
Post(b) ==
    /\ alive
    /\ b \in DOMAIN batches
    /\ batches[b].status = "queued"
    /\ Settled(batches[b].after)
    /\ batches' = [batches EXCEPT ![b].status = "posting"]
    /\ UNCHANGED <<events, chars, job, sending, closeVars, held, alive,
                   added, late>>

(* The sidecar answered, or the POST was given up: send never rejects. *)
PostSettles(b) ==
    /\ alive
    /\ b \in DOMAIN batches
    /\ batches[b].status = "posting"
    /\ batches' = [batches EXCEPT ![b].status = "settled"]
    /\ UNCHANGED <<events, chars, job, sending, closeVars, held, alive,
                   added, late>>

(* close() resolves with the promise its flush returned. *)
Closed ==
    /\ alive
    /\ phase = "flushing"
    /\ Settled(last)
    /\ phase' = "done"
    /\ UNCHANGED <<events, chars, job, batches, sending, closed, round,
                   awaited, last, held, alive, added, late>>

HeldSettled ==
    /\ \A p \in Producers : <<"job", p>> \in held => job[p] = "settled"
    /\ \A b \in DOMAIN batches : <<"batch", b>> \in held => Settled(b)

(* The runtime tears the context down: nothing holds it any more. *)
ContextEnds ==
    /\ alive
    /\ phase = "done"
    /\ HeldSettled
    /\ alive' = FALSE
    /\ UNCHANGED <<events, chars, job, batches, sending, closeVars, held,
                   added, late>>

Sending(b) == Post(b) \/ PostSettles(b)

Next ==
    \/ \E p \in Producers : Track(p) \/ Settle(p)
    \/ AddDirectly \/ HandlerReturns \/ RoundEnds
    \/ \E b \in DOMAIN batches : Sending(b)
    \/ Closed \/ ContextEnds

(* Body reads and POSTs are bounded by timers; promises are resolved.  The *)
(* handler returns.                                                        *)
Fairness ==
    /\ \A p \in Producers : WF_vars(Settle(p))
    /\ WF_vars(HandlerReturns) /\ WF_vars(RoundEnds) /\ WF_vars(Closed)
    /\ \A b \in 1..(MaxEvents + 1) : WF_vars(Sending(b))

Spec == Init /\ [][Next]_vars

FairSpec == Spec /\ Fairness

-----------------------------------------------------------------------------
(* Properties. *)

(* Types: the buffer stays below its limit, a batch is chained behind an   *)
(* earlier one only.                                                       *)
TypeOK ==
    /\ events \subseteq 1..added
    /\ chars \in 0..(MAX_BUFFERED_CHARS - 1)
    /\ job \in [Producers -> {"new", "pending", "settled"}]
    /\ \A b \in DOMAIN batches :
        /\ batches[b].events \subseteq 1..added
        /\ batches[b].after \in 0..(b - 1)
        /\ batches[b].status \in {"queued", "posting", "settled"}
    /\ sending \in 0..Len(batches)
    /\ last \in 0..Len(batches)
    /\ closed \in BOOLEAN /\ alive \in BOOLEAN
    /\ phase \in {"open", "draining", "flushing", "done"}
    /\ round \in 0..MAX_DRAIN_ROUNDS
    /\ awaited \subseteq Producers
    /\ added \in Nat /\ late \in Nat

(* Two flushes never interleave: of the batches flushed from the buffer,   *)
(* a later one is not on the wire before an earlier one has settled, so    *)
(* they reach the sidecar in the order the events were added.              *)
FlushesInOrder ==
    \A b, c \in DOMAIN batches :
        b < c /\ ~batches[b].single /\ ~batches[c].single =>
            batches[c].status = "queued" \/ batches[b].status = "settled"

(* When the runtime tears the request down, nothing captured is left       *)
(* behind: no event in the buffer, no job unfinished, no POST cut short.   *)
HeldUntilReported ==
    ~alive => /\ events = {}
              /\ Pending = {}
              /\ \A b \in DOMAIN batches : batches[b].status = "settled"

(* Every captured event is eventually posted. *)
EventuallyReported ==
    \A e \in 1..(MaxEvents + 1) :
        e <= added ~> \E b \in DOMAIN batches :
                         /\ e \in batches[b].events
                         /\ batches[b].status = "settled"

=============================================================================
