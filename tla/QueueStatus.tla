---------------------------- MODULE QueueStatus ----------------------------
(* What a queue tells of itself: the snapshot in statusRef, of               *)
(* makeQueueRuntime in internal/queueResource.ts.                            *)
(*                                                                           *)
(* A handler changes the queue and publishes an event for it; a fiber that   *)
(* subscribes to the events computes the snapshot anew for each of them, and *)
(* some handlers do so themselves. A computation reads one field after the   *)
(* other while the queue goes on.                                            *)
(*                                                                           *)
(* script[f] is what a fiber has still to do, one operation on shared state  *)
(* a step. Left out: what QueueEngine has and no snapshot tells of (lanes,   *)
(* keys, wakes, permits, what an item is, the drain monitor, whose event goes *)
(* with no change); callers that are interrupted; the windows of metrics.    *)
EXTENDS Integers, Sequences, FiniteSets

CONSTANTS
    Workers, Clients,
    StatusFiber,    \* the fiber that runs refreshStatus for every event
    ShutdownMode,   \* "drain" or "finishActive"
    HubSize,        \* events the subscription holds: 1024 in the code
    MaxOffers,      \* bound: offers, by calls and retries
    MaxCalls        \* bound: calls of the handle

Fibers == Workers \cup Clients \cup {StatusFiber}
Fields == {"pending", "paused", "inFlight", "completed", "phase"}

ASSUME StatusAssumption ==
    /\ IsFiniteSet(Fibers) /\ StatusFiber \notin Workers \cup Clients
    /\ Workers \cap Clients = {}
    /\ ShutdownMode \in {"drain", "finishActive"}
    /\ HubSize \in Nat \ {0} /\ MaxOffers \in Nat /\ MaxCalls \in Nat

VARIABLES
    now,        \* the queue: a record of Fields (lanes, pausedRef, ...)
    latch,      \* the worker latch is open
    isShutdown,
    script,     \* what each fiber has still to do
    hub,        \* events the status fiber has still to take
    status,     \* statusRef: a record of Fields
    view,       \* the fields a computation of the snapshot has read so far
    offers, calls,
    unsaid,     \* for the properties: fields changed by a step that no event
                \* follows, and not read since
    overtaken,  \* for the properties: fibers whose computation began before
                \* the snapshot shown was complete
    outdated    \* for the properties: the snapshot shown is of such a one

queue == <<now, latch, isShutdown>>
snapshot == <<status, view, overtaken, outdated>>
vars == <<queue, script, hub, snapshot, offers, calls, unsaid>>

Start == [pending |-> 0, paused |-> FALSE, inFlight |-> 0, completed |-> 0,
          phase |-> "running"]
NoView == [f \in {} |-> 0]

Init ==
    /\ now = Start /\ latch = TRUE /\ isShutdown = FALSE
    /\ script = [f \in Fibers |-> <<>>]
    /\ hub = 0
    /\ status = Start /\ view = [f \in Fibers |-> NoView]
    /\ offers = 0 /\ calls = 0
    /\ unsaid = {} /\ overtaken = {} /\ outdated = FALSE

----------------------------------------------------------------------------
(* Handlers as scripts.                                                      *)
Event == <<"event">>

refreshStatus == <<"pending", "paused", "inFlight", "completed", "phase", "show">>
finalizeShutdownIfDrained == <<"isDraining", "noPending", "noInFlight", "off">>

(* Mutant: the event of an add goes before its offer.                        *)
AnnouncedFirst == Event \o <<"offer">>
enqueueInternal == <<"isOpen", "offer">> \o Event

processItem == <<"latch">> \o Event \o <<"begin", "run">>
(* The effect has ended. A failure may be disposed of: it is tried again, or *)
(* told of as exhausted or routed.                                           *)
Ended(outcome) ==
    <<"complete">> \o Event \o Event \o <<"end">>
      \o (CASE outcome = "retry" -> Event \o enqueueInternal
            [] outcome = "given up" -> Event
            [] OTHER -> <<>>)
      \o finalizeShutdownIfDrained
Rejected == Event \o finalizeShutdownIfDrained

pause == <<"close", "pause">> \o refreshStatus
resume == <<"open", "unpause">> \o refreshStatus
clear == <<"drain", "zero">> \o Event
shutdown ==
    <<"draining", "shut">> \o Event
      \o (IF ShutdownMode = "finishActive" THEN <<"discard">> ELSE <<"open", "unpause">>)
      \o refreshStatus \o finalizeShutdownIfDrained
(* release, deadLetter and drop; a releaseEncoded that fails puts back.      *)
extract == <<"extract">>
Handlers == {enqueueInternal, pause, resume, clear, shutdown, extract}

----------------------------------------------------------------------------
(* Steps.                                                                    *)
At(f, s) == script[f] # <<>> /\ Head(script[f]) = s
Goes(f, rest) == script' = [script EXCEPT ![f] = rest]
Advance(f) == Goes(f, Tail(script[f]))

Put(field, value) == now' = [now EXCEPT ![field] = value]

Call(c) ==
    /\ script[c] = <<>>
    /\ calls < MaxCalls /\ calls' = calls + 1
    /\ \E h \in Handlers : Goes(c, h)
    /\ UNCHANGED <<queue, hub, snapshot, offers, unsaid>>

(* A worker goes round: it passes the latch before it waits for an item.     *)
workerLoop(w) ==
    /\ script[w] = <<>>
    /\ latch
    /\ ~(isShutdown /\ ShutdownMode = "finishActive")
    /\ Goes(w, <<"take">>)
    /\ UNCHANGED <<queue, hub, snapshot, offers, calls, unsaid>>

(* It takes an item; no event tells of it until the item is started.         *)
takeNext(w) ==
    /\ At(w, "take")
    /\ now.pending > 0
    /\ Put("pending", now.pending - 1)
    /\ unsaid' = unsaid \cup {"pending"}
    /\ Goes(w, processItem)
    /\ UNCHANGED <<latch, isShutdown, hub, snapshot, offers, calls>>

(* The second look at the latch, and the rate limiter, which may reject.     *)
AwaitLatch(w) ==
    /\ At(w, "latch") /\ latch
    /\ Advance(w) \/ Goes(w, Rejected)
    /\ UNCHANGED <<queue, hub, snapshot, offers, calls, unsaid>>

RunEffect(w) ==
    /\ At(w, "run")
    /\ \E outcome \in {"done", "retry", "given up"} : Goes(w, Ended(outcome))
    /\ UNCHANGED <<queue, hub, snapshot, offers, calls, unsaid>>

(* Writes that an event or a computation of the snapshot follows.            *)
Write(f) ==
    /\ \/ At(f, "complete") /\ Put("completed", now.completed + 1) /\ Advance(f)
       \/ At(f, "zero") /\ Put("completed", 0) /\ Advance(f)
       \/ At(f, "drain") /\ Put("pending", 0) /\ Advance(f)
       \/ At(f, "pause") /\ Put("paused", TRUE) /\ Advance(f)
       \/ At(f, "unpause") /\ Put("paused", FALSE) /\ Advance(f)
       \/ /\ At(f, "discard") /\ Put("pending", 0)
          /\ Goes(f, (IF now.pending > 0 THEN Event ELSE <<>>) \o Tail(script[f]))
    /\ UNCHANGED <<latch, isShutdown, hub, snapshot, offers, calls, unsaid>>

IsOpen(f) ==
    /\ At(f, "isOpen")
    /\ IF isShutdown
       THEN Goes(f, IF f \in Workers THEN finalizeShutdownIfDrained ELSE <<>>)
       ELSE Advance(f)
    /\ UNCHANGED <<queue, hub, snapshot, offers, calls, unsaid>>

Offer(f) ==
    /\ At(f, "offer")
    /\ offers < MaxOffers /\ offers' = offers + 1
    /\ Put("pending", now.pending + 1)
    /\ Advance(f)
    /\ UNCHANGED <<latch, isShutdown, hub, snapshot, calls, unsaid>>

(* inFlightRef goes up after the event of the start and down after the event *)
(* of the end.                                                               *)
WriteInFlight(w) ==
    /\ \/ At(w, "begin") /\ Put("inFlight", now.inFlight + 1)
       \/ At(w, "end") /\ Put("inFlight", IF now.inFlight > 0 THEN now.inFlight - 1 ELSE 0)
    /\ unsaid' = unsaid \cup {"inFlight"}
    /\ Advance(w)
    /\ UNCHANGED <<latch, isShutdown, hub, snapshot, offers, calls>>

SetLatch(f) ==
    /\ \/ At(f, "open") /\ latch' = TRUE
       \/ At(f, "close") /\ latch' = FALSE
    /\ Advance(f)
    /\ UNCHANGED <<now, isShutdown, hub, snapshot, offers, calls, unsaid>>

(* extractMatching takes out all that waits and puts back what did not match *)
(* one by one, without an event. An event tells of the rest, or               *)
(* restorePending puts it back too.                                          *)
Extract(c) ==
    /\ At(c, "extract")
    /\ Put("pending", 0)
    /\ LET putBack(n) == [i \in 1..n |-> "restore"]
       IN  \E n \in 0..now.pending :
              \/ Goes(c, putBack(now.pending - n) \o (IF n > 0 THEN Event ELSE <<>>))
              \/ n > 0 /\ Goes(c, putBack(now.pending))
    /\ UNCHANGED <<latch, isShutdown, hub, snapshot, offers, calls, unsaid>>
Restore(c) ==
    /\ At(c, "restore")
    /\ Put("pending", now.pending + 1)
    /\ unsaid' = unsaid \cup {"pending"}
    /\ Advance(c)
    /\ UNCHANGED <<latch, isShutdown, hub, snapshot, offers, calls>>

(* shutdown: only the call that finds the queue running goes on.             *)
SetDraining(c) ==
    /\ At(c, "draining")
    /\ Put("phase", "draining")
    /\ IF now.phase = "running" THEN Advance(c) /\ UNCHANGED unsaid
       ELSE /\ Goes(c, <<>>)
            /\ unsaid' = IF now.phase = "off" THEN unsaid \cup {"phase"} ELSE unsaid
    /\ UNCHANGED <<latch, isShutdown, hub, snapshot, offers, calls>>
SetShutdown(c) ==
    /\ At(c, "shut")
    /\ isShutdown' = TRUE
    /\ Advance(c)
    /\ UNCHANGED <<now, latch, hub, snapshot, offers, calls, unsaid>>

Finalize(f) ==
    /\ \/ /\ At(f, "isDraining")
          /\ Goes(f, IF now.phase = "draining" THEN Tail(script[f]) ELSE <<>>)
          /\ UNCHANGED now
       \/ /\ At(f, "noPending")
          /\ Goes(f, IF now.pending = 0 THEN Tail(script[f]) ELSE <<>>)
          /\ UNCHANGED now
       \/ /\ At(f, "noInFlight")
          /\ Goes(f, IF now.inFlight = 0 THEN Tail(script[f]) ELSE <<>>)
          /\ UNCHANGED now
       \/ /\ At(f, "off")
          /\ Put("phase", "off")
          /\ Goes(f, IF now.phase = "draining" THEN Event \o refreshStatus ELSE <<>>)
    /\ UNCHANGED <<latch, isShutdown, hub, snapshot, offers, calls, unsaid>>

----------------------------------------------------------------------------
(* publishEvent: a sliding hub drops its oldest event for a new one.         *)
publishEvent(f) ==
    /\ At(f, "event")
    /\ hub' = IF hub < HubSize THEN hub + 1 ELSE hub
    /\ Advance(f)
    /\ UNCHANGED <<queue, snapshot, offers, calls, unsaid>>

----------------------------------------------------------------------------
(* The snapshot.                                                             *)
Computing(f) == view[f] # NoView

TakeEvent ==
    /\ script[StatusFiber] = <<>>
    /\ hub > 0 /\ hub' = hub - 1
    /\ Goes(StatusFiber, refreshStatus)
    /\ UNCHANGED <<queue, snapshot, offers, calls, unsaid>>

(* computeStatus reads one field after the other.                            *)
Read(f, field) ==
    /\ At(f, field)
    /\ view' = [view EXCEPT ![f] = [k \in DOMAIN @ \cup {field} |->
                                      IF k = field THEN now[k] ELSE @[k]]]
    /\ unsaid' = unsaid \ {field}
    /\ Advance(f)
    /\ UNCHANGED <<queue, hub, status, overtaken, outdated, offers, calls>>

Show(f) ==
    /\ At(f, "show")
    /\ status' = view[f]
    /\ view' = [view EXCEPT ![f] = NoView]
    /\ outdated' = (f \in overtaken)
    /\ overtaken' = {g \in Fibers \ {f} : Computing(g)}
    /\ Advance(f)
    /\ UNCHANGED <<queue, hub, offers, calls, unsaid>>

Step(f) ==
    \/ Write(f) \/ IsOpen(f) \/ Offer(f) \/ SetLatch(f) \/ Finalize(f)
    \/ publishEvent(f)
    \/ (\E field \in Fields : Read(f, field)) \/ Show(f)

Next ==
    \/ \E w \in Workers : \/ workerLoop(w) \/ takeNext(w)
                          \/ AwaitLatch(w) \/ RunEffect(w) \/ WriteInFlight(w)
    \/ \E c \in Clients : \/ Call(c) \/ Extract(c) \/ Restore(c) \/ SetDraining(c)
                          \/ SetShutdown(c)
    \/ \E f \in Fibers : Step(f)
    \/ TakeEvent

Spec == Init /\ [][Next]_vars

----------------------------------------------------------------------------
(* When no handler is under way and no event waits, the snapshot that is     *)
(* shown is what the queue is, though events are lost and every field is read *)
(* at a moment of its own. Excepted are the fields in unsaid, and a snapshot *)
(* whose computation began before the one it replaced was shown.             *)
Settled ==
    /\ hub = 0 /\ ~outdated
    /\ \A f \in Fibers : script[f] = <<>> \/ At(f, "take") \/ At(f, "latch") \/ At(f, "run")
StatusFollows == Settled => \A field \in Fields \ unsaid : status[field] = now[field]
=============================================================================
