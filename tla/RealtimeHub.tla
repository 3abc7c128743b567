---------------------------- MODULE RealtimeHub ----------------------------
(***************************************************************************)
(* The server-sent-event fan-out of the indexer's API instances            *)
(* (indexer/src/realtime).  An event is appended to a capped Redis stream  *)
(* and then broadcast on a pub/sub channel; every hub forwards what its    *)
(* subscriber receives to its clients through bounded queues.  When a      *)
(* Redis call fails the hub numbers the event itself and delivers it to    *)
(* its own clients only.  A client that reconnects names the last id it    *)
(* received and is sent the entries after it before the live tail.         *)
(***************************************************************************)
EXTENDS Integers, Sequences

CONSTANTS Hubs,        \* API instances
          Clients,     \* browsers
          Wanted,      \* client -> the events its filter lets through
          MaxEvents,   \* bound: events published
          StreamMax,   \* streamMaxLen
          QueueMax,    \* clientQueueMax
          LocalMax,    \* localBufferSize
          MaxOutages,  \* bound: subscriber connections lost or refused
          Null

ASSUME HubAssumption ==
    /\ MaxEvents \in Nat /\ MaxOutages \in Nat
    /\ StreamMax \in Nat \ {0} /\ QueueMax \in Nat \ {0} /\ LocalMax \in Nat \ {0}
    /\ Wanted \in [Clients -> SUBSET Nat]
    /\ Null \notin Hubs /\ Null \notin [ms : {0, 1}, seq : Nat]

VARIABLES
    published,  \* number of events emitted so far; event n is the n-th
    issued,     \* number of stream ids Redis has handed out
    stream,     \* the retained entries of the Redis stream
    inflight,   \* hub -> entries added to the stream, not yet broadcast
    hub,        \* hub -> the state of its RealtimeHub object
    client,     \* client -> its ClientState, or the closed one
    received,   \* client -> the last id its browser received
    outages     \* subscriber connections lost or refused so far

hvars == <<published, issued, stream, inflight, hub, client, received, outages>>

-----------------------------------------------------------------------------
(* Event ids.  A stream id is <ms>-<seq> with a positive ms; a local id n   *)
(* compares as 0-n, so it is below every stream id.                         *)

StreamId(n) == [ms |-> 1, seq |-> n]
LocalId(n) == [ms |-> 0, seq |-> n]
IdLess(a, b) == a.ms < b.ms \/ (a.ms = b.ms /\ a.seq < b.seq)
IsLocal(id) == id.ms = 0

\* Whether id comes after `last`, where Null is the empty string and sorts lowest.
After(id, last) == last = Null \/ IdLess(last, id)

-----------------------------------------------------------------------------
(* Delivery to one client.                                                  *)

Closed == [hub |-> Null, queue |-> <<>>, out |-> <<>>, writing |-> FALSE,
           replaying |-> FALSE, last |-> Null, from |-> Null, reply |-> Null,
           slow |-> FALSE]

\* The newest n entries of a sequence.
Newest(s, n) == IF Len(s) > n THEN SubSeq(s, Len(s) - n + 1, Len(s)) ELSE s

\* Its oldest n.
Oldest(s, n) == IF Len(s) > n THEN SubSeq(s, 1, n) ELSE s

\* Drains the queue into the socket; a full socket takes one frame and leaves
\* the pump waiting for its 'drain' event.
Flush(s) ==
    IF s.writing \/ s.queue = <<>> THEN s
    ELSE IF s.slow
         THEN [s EXCEPT !.out = Append(@, Head(s.queue)), !.queue = Tail(@),
                        !.writing = TRUE]
         ELSE [s EXCEPT !.out = @ \o s.queue, !.queue = <<>>]

Wants(c, m) == m.ev \in Wanted[c]

\* Queues a frame, drops the oldest ones over the bound and raises lastSentId.
Enqueue(s, m) ==
    [s EXCEPT !.queue = Newest(Append(@, m), QueueMax),
              !.last = IF After(m.id, @) THEN m.id ELSE @]

\* deliverTo: filter, monotonic skip, enqueue, flush unless replaying.
Deliver(c, s, m, applySkip) ==
    IF s.hub = Null \/ ~Wants(c, m) \/ (applySkip /\ ~After(m.id, s.last)) THEN s
    ELSE IF s.replaying THEN Enqueue(s, m) ELSE Flush(Enqueue(s, m))

\* The replay loop: deliverTo for one entry after the other.
Replayed(c, s, entries, applySkip) ==
    LET done[n \in 0..Len(entries)] ==
            IF n = 0 THEN s
            ELSE IF After(entries[n].id, s.from)
                 THEN Deliver(c, done[n - 1], entries[n], applySkip)
                 ELSE done[n - 1]
    IN  done[Len(entries)]

\* Mutant: the replay loop does not look at lastSentId.
ReplayUnskipped(c, s, entries) ==
    Flush([Replayed(c, s, entries, FALSE) EXCEPT !.replaying = FALSE, !.reply = Null])

\* Mutant: replaying ends without a flush.
ReplayUnflushed(c, s, entries) ==
    [Replayed(c, s, entries, TRUE) EXCEPT !.replaying = FALSE, !.reply = Null]

\* The end of attachClient: the entries are replayed, then live mode and a flush.
Replay(c, s, entries) ==
    Flush([Replayed(c, s, entries, TRUE) EXCEPT !.replaying = FALSE, !.reply = Null])

\* fanOut at the hubs of hs.
FanOut(cl, hs, m, applySkip) ==
    [c \in Clients |-> IF cl[c].hub \in hs THEN Deliver(c, cl[c], m, applySkip) ELSE cl[c]]

-----------------------------------------------------------------------------
(* Publishing.                                                              *)

\* The degraded path of publish: a local id, the ring buffer, own clients only.
\* hb and cl are the hubs and the clients at that moment.
Fallback(h, ev, hb, cl) ==
    LET m == [id |-> LocalId(hub[h].counter + 1), ev |-> ev]
    IN  /\ hub' = [hb EXCEPT ![h].counter = @ + 1,
                             ![h].ring = Newest(Append(@, m), LocalMax)]
        /\ client' = FanOut(cl, {h}, m, FALSE)

\* publish reaches XADD.  MAXLEN ~ lets Redis keep more than StreamMax entries.
PublishToStream(h) ==
    LET m == [id |-> StreamId(issued + 1), ev |-> published + 1]
        grown == Append(stream, m)
    IN  /\ published < MaxEvents
        /\ published' = published + 1
        /\ issued' = issued + 1
        /\ stream' \in {grown, Newest(grown, StreamMax)}
        /\ inflight' = [inflight EXCEPT ![h] = Append(@, m)]
        /\ UNCHANGED <<hub, client, received, outages>>

\* publish when Redis is not ready or XADD fails.
PublishLocally(h) ==
    /\ published < MaxEvents
    /\ published' = published + 1
    /\ Fallback(h, published + 1, hub, client)
    /\ UNCHANGED <<issued, stream, inflight, received, outages>>

Subscribed == {h \in Hubs : hub[h].subs > 0}

\* What PUBLISH does at Redis: each hub hears m once per subscription; a second
\* copy waits on the other connection.
Relay(m) == FanOut(client, Subscribed, m, TRUE)
LateCopies(m) == [h \in Hubs |-> IF hub[h].subs > 1
                                 THEN [hub[h] EXCEPT !.late = Append(@, m)] ELSE hub[h]]

\* publish after its XADD: PUBLISH succeeds.
Broadcast(h) ==
    /\ inflight[h] # <<>>
    /\ inflight' = [inflight EXCEPT ![h] = Tail(@)]
    /\ client' = Relay(Head(inflight[h]))
    /\ hub' = LateCopies(Head(inflight[h]))
    /\ UNCHANGED <<published, issued, stream, received, outages>>

\* PUBLISH rejects; its message was relayed all the same when only the reply
\* was lost.
BroadcastFails(h) ==
    LET m == Head(inflight[h])
    IN  /\ inflight[h] # <<>>
        /\ inflight' = [inflight EXCEPT ![h] = Tail(@)]
        /\ \/ Fallback(h, m.ev, hub, client)
           \/ Fallback(h, m.ev, LateCopies(m), Relay(m))
        /\ UNCHANGED <<published, issued, stream, received, outages>>

\* onMessage for the copy that came over a second subscription.
HearAgain(h) ==
    /\ hub[h].late # <<>>
    /\ client' = FanOut(client, {h}, Head(hub[h].late), TRUE)
    /\ hub' = [hub EXCEPT ![h].late = Tail(@)]
    /\ UNCHANGED <<published, issued, stream, inflight, received, outages>>

-----------------------------------------------------------------------------
(* The subscriber connection.                                               *)

\* scheduleResubscribe arms the retry timer unless it is armed already.  All
\* pending attempts are attaches under way, or all but one, which the timer holds.
ScheduleResubscribe(r) ==
    IF r.closed THEN {r}
    ELSE {[r EXCEPT !.pending = n] : n \in {r.pending, r.pending + 1} \ {0}}

\* A subscription's connection ends; the late copies may have been on it.
SubscriberEnds(h) ==
    /\ outages < MaxOutages
    /\ hub[h].subs > 0
    /\ \E late \in {hub[h].late, <<>>} :
       \E r \in ScheduleResubscribe([hub[h] EXCEPT !.subs = @ - 1, !.late = late]) :
           hub' = [hub EXCEPT ![h] = r]
    /\ outages' = outages + 1
    /\ UNCHANGED <<published, issued, stream, inflight, client, received>>

\* attachSubscriber, from start() or from the timer, subscribes.
Resubscribe(h) ==
    /\ hub[h].pending > 0
    /\ hub' = [hub EXCEPT ![h].pending = @ - 1, ![h].subs = @ + 1]
    /\ UNCHANGED <<published, issued, stream, inflight, client, received, outages>>

\* Mutant: the catch block does not schedule the next attempt.
ResubscribeFailsForGood(h) ==
    /\ outages < MaxOutages
    /\ hub[h].pending > 0
    /\ \E left \in {FALSE, TRUE} : hub' = [hub EXCEPT ![h].pending = @ - 1, ![h].orphan = @ \/ left]
    /\ outages' = outages + 1
    /\ UNCHANGED <<published, issued, stream, inflight, client, received>>

\* It fails and is scheduled again; a connection that was opened and could not
\* subscribe stays behind with its 'end' handler.
ResubscribeFails(h) ==
    /\ outages < MaxOutages
    /\ hub[h].pending > 0
    /\ \E left \in {FALSE, TRUE} :
       \E r \in ScheduleResubscribe([hub[h] EXCEPT !.pending = @ - 1, !.orphan = @ \/ left]) :
           hub' = [hub EXCEPT ![h] = r]
    /\ outages' = outages + 1
    /\ UNCHANGED <<published, issued, stream, inflight, client, received>>

\* The connection left behind ends: its handler schedules a subscriber although
\* one may be live.
OrphanEnds(h) ==
    /\ hub[h].orphan
    /\ \E r \in ScheduleResubscribe([hub[h] EXCEPT !.orphan = FALSE]) : hub' = [hub EXCEPT ![h] = r]
    /\ UNCHANGED <<published, issued, stream, inflight, client, received, outages>>

-----------------------------------------------------------------------------
(* Clients.                                                                 *)

Connected(c) == client[c].hub # Null

\* attachClient for a page that was just opened, without a Last-Event-ID: live
\* tail at once.
Attach(c, h) ==
    /\ ~Connected(c)
    /\ client' = [client EXCEPT ![c] = [Closed EXCEPT !.hub = h]]
    /\ received' = [received EXCEPT ![c] = Null]
    /\ UNCHANGED <<published, issued, stream, inflight, hub, outages>>

\* attachClient with one: registered for live events, then the XRANGE is sent.
Resume(c, h) ==
    /\ ~Connected(c)
    /\ received[c] # Null
    /\ client' = [client EXCEPT ![c] =
                     [Closed EXCEPT !.hub = h, !.from = received[c], !.replaying = TRUE]]
    /\ UNCHANGED <<published, issued, stream, inflight, hub, received, outages>>

\* The same while Redis is not usable: the ring buffer is replayed on the spot.
ResumeFromRing(c, h) ==
    /\ ~Connected(c)
    /\ received[c] # Null
    /\ client' = [client EXCEPT ![c] =
                     Replay(c, [Closed EXCEPT !.hub = h, !.from = received[c], !.replaying = TRUE],
                            hub[h].ring)]
    /\ UNCHANGED <<published, issued, stream, inflight, hub, received, outages>>

\* exclusiveRangeStart: the stream's entries from position `first` on are those
\* after `from`, which are all of them when it is a local id.
RangeStart(from, first) == \A n \in 1..Len(stream) : n >= first <=> After(stream[n].id, from)

\* Redis evaluates the XRANGE: at most StreamMax entries.
ReadRange(c) ==
    /\ client[c].replaying
    /\ client[c].reply = Null
    /\ \E first \in 1..(Len(stream) + 1) :
           /\ RangeStart(client[c].from, first)
           /\ client' = [client EXCEPT ![c].reply =
                             Oldest(SubSeq(stream, first, Len(stream)), StreamMax)]
    /\ UNCHANGED <<published, issued, stream, inflight, hub, received, outages>>

\* The answer arrives: the entries are queued, then the queue is flushed.
FinishReplay(c) ==
    /\ client[c].replaying
    /\ client[c].reply # Null
    /\ client' = [client EXCEPT ![c] = Replay(c, @, client[c].reply)]
    /\ UNCHANGED <<published, issued, stream, inflight, hub, received, outages>>

\* The XRANGE fails: live tail only.
ReplayFails(c) ==
    /\ client[c].replaying
    /\ client' = [client EXCEPT ![c] = Replay(c, @, <<>>)]
    /\ UNCHANGED <<published, issued, stream, inflight, hub, received, outages>>

\* The socket fills up or empties; emptying fires 'drain' on a waiting pump.
Congest(c) ==
    /\ Connected(c)
    /\ ~client[c].slow
    /\ client' = [client EXCEPT ![c].slow = TRUE]
    /\ UNCHANGED <<published, issued, stream, inflight, hub, received, outages>>

\* Mutant: the 'drain' handler leaves writing set.
DrainStillWriting(c) ==
    /\ client[c].slow
    /\ \E still \in {TRUE, FALSE} : client' = [client EXCEPT ![c] = Flush([@ EXCEPT !.slow = still])]
    /\ UNCHANGED <<published, issued, stream, inflight, hub, received, outages>>

Drain(c) ==
    /\ client[c].slow
    /\ \E still \in {TRUE, FALSE} :
           client' = [client EXCEPT ![c] =
                         IF @.writing THEN Flush([@ EXCEPT !.slow = still, !.writing = FALSE])
                         ELSE [@ EXCEPT !.slow = still]]
    /\ UNCHANGED <<published, issued, stream, inflight, hub, received, outages>>

\* The ids the browser may send as Last-Event-ID: any frame written so far may be
\* the last one that arrived.
Arrived(c) == {received[c]} \cup {client[c].out[n].id : n \in 1..Len(client[c].out)}

\* detachClient: the socket closes, errs, or throws on a write.
Detach(c) ==
    /\ Connected(c)
    /\ \E id \in Arrived(c) : received' = [received EXCEPT ![c] = id]
    /\ client' = [client EXCEPT ![c] = Closed]
    /\ UNCHANGED <<published, issued, stream, inflight, hub, outages>>

\* close(): every client stream ends, the timer goes, and so does the newest
\* subscriber, which may be one that has not subscribed; no attach outlives it.
Close(h) ==
    /\ ~hub[h].closed
    /\ \E n \in {hub[h].subs, hub[h].subs - 1} :
           /\ n >= 0 /\ (n = hub[h].subs => n = 0 \/ hub[h].orphan \/ hub[h].pending > 0)
           /\ hub' = [hub EXCEPT ![h].closed = TRUE, ![h].pending = 0, ![h].subs = n]
    /\ received' \in [Clients -> UNION {Arrived(c) : c \in Clients}]
    /\ \A c \in Clients :
           received'[c] \in IF client[c].hub = h THEN Arrived(c) ELSE {received[c]}
    /\ client' = [c \in Clients |-> IF client[c].hub = h THEN Closed ELSE client[c]]
    /\ UNCHANGED <<published, issued, stream, inflight, outages>>

-----------------------------------------------------------------------------

\* start() has been called at every hub and its attachSubscriber is under way.
HInit ==
    /\ published = 0 /\ issued = 0 /\ stream = <<>> /\ outages = 0
    /\ inflight = [h \in Hubs |-> <<>>]
    /\ hub = [h \in Hubs |-> [subs |-> 0, pending |-> 1, orphan |-> FALSE, late |-> <<>>,
                              ring |-> <<>>, counter |-> 0, closed |-> FALSE]]
    /\ client = [c \in Clients |-> Closed]
    /\ received = [c \in Clients |-> Null]

HubStep(h) ==
    \/ PublishToStream(h) \/ PublishLocally(h) \/ Broadcast(h) \/ BroadcastFails(h)
    \/ HearAgain(h) \/ SubscriberEnds(h) \/ Resubscribe(h) \/ ResubscribeFails(h)
    \/ OrphanEnds(h) \/ Close(h)

ClientStep(c) ==
    \/ \E h \in Hubs : Attach(c, h) \/ Resume(c, h) \/ ResumeFromRing(c, h)
    \/ ReadRange(c) \/ FinishReplay(c) \/ ReplayFails(c)
    \/ Congest(c) \/ Drain(c) \/ Detach(c)

HNext == (\E h \in Hubs : HubStep(h)) \/ (\E c \in Clients : ClientStep(c))

\* Redis answers, sockets drain and timers fire; publishers, browsers and
\* connection losses are free.
HFairness ==
    /\ \A h \in Hubs : WF_hvars(Resubscribe(h))
    /\ \A c \in Clients : /\ WF_hvars(ReadRange(c)) /\ WF_hvars(FinishReplay(c))
                          /\ SF_hvars(Drain(c))

HSpec == HInit /\ [][HNext]_hvars /\ HFairness

-----------------------------------------------------------------------------
(* Properties.                                                              *)

Frames(c) == client[c].out \o client[c].queue

\* On one connection no id is sent twice, and the ids of each family come in
\* increasing order, whatever overlaps: the replayed window with live messages,
\* two subscriptions of one hub, broadcasts of several instances arriving out of
\* order, local deliveries in between (deliverTo's monotonic skip).
FramesInOrder ==
    \A c \in Clients : \A i, j \in 1..Len(Frames(c)) :
        i < j /\ IsLocal(Frames(c)[i].id) = IsLocal(Frames(c)[j].id)
            => IdLess(Frames(c)[i].id, Frames(c)[j].id)

\* A frame never waits in a queue with nobody to send it: the pump waits for
\* 'drain', or the replay that holds frames back is still to finish (flush,
\* deliverTo and attachClient together).
PumpArmed ==
    \A c \in Clients : client[c].queue # <<>> => client[c].writing \/ client[c].replaying

\* Every backlog is worked off or its client goes away.
BacklogsDrain ==
    \A c \in Clients : (client[c].queue # <<>>) ~> (client[c].queue = <<>>)

\* A hub that lost its subscriber gets one again, unless it is closed
\* (attachSubscriber and scheduleResubscribe).
HubsResubscribe ==
    \A h \in Hubs : (hub[h].subs = 0) ~> (hub[h].subs > 0 \/ hub[h].closed)

=============================================================================
