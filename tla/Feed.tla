---------------------------------- MODULE Feed ----------------------------------
(***************************************************************************)
(* Sessions (services/auth.py, login and logout of api/v1/auth.py) and the *)
(* live feed that authorizes by them: the WebSocket of api/v1/events.py    *)
(* and the event bus of core/events.py, in one process or relayed between  *)
(* workers through a Redis channel.                                        *)
(*                                                                         *)
(* Events are numbered in the order they are published.                    *)
(***************************************************************************)
EXTENDS Naturals, Sequences, FiniteSets, SequencesExt

CONSTANTS
    Logins,      \* bound: sessions of a user
    Sockets,     \* bound: WebSocket connections
    Buses,       \* the workers; one if the bus is not relayed
    Open,        \* the session a connection presents: [Sockets -> Logins]
    Serves,      \* the worker it is connected to: [Sockets -> Buses]
    MaxEvents,   \* bound: events
    QueueSize    \* QUEUE_SIZE

ASSUME FeedBounds ==
    /\ MaxEvents \in Nat /\ QueueSize \in Nat \ {0}
    /\ Open \in [Sockets -> Logins] /\ Serves \in [Sockets -> Buses]

VARIABLES
    relayed,    \* RedisEventBus, else EventBus
    session,    \* per session: "none", "valid" or "ended", and the events published by then
    published,  \* events published so far
    pending,    \* publish tasks: <<worker, event>>
    listener,   \* per worker: "off", "connecting", "on"
    channel,    \* per worker: messages on their way to its listener
    broken,     \* Redis has failed a command or dropped a listener
    socket      \* per connection: [at, queue, holds, sent]

feedVars == <<relayed, session, published, pending, listener, channel, broken, socket>>

FeedInit ==
    /\ relayed \in BOOLEAN
    /\ session = [s \in Logins |-> [is |-> "none", until |-> 0]]
    /\ published = 0 /\ pending = {}
    /\ listener = [b \in Buses |-> "off"]
    /\ channel = [b \in Buses |-> <<>>]
    /\ broken = FALSE
    /\ socket = [k \in Sockets |-> [at |-> "none", queue |-> <<>>, holds |-> 0, sent |-> <<>>]]

--------------------------------------------------------------------------------
(* Sessions                                                                   *)

\* get_valid_session; a user that is not active has none either.
Authorized(s) == session[s].is = "valid"

LogIn(s) ==
    /\ session[s].is = "none"
    /\ session' = [session EXCEPT ![s].is = "valid"]
    /\ UNCHANGED <<relayed, published, pending, listener, channel, broken, socket>>

\* logout is committed, or the session or its token expires.
EndSession(s) ==
    /\ Authorized(s)
    /\ session' = [session EXCEPT ![s] = [is |-> "ended", until |-> published]]
    /\ UNCHANGED <<relayed, published, pending, listener, channel, broken, socket>>

--------------------------------------------------------------------------------
(* The bus                                                                    *)

Subscribed(b) == {k \in Sockets : Serves[k] = b /\ socket[k].at \notin {"none", "accepted", "closed"}}

\* dispatch: a full queue drops the event.
Dispatch(b, e) ==
    socket' = [k \in Sockets |->
        IF k \in Subscribed(b) /\ Len(socket[k].queue) < QueueSize
        THEN [socket[k] EXCEPT !.queue = Append(@, e)]
        ELSE socket[k]]

EnsureListener(b) ==
    listener' = [listener EXCEPT ![b] = IF relayed /\ @ = "off" THEN "connecting" ELSE @]

Publish(b) ==
    /\ published < MaxEvents
    /\ published' = published + 1
    /\ EnsureListener(b)
    /\ IF relayed
       THEN pending' = pending \cup {<<b, published'>>} /\ UNCHANGED socket
       ELSE Dispatch(b, published') /\ UNCHANGED pending
    /\ UNCHANGED <<relayed, session, channel, broken>>

Relay(e) == channel' = [b \in Buses |->
    IF listener[b] = "on" THEN Append(channel[b], e) ELSE channel[b]]

\* Mutant of PublishRemote: the publisher's own clients are served at once.
PublishBoth(b, e) ==
    /\ <<b, e>> \in pending
    /\ pending' = pending \ {<<b, e>>}
    /\ Relay(e) /\ Dispatch(b, e)
    /\ UNCHANGED <<relayed, session, published, listener, broken>>

\* The tasks of two publishes may be done in either order.
PublishRemote(b, e) ==
    /\ <<b, e>> \in pending
    /\ pending' = pending \ {<<b, e>>}
    /\ Relay(e)
    /\ UNCHANGED <<relayed, session, published, listener, broken, socket>>

\* The command raises, before or after Redis has relayed the event.
PublishFails(b, e) ==
    /\ <<b, e>> \in pending
    /\ pending' = pending \ {<<b, e>>}
    /\ UNCHANGED channel \/ Relay(e)
    /\ Dispatch(b, e)
    /\ broken' = TRUE
    /\ UNCHANGED <<relayed, session, published, listener>>

Listen(b) ==
    /\ listener[b] = "connecting"
    /\ listener' = [listener EXCEPT ![b] = "on"]
    /\ UNCHANGED <<relayed, session, published, pending, channel, broken, socket>>

Receive(b) ==
    /\ channel[b] # <<>>
    /\ Dispatch(b, Head(channel[b]))
    /\ channel' = [channel EXCEPT ![b] = Tail(@)]
    /\ UNCHANGED <<relayed, session, published, pending, listener, broken>>

ListenerLost(b) ==
    /\ listener[b] = "on"
    /\ listener' = [listener EXCEPT ![b] = "connecting"]
    /\ channel' = [channel EXCEPT ![b] = <<>>]
    /\ broken' = TRUE
    /\ UNCHANGED <<relayed, session, published, pending, socket>>

--------------------------------------------------------------------------------
(* A connection                                                               *)

Accept(k) ==
    /\ socket[k].at = "none" /\ Authorized(Open[k])
    /\ socket' = [socket EXCEPT ![k].at = "accepted"]
    /\ UNCHANGED <<relayed, session, published, pending, listener, channel, broken>>

Subscribe(k) ==
    /\ socket[k].at = "accepted"
    /\ socket' = [socket EXCEPT ![k].at = "waiting"]
    /\ EnsureListener(Serves[k])
    /\ UNCHANGED <<relayed, session, published, pending, channel, broken>>

\* queue.get
Get(k) ==
    /\ socket[k].at = "waiting" /\ socket[k].queue # <<>>
    /\ socket' = [socket EXCEPT ![k] =
          [@ EXCEPT !.at = "got", !.holds = Head(socket[k].queue), !.queue = Tail(socket[k].queue)]]
    /\ UNCHANGED <<relayed, session, published, pending, listener, channel, broken>>

\* REVALIDATE_IDLE_SECONDS without an event
Idle30(k) ==
    /\ socket[k].at = "waiting" /\ socket[k].queue = <<>>
    /\ socket' = [socket EXCEPT ![k].at = "got"]
    /\ UNCHANGED <<relayed, session, published, pending, listener, channel, broken>>

Close(k) == socket' = [socket EXCEPT ![k] = [@ EXCEPT !.at = "closed", !.queue = <<>>, !.holds = 0]]

\* Mutant of Reauthorize: the session is looked up again only on idle streams.
ReauthorizeIdle(k) ==
    /\ socket[k].at = "got"
    /\ IF Authorized(Open[k]) \/ socket[k].holds # 0
       THEN socket' = [socket EXCEPT ![k].at = IF socket[k].holds = 0 THEN "waiting" ELSE "sending"]
       ELSE Close(k)
    /\ UNCHANGED <<relayed, session, published, pending, listener, channel, broken>>

Reauthorize(k) ==
    /\ socket[k].at = "got"
    /\ IF Authorized(Open[k])
       THEN socket' = [socket EXCEPT ![k].at = IF socket[k].holds = 0 THEN "waiting" ELSE "sending"]
       ELSE Close(k)
    /\ UNCHANGED <<relayed, session, published, pending, listener, channel, broken>>

Send(k) ==
    /\ socket[k].at = "sending"
    /\ socket' = [socket EXCEPT ![k] =
          [@ EXCEPT !.at = "waiting", !.holds = 0, !.sent = Append(socket[k].sent, socket[k].holds)]]
    /\ UNCHANGED <<relayed, session, published, pending, listener, channel, broken>>

\* The client has gone: noticed when something is sent to it.
Gone(k) ==
    /\ socket[k].at = "sending"
    /\ Close(k)
    /\ UNCHANGED <<relayed, session, published, pending, listener, channel, broken>>

FeedNext ==
    \/ \E s \in Logins : LogIn(s) \/ EndSession(s)
    \/ \E b \in Buses : Publish(b) \/ Listen(b) \/ Receive(b) \/ ListenerLost(b)
    \/ \E b \in Buses, e \in 1..MaxEvents : PublishRemote(b, e) \/ PublishFails(b, e)
    \/ \E k \in Sockets :
          Accept(k) \/ Subscribe(k) \/ Get(k) \/ Idle30(k) \/ Reauthorize(k) \/ Send(k) \/ Gone(k)

--------------------------------------------------------------------------------
(* Properties                                                                 *)

\* Nothing that happens after a logout reaches the connections of that session
\* (api/v1/events.py:35), however long events wait in queues, in Redis or in a
\* slow connection.
EndedIsSilent ==
    \A k \in Sockets : \A n \in DOMAIN socket[k].sent :
        session[Open[k]].is = "ended" => socket[k].sent[n] <= session[Open[k]].until

\* As long as Redis has not failed, no client sees an event twice
\* (core/events.py:62), and without a relay they come in the order they were
\* published in.
EventsOnce ==
    \A k \in Sockets :
        LET sent == socket[k].sent
        IN  /\ ~broken => IsInjective(sent)
            /\ ~relayed => \A m, n \in DOMAIN sent : m < n => sent[m] < sent[n]

--------------------------------------------------------------------------------
(* An inductive invariant                                                    *)

\* What comes first of two events of a connection: without a relay their order is
\* the order they were published in.
Precedes(relay, d, e) == IF relay THEN d # e ELSE d < e

InLine(relay, first, second) == \A d \in first, e \in second : Precedes(relay, d, e)
Ordered(relay, s) == \A m, n \in DOMAIN s : m < n => Precedes(relay, s[m], s[n])

\* The events on their way to a client, one place behind the other.
Lined(relay, sent, held, queue, rest) ==
    /\ Ordered(relay, sent) /\ Ordered(relay, queue)
    /\ InLine(relay, Range(sent), held \cup Range(queue) \cup rest)
    /\ InLine(relay, held, Range(queue) \cup rest)
    /\ InLine(relay, Range(queue), rest)

Held(e) == IF e = 0 THEN {} ELSE {e}
Awaited == {q[2] : q \in pending}
Coming(b) == Range(channel[b]) \cup Awaited

\* An event that a connection was sent, holds, has queued or will receive is in
\* one of these places, once.
LineInv(k) ==
    Lined(relayed, socket[k].sent, Held(socket[k].holds), socket[k].queue, Coming(Serves[k]))

ChannelInv(b) == Ordered(relayed, channel[b]) /\ InLine(relayed, Range(channel[b]), Awaited)

\* Only what was published is on its way.
PublishedInv ==
    /\ \A k \in Sockets :
          Range(socket[k].sent) \cup Held(socket[k].holds) \cup Range(socket[k].queue) \subseteq 1..published
    /\ \A b \in Buses : Coming(b) \subseteq 1..published

\* An event waits to be relayed in one task; nothing is relayed by one process.
RelayInv ==
    /\ \A q, r \in pending : q[2] = r[2] => q = r
    /\ ~relayed => /\ pending = {} /\ ~broken
                   /\ \A b \in Buses : listener[b] = "off" /\ channel[b] = <<>>

\* The session of a connection may end while it sends what it holds.
SilenceInv(k) ==
    session[Open[k]].is = "ended" =>
        /\ \A e \in Range(socket[k].sent) : e <= session[Open[k]].until
        /\ socket[k].at = "sending" => socket[k].holds <= session[Open[k]].until

\* Before it is subscribed and after it is closed, a connection has nothing queued;
\* it holds an event when it sends.
QuietInv(k) ==
    /\ socket[k].at \in {"none", "accepted", "closed"} => socket[k].queue = <<>>
    /\ socket[k].at \notin {"got", "sending"} => socket[k].holds = 0
    /\ socket[k].at = "sending" => socket[k].holds # 0

FeedInv ==
    /\ RelayInv /\ PublishedInv
    /\ \A k \in Sockets : SilenceInv(k) /\ QuietInv(k) /\ (~broken => LineInv(k))
    /\ ~broken => \A b \in Buses : ChannelInv(b)
================================================================================
