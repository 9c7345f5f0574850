----------------------------- MODULE KisWebSockets -----------------------------
\* The websockets of the KIS API: that of execution notices, whose frames are
\* encrypted under a key the session is given, and that of market data with its
\* consumer, adapter and provider.  A stream is opened, closed and read by tasks
\* of one event loop, which interleave at the awaits.  The commands of the
\* execution stream are serialised and a start finds no receive under way
\* (LiveLifecycle); nothing orders those of the market stream.
\*
\* A connection is a session, numbered as it is made.  What the provider stamps
\* on a tick is left out: the tick is known by the number of its trade.
EXTENDS Naturals, Sequences, SequencesExt

CONSTANTS Readers,      \* tasks that receive
          MaxSessions,  \* bound: connections made
          MaxTrades     \* bound: trades of the instrument

ASSUME SocketAssumption == MaxSessions \in Nat /\ MaxTrades \in Nat

Streams == {"execution", "market"}
NoSession == 0

VARIABLES socket,        \* stream |-> session of _socket, or NoSession
          awaited,       \* stream |-> what connect, subscribe or start awaits
          subscription,  \* session of the execution transport's _subscription
          crypto,        \* session whose key and iv are in _crypto
          reading,       \* reader |-> session it reads, or NoSession
          ready,         \* tasks woken by a frame, in the order in which the
                         \* event loop resumes them
          shown,         \* trade in the provider's _ticks, 0 before the first
          network,       \* of: streams of the sessions made; open: sessions;
                         \* topics: what the server sends; keyed: sessions whose
                         \* key is sent; sent: last trade per session, traded: of
                         \* all; wire: frame that has come per session
          past           \* told: execution sessions closed; doubled: a market stream was
                         \* opened beside another; handed: last notice given out

socketVars == <<socket, awaited, subscription, crypto, reading, ready, shown, network, past>>

NoFrame == [kind |-> "none", trade |-> 0]
Nobody == [session |-> NoSession, key |-> NoSession]

SocketInit ==
    /\ socket = [t \in Streams |-> NoSession]
    /\ awaited = [t \in Streams |-> "nothing"]
    /\ subscription = NoSession
    /\ crypto = NoSession
    /\ reading = [r \in Readers |-> NoSession]
    /\ ready = <<>>
    /\ shown = 0
    /\ network = [of |-> <<>>, open |-> {}, topics |-> {}, keyed |-> {},
                  sent |-> <<>>, traded |-> 0, wire |-> <<>>]
    /\ past = [told |-> {}, doubled |-> FALSE, handed |-> Nobody]

Woken(r) == \E n \in DOMAIN ready : ready[n] = r

SessionsOf(t) == {s \in DOMAIN network.of : network.of[s] = t}
Drained == \A r \in Readers : reading[r] \notin SessionsOf("execution")

-----------------------------------------------------------------------------
\* connect: the execution transport refuses a second one, that of the market
\* does not ask.
Connect(t) ==
    /\ awaited[t] = "nothing"
    /\ t = "execution" => socket[t] = NoSession /\ Drained
    /\ awaited' = [awaited EXCEPT ![t] = "connection"]
    /\ UNCHANGED <<socket, subscription, crypto, reading, ready, shown, network, past>>

\* The consumer of market data goes on to subscribe.
Connected(t) ==
    LET session == Len(network.of) + 1 IN
    /\ awaited[t] = "connection"
    /\ session <= MaxSessions
    /\ socket' = [socket EXCEPT ![t] = session]
    /\ awaited' = [awaited EXCEPT ![t] = IF t = "market" THEN "trades" ELSE "nothing"]
    /\ network' = [network EXCEPT !.of = Append(@, t), !.open = @ \cup {session},
                                  !.sent = Append(@, network.traded),
                                  !.wire = Append(@, NoFrame)]
    /\ past' = [past EXCEPT
           !.doubled = @ \/ (t = "market" /\ SessionsOf(t) \cap network.open # {})]
    /\ UNCHANGED <<subscription, crypto, reading, ready, shown>>

\* subscribe of the execution transport up to the send; the approval key needs
\* credentials.
Subscribe(credentials) ==
    /\ credentials
    /\ awaited["execution"] = "nothing"
    /\ socket["execution"] # NoSession
    /\ subscription = NoSession
    /\ awaited' = [awaited EXCEPT !["execution"] = "notices"]
    /\ UNCHANGED <<socket, subscription, crypto, reading, ready, shown, network, past>>

Topics == {"notices", "trades", "quotes"}
Requested(t) == network.topics \cup {<<socket[t], awaited[t]>>}

\* The request is sent; a start with include_quote sends a second one.
Sent(t, credentials) ==
    /\ credentials
    /\ awaited[t] \in Topics
    /\ socket[t] \in network.open
    /\ \E next \in IF awaited[t] = "trades" THEN {"quotes", "nothing"} ELSE {"nothing"} :
           awaited' = [awaited EXCEPT ![t] = next]
    /\ subscription' = IF t = "execution" THEN socket[t] ELSE subscription
    /\ network' = [network EXCEPT !.topics = Requested(t)]
    /\ UNCHANGED <<socket, crypto, reading, ready, shown, past>>

\* Connecting, approval or sending fails or is cancelled; the request may have
\* gone out.  The consumer leaves open what it has opened.
StreamFails(t) ==
    /\ awaited[t] # "nothing"
    /\ awaited' = [awaited EXCEPT ![t] = "nothing"]
    /\ \/ UNCHANGED network
       \/ /\ awaited[t] \in Topics /\ socket[t] \in network.open
          /\ network' = [network EXCEPT !.topics = Requested(t)]
    /\ UNCHANGED <<socket, subscription, crypto, reading, ready, shown, past>>

\* close and cancel_recv: what the transport knows is cleared before the socket
\* is closed, so a close that fails leaves it as new.
Close(t) ==
    /\ t = "execution" => awaited[t] = "nothing"
    /\ socket[t] # NoSession
    /\ socket' = [socket EXCEPT ![t] = NoSession]
    /\ IF t = "execution" THEN subscription' = NoSession /\ crypto' = NoSession
                          ELSE UNCHANGED <<subscription, crypto>>
    /\ past' = IF t = "execution" THEN [past EXCEPT !.told = @ \cup {socket[t]}] ELSE past
    /\ UNCHANGED <<awaited, reading, ready, shown, network>>

-----------------------------------------------------------------------------
\* The tasks woken but for one, which is among them once at most.
Without(r) ==
    IF Woken(r) THEN RemoveAt(ready, CHOOSE n \in DOMAIN ready : ready[n] = r) ELSE ready

\* recv on a session, NoSession to raise: a socket is read by one task at a time
\* (external), and a frame that has come is taken without waiting.
Reads(r, session) ==
    LET taken == \E other \in Readers \ {r} : reading[other] = session
        at == IF taken THEN NoSession ELSE session IN
    /\ reading' = [reading EXCEPT ![r] = at]
    /\ ready' = IF at # NoSession /\ network.wire[at] # NoFrame
                THEN Append(Without(r), r) ELSE Without(r)

Receive(r, t) ==
    /\ reading[r] = NoSession
    /\ socket[t] # NoSession
    /\ Reads(r, socket[t])
    /\ UNCHANGED <<socket, awaited, subscription, crypto, shown, network, past>>

\* A receive is cancelled, which loses no frame, or its connection is gone.
Leave(r) ==
    /\ reading[r] # NoSession
    /\ Reads(r, NoSession)
    /\ UNCHANGED <<socket, awaited, subscription, crypto, shown, network, past>>

\* Slip: a key is taken only where there is none.
TakeKeySlip(session) == crypto' = IF crypto = NoSession THEN session ELSE crypto
TakeKey(session) == crypto' = session

\* _normalize and recv: a message of control is passed over and one with a key
\* sets it, and recv goes on with what is the socket by now; a notice is
\* decrypted and given out, without a key it raises.
TakeExecution(r, frame) ==
    LET session == reading[r] IN
    IF frame.kind = "notice"
    THEN /\ past' = IF crypto # NoSession
                    THEN [past EXCEPT !.handed = [session |-> session, key |-> crypto]] ELSE past
         /\ Reads(r, NoSession)
         /\ UNCHANGED crypto
    ELSE /\ IF frame.kind = "key" THEN TakeKey(session) ELSE UNCHANGED crypto
         /\ IF socket["execution"] = session
            THEN UNCHANGED reading /\ ready' = Tail(ready)
            ELSE Reads(r, socket["execution"])
         /\ UNCHANGED past

\* The adapter refuses what is no trade or quote, and a quote has no price.
Priced(frame) == frame.kind = "trade"

\* receive_once: the provider refuses what has no price.
TakeMarket(r, frame) ==
    /\ shown' = IF Priced(frame) THEN frame.trade ELSE shown
    /\ Reads(r, NoSession)
    /\ UNCHANGED <<crypto, past>>

\* The event loop resumes a task with its frame.
Resume ==
    LET r == Head(ready)
        session == reading[r]
        frame == network.wire[session] IN
    /\ ready # <<>>
    /\ IF session \in SessionsOf("execution")
       THEN TakeExecution(r, frame) /\ UNCHANGED shown
       ELSE TakeMarket(r, frame)
    /\ network' = [network EXCEPT !.wire[session] = NoFrame]
    /\ UNCHANGED <<socket, awaited, subscription>>

-----------------------------------------------------------------------------
\* The network.  The server answers a subscription for notices with the key
\* before it sends any, and trades in their order.
Frames(s) ==
    {[kind |-> "control", trade |-> 0]}
      \cup (IF <<s, "notices">> \in network.topics /\ s \notin network.keyed
            THEN {[kind |-> "key", trade |-> 0]} ELSE {})
      \cup (IF s \in network.keyed THEN {[kind |-> "notice", trade |-> 0]} ELSE {})
      \cup (IF <<s, "quotes">> \in network.topics THEN {[kind |-> "quote", trade |-> 0]} ELSE {})
      \cup (IF <<s, "trades">> \in network.topics
            THEN [kind : {"trade"}, trade : network.sent[s] + 1 .. MaxTrades] ELSE {})

\* A frame comes and wakes who waits for it.  Bound: one at a time.
Arrive(s) ==
    /\ s \in network.open
    /\ network.wire[s] = NoFrame
    /\ \E frame \in Frames(s) :
         network' = [network EXCEPT
           !.wire[s] = frame,
           !.keyed = IF frame.kind = "key" THEN @ \cup {s} ELSE @,
           !.sent[s] = IF frame.kind = "trade" THEN frame.trade ELSE @,
           !.traded = IF frame.trade > @ THEN frame.trade ELSE @]
    /\ ready' = IF \E r \in Readers : reading[r] = s
                THEN Append(ready, CHOOSE r \in Readers : reading[r] = s) ELSE ready
    /\ UNCHANGED <<socket, awaited, subscription, crypto, reading, shown, past>>

\* The closing handshake is over, or the connection breaks.
HangUp(s) ==
    /\ s \in network.open
    /\ network' = [network EXCEPT !.open = @ \ {s}, !.keyed = @ \ {s}, !.sent[s] = 0,
                      !.topics = {topic \in @ : topic[1] # s}]
    /\ UNCHANGED <<socket, awaited, subscription, crypto, reading, ready, shown, past>>

SocketNext(credentials) ==
    \/ \E t \in Streams : Connect(t) \/ Connected(t) \/ Sent(t, credentials) \/ StreamFails(t) \/ Close(t)
    \/ Subscribe(credentials)
    \/ \E r \in Readers, t \in Streams : Receive(r, t)
    \/ \E r \in Readers : Leave(r)
    \/ Resume
    \/ \E s \in network.open : Arrive(s) \/ HangUp(s)

-----------------------------------------------------------------------------
SocketTypeOK ==
    /\ \A t \in Streams : socket[t] \in SessionsOf(t) \cup {NoSession}
    /\ \A r \in Readers : reading[r] \in {NoSession} \cup DOMAIN network.of
    /\ \A n \in DOMAIN ready :
           reading[ready[n]] # NoSession /\ network.wire[reading[ready[n]]] # NoFrame
    /\ crypto \in SessionsOf("execution") \cup {NoSession}
    /\ network.open \subseteq DOMAIN network.of
    /\ shown \in 0 .. MaxTrades

\* A notice is given out only as its own session's key decrypts it, however
\* receives, closes and new connections interleave: a task woken before a close
\* may go on after it, and leave the old key in the transport
\* (futures_execution_transport.py:144-183).
NoticesReadable == past.handed.key = past.handed.session

\* The execution transport never loses sight of an open connection, and holds a
\* subscription only of the one it has: otherwise the next subscribe is refused
\* and the notices are not sent (futures_execution_transport.py:84-127, 189-197).
ConnectionHeld ==
    /\ \A s \in SessionsOf("execution") \cap network.open :
           s = socket["execution"] \/ s \in past.told
    /\ subscription \in {NoSession, socket["execution"]}

\* The price shown never goes back to an earlier trade, by whichever task it is
\* published, unless a second market stream was opened beside the first
\* (futures_market_consumer.py:27-33).
PricesMoveForward == ~past'.doubled => shown' >= shown

\* What comes over a websocket is taken for what it is, whatever step is taken.
StreamsSound == [][NoticesReadable' /\ ConnectionHeld' /\ PricesMoveForward]_socketVars
=============================================================================
