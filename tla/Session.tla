------------------------------ MODULE Session -------------------------------
(***************************************************************************)
(* What travels over the connections of a WebSocket (manager.py): messages *)
(* are tracked in the message buffer and queued for recv(), a reconnection *)
(* replays before the message loop starts, and the heartbeat (heartbeat.py)*)
(* pings and waits for an answer.  Manager models how a connection comes   *)
(* and goes; here it is up, lost, or given up.                             *)
(*                                                                         *)
(* The server numbers its messages; 0 is its answer to a ping.  On a new   *)
(* connection it goes on with what is new, or waits to be asked if it may  *)
(* be; asked to replay from n it goes back to n + 1, or to n, which it     *)
(* then sends again.                                                       *)
(***************************************************************************)
EXTENDS MessageBuffer

CONSTANTS PongMatcher,  \* answers are messages that pong_matcher knows; else PONG frames
          MaxMsgs,      \* bound: messages of the server
          MaxConns,     \* bound: connections without a heartbeat
          MaxBeating    \* bound: connections with one, which has many more states

\* A message is its number, which is also its sequence id.
ASSUME SessionAssumption == /\ MaxMsgs \in Nat /\ MaxConns \in Nat /\ MaxBeating \in Nat
                            /\ Items = 1 .. MaxMsgs /\ SeqIds = 1 .. MaxMsgs

VARIABLES
    beats,             \* a heartbeat is configured
    mode,              \* ReplayConfig.mode
    phase,             \* "down", "replaying" or "running": the message loop runs
    conns,             \* connections so far
    lost, chan,        \* the connection is lost; what is on its way to the loop
    old,               \* <<c, m>>: m is next to come on c, which the heartbeat gave up
    srv, pos,          \* messages of the server, and the next it will send
    queue, got,        \* _message_queue; history: what recv() returned
    toSend, echoed,    \* messages being sent back; history: the ones sent
    last_seq,          \* of _replay_on_reconnect(), read before it first suspends
    paused,            \* writing is paused: a send() waits for _can_write
    reported,          \* _last_dropped_count
    hb,                \* the heartbeat: "off", "interval" or "pong", what it waits for
    pending, event,    \* _last_ping_time is not None, _pong_event
    pinged,            \* a ping is on its way
    answered,          \* history: an answer was read since the last ping
    unasked,           \* history: a reconnection went on without its replay
    unnumbered,        \* history: a message without a sequence id
    early,             \* history: connections on which the server spoke before it was asked
    resent,            \* history: messages sent again because a replay started from them
    orphaned           \* history: the heartbeat gave up a connection that works

hbVars == <<hb, pending, event, pinged, answered>>
connVars == <<phase, conns, lost, pos, early>>
replayVars == <<beats, mode, toSend, echoed, unasked, last_seq, paused, resent>>
appVars == <<queue, got, reported, unnumbered>>
vars == <<msgVars, hbVars, connVars, replayVars, appVars, chan, old, srv, orphaned>>

SessionInit ==
    /\ MsgInit
    /\ beats \in BOOLEAN
    /\ mode \in {"none", "sequence_id", "full_buffer"}
    /\ phase = "down" /\ conns = 0 /\ lost = FALSE /\ chan = <<>> /\ old = {}
    /\ srv = 0 /\ pos = 1 /\ last_seq = 0 /\ paused = FALSE
    /\ queue = <<>> /\ got = <<>> /\ toSend = <<>> /\ echoed = <<>> /\ reported = 0
    /\ hb = "off" /\ pending = FALSE /\ event = FALSE /\ pinged = FALSE /\ answered = FALSE
    /\ unasked = FALSE /\ unnumbered = FALSE /\ orphaned = FALSE
    /\ early = {} /\ resent = {}

Position == IF last_sequence_id = None THEN 0 ELSE last_sequence_id
-----------------------------------------------------------------------------
(***************************************************************************)
(* The server and the network.                                             *)
(***************************************************************************)
Produce == /\ srv < MaxMsgs
           /\ srv' = srv + 1
           /\ UNCHANGED <<msgVars, hbVars, connVars, replayVars, appVars, chan, old, orphaned>>

\* on_replay() has not been called yet.
ToBeAsked == phase = "replaying" /\ mode = "sequence_id"

Transmit == /\ phase # "down" /\ ~lost
            /\ pos <= srv
            /\ chan' = Append(chan, pos)
            /\ pos' = pos + 1
            /\ early' = IF ToBeAsked THEN early \cup {conns} ELSE early
            /\ UNCHANGED <<msgVars, hbVars, phase, conns, lost, replayVars, appVars, old, srv,
                           orphaned>>

Answer == /\ phase # "down" /\ ~lost
          /\ pinged
          /\ pinged' = FALSE
          /\ chan' = Append(chan, 0)
          /\ UNCHANGED <<msgVars, hb, pending, event, answered, connVars, replayVars, appVars,
                         old, srv, orphaned>>

\* What had not arrived is gone.
Lose == /\ phase # "down" /\ ~lost
        /\ lost' = TRUE
        /\ \E n \in 0 .. Len(chan) : chan' = SubSeq(chan, 1, n)
        /\ UNCHANGED <<msgVars, hbVars, phase, conns, pos, early, replayVars, appVars, old,
                       srv, orphaned>>

\* The transport pauses writing when its buffer is full, whoever fills it, and
\* resumes when the server has read; connection_lost() does neither.
Pause == /\ phase = "replaying" /\ ~lost
         /\ paused' = TRUE
         /\ UNCHANGED <<msgVars, hbVars, connVars, beats, mode, toSend, echoed, unasked,
                        last_seq, resent, appVars, chan, old, srv, orphaned>>

Resume == /\ paused /\ ~lost
          /\ paused' = FALSE
          /\ UNCHANGED <<msgVars, hbVars, connVars, beats, mode, toSend, echoed, unasked,
                         last_seq, resent, appVars, chan, old, srv, orphaned>>
-----------------------------------------------------------------------------
(***************************************************************************)
(* Connecting and replay.                                                  *)
(***************************************************************************)
MostConns == IF beats THEN MaxBeating ELSE MaxConns

\* The message loop and the heartbeat start.
StartLoop == /\ phase' = "running"
             /\ hb' = IF beats THEN "interval" ELSE "off"
             /\ pending' = FALSE /\ event' = FALSE /\ pinged' = FALSE

\* Mutant of Connected: the buffer is read for the replay, and not drained.
ConnectedPeeks ==
    /\ phase = "down"
    /\ conns < MostConns
    /\ conns' = conns + 1
    /\ lost' = FALSE /\ chan' = <<>> /\ paused' = FALSE
    /\ IF conns > 0 /\ mode = "full_buffer"
       THEN /\ phase' = "replaying"
            /\ toSend' = ItemsOf(Window)
            /\ UNCHANGED <<hb, pending, event, pinged>>
       ELSE StartLoop /\ UNCHANGED toSend
    /\ pos' = IF conns = 0 THEN 1 ELSE srv + 1
    /\ UNCHANGED <<msgVars, unasked, answered, beats, mode, echoed, last_seq, early, resent,
                   appVars, old, srv, orphaned>>

\* A connection is made.  Only a reconnection replays: sequence_id has something
\* to ask if a message was ever tracked, full_buffer drains the buffer.
Connected ==
    /\ phase = "down"
    /\ conns < MostConns
    /\ conns' = conns + 1
    /\ lost' = FALSE /\ chan' = <<>> /\ paused' = FALSE
    /\ \/ /\ conns = 0 \/ mode = "none" \/ (mode = "sequence_id" /\ Position = 0)
          /\ StartLoop
          /\ pos' = IF conns = 0 THEN 1 ELSE srv + 1
          /\ unasked' = (unasked \/ conns > 0)
          /\ UNCHANGED <<msgVars, last_seq, toSend>>
       \/ /\ conns > 0 /\ mode = "sequence_id" /\ Position > 0
          /\ phase' = "replaying"
          /\ last_seq' = Position
          /\ pos' \in {srv + 1, MaxMsgs + 1}
          /\ UNCHANGED <<msgVars, unasked, toSend, hb, pending, event, pinged>>
       \/ /\ conns > 0 /\ mode = "full_buffer"
          /\ phase' = "replaying"
          /\ pos' = srv + 1
          /\ RingDrain /\ Remember
          /\ toSend' = result'.items
          /\ UNCHANGED <<enable_dedup, last_sequence_id, seen, last_seq, unasked, hb, pending,
                         event, pinged>>
    /\ UNCHANGED <<answered, beats, mode, echoed, early, resent, appVars, old, srv, orphaned>>

\* on_replay(last_seq) sends its request, for which it may have to wait, or
\* raises and is not called again.  A lost connection takes the request too.
AskReplay == /\ ToBeAsked
             /\ \/ ~paused /\ pos' = last_seq + 1 /\ UNCHANGED <<unasked, resent>>
                \/ /\ ~paused /\ ~lost
                   /\ pos' = last_seq
                   /\ resent' = resent \cup {last_seq}
                   /\ UNCHANGED unasked
                \/ pos' = srv + 1 /\ unasked' = TRUE /\ UNCHANGED resent
             /\ StartLoop
             /\ UNCHANGED <<msgVars, conns, lost, early, answered, beats, mode, toSend,
                            echoed, last_seq, paused, appVars, chan, old, srv, orphaned>>

\* Mutant of SendBack: a message that a lost connection does not take stays.
SendBackRetries == /\ phase = "replaying" /\ mode = "full_buffer"
                   /\ toSend # <<>> /\ ~paused /\ ~lost
                   /\ echoed' = Append(echoed, Head(toSend)) /\ toSend' = Tail(toSend)
                   /\ UNCHANGED <<msgVars, hbVars, connVars, beats, mode, unasked, last_seq,
                                  paused, resent, appVars, chan, old, srv, orphaned>>

\* One send() of full_buffer, which waits as long as writing is paused.  A lost
\* connection takes the message and says nothing; after a send() that raises the
\* others are dropped.
SendBack == /\ phase = "replaying" /\ mode = "full_buffer"
            /\ toSend # <<>>
            /\ \/ /\ ~paused
                  /\ echoed' = IF lost THEN echoed ELSE Append(echoed, Head(toSend))
                  /\ toSend' = Tail(toSend)
               \/ toSend' = <<>> /\ UNCHANGED echoed
            /\ UNCHANGED <<msgVars, hbVars, connVars, beats, mode, unasked, last_seq, paused,
                           resent, appVars, chan, old, srv, orphaned>>

SentBack == /\ phase = "replaying" /\ mode = "full_buffer"
            /\ toSend = <<>>
            /\ StartLoop
            /\ UNCHANGED <<msgVars, conns, lost, pos, early, answered, replayVars, appVars,
                           chan, old, srv, orphaned>>
-----------------------------------------------------------------------------
(***************************************************************************)
(* The message loop.                                                       *)
(***************************************************************************)
\* on_application_message() of an answer.  A PONG frame is read and skipped by
\* AsyncTransport.recv(): on_pong() is never called.
OnPong == /\ answered' = TRUE
          /\ IF PongMatcher /\ pending THEN pending' = FALSE /\ event' = TRUE
             ELSE UNCHANGED <<pending, event>>

\* _track_received_message(): what the buffer says of it, a duplicate or an
\* overflow, is ignored.  buffer_overflow reports what was dropped since.
TrackReceived(m) == /\ \/ MsgPush(m, m) /\ UNCHANGED unnumbered
                       \/ PushUnnumbered(m) /\ unnumbered' = TRUE
                    /\ reported' = total_dropped'

\* Mutant of Handle: an exception of push() is not suppressed.
HandleRaises(m) ==
    IF m = 0 THEN OnPong /\ UNCHANGED <<msgVars, reported, unnumbered, queue>>
    ELSE /\ TrackReceived(m)
         /\ queue' = IF result'.kind = "overflow" THEN queue ELSE Append(queue, m)
         /\ UNCHANGED <<pending, event, answered>>

\* One frame of the loop, with a well-formed message.
Handle(m) ==
    IF m = 0 THEN OnPong /\ UNCHANGED <<msgVars, reported, unnumbered, queue>>
    ELSE /\ TrackReceived(m)
         /\ queue' = Append(queue, m)
         /\ UNCHANGED <<pending, event, answered>>

Receive == /\ phase = "running"
           /\ chan # <<>>
           /\ Handle(Head(chan))
           /\ chan' = Tail(chan)
           /\ UNCHANGED <<hb, pinged, connVars, replayVars, got, old, srv, orphaned>>

\* The loop of a connection the heartbeat gave up reads one more frame of it,
\* and then goes on with the connection that has taken its place, if any.
ReceiveOld == \E late \in old :
    /\ late[2] <= srv
    /\ Handle(late[2])
    /\ old' = old \ {late}
    /\ UNCHANGED <<hb, pinged, connVars, replayVars, got, chan, srv, orphaned>>

\* _handle_disconnect(): the heartbeat is stopped and reset.
Disconnect == /\ phase' = "down"
              /\ hb' = "off"
              /\ pending' = FALSE /\ event' = FALSE
              /\ pinged' = FALSE /\ answered' = FALSE

Notice == /\ phase = "running"
          /\ lost /\ chan = <<>>
          /\ Disconnect
          /\ UNCHANGED <<msgVars, conns, lost, pos, early, replayVars, appVars, chan,
                         old, srv, orphaned>>

\* recv() or __anext__(); with an empty queue they wait.
Recv == /\ queue # <<>>
        /\ got' = Append(got, Head(queue))
        /\ queue' = Tail(queue)
        /\ UNCHANGED <<msgVars, hbVars, connVars, replayVars, reported, unnumbered, chan, old,
                       srv, orphaned>>
-----------------------------------------------------------------------------
(***************************************************************************)
(* The heartbeat.                                                          *)
(***************************************************************************)
\* Mutant of Ping: the event of the last cycle stays set.
PingStale == /\ hb = "interval"
             /\ hb' = "pong"
             /\ pending' = TRUE
             /\ pinged' = TRUE /\ answered' = FALSE
             /\ UNCHANGED <<event, msgVars, connVars, replayVars, appVars, chan, old, srv,
                            orphaned>>

Ping == /\ hb = "interval"
        /\ hb' = "pong"
        /\ event' = FALSE /\ pending' = TRUE
        /\ pinged' = TRUE /\ answered' = FALSE
        /\ UNCHANGED <<msgVars, connVars, replayVars, appVars, chan, old, srv, orphaned>>

PongSeen == /\ hb = "pong" /\ event
            /\ hb' = "interval"
            /\ UNCHANGED <<pending, event, pinged, answered, msgVars, connVars, replayVars,
                           appVars, chan, old, srv, orphaned>>

\* What the loop may yet read from the connection: what is on its way, or else
\* what the server says next.
NextFrames == IF chan # <<>> THEN {Head(chan)}
              ELSE {m \in {pos} : ~lost /\ m <= MaxMsgs} \cup {m \in {0} : ~lost /\ pinged}

\* The connection is given up as it is, with its loop waiting for a frame.
HeartbeatTimesOut == /\ hb = "pong" /\ ~event
                     /\ Disconnect
                     /\ \/ old' = old
                        \/ \E m \in NextFrames : old' = old \cup {<<conns, m>>}
                     /\ orphaned' = TRUE
                     /\ chan' = <<>>
                     /\ UNCHANGED <<msgVars, conns, lost, pos, early, replayVars,
                                    appVars, srv>>

SessionNext == \/ Produce \/ Transmit \/ Answer \/ Lose \/ Pause \/ Resume
               \/ Connected \/ AskReplay \/ SendBack \/ SentBack
               \/ Receive \/ ReceiveOld \/ Notice \/ Recv
               \/ Ping \/ PongSeen \/ HeartbeatTimesOut

\* The loops run and timeouts pass.  A send() ends if writing is not paused, or
\* resumed again and again: a waiting send() is woken by the first resume, also
\* when the next pause comes at once.  Nothing makes the server read.
SessionFairness == /\ SF_vars(~paused /\ AskReplay) /\ SF_vars(~paused /\ SendBack)
                   /\ WF_vars(SentBack)
                   /\ WF_vars(Receive) /\ WF_vars(Notice) /\ WF_vars(Recv)
                   /\ WF_vars(PongSeen) /\ WF_vars(HeartbeatTimesOut)

SessionSpec == SessionInit /\ [][SessionNext]_vars /\ SessionFairness
-----------------------------------------------------------------------------
Application == got \o queue

\* A connection on which the server spoke before it was asked came to its end:
\* what its replay was still to bring is lost.
Interrupted == \E c \in early : c < conns \/ lost \/ phase = "down"

\* What the running connection is still to bring to the loop.
ToCome == ToSet(chan) \cup pos .. srv

\* The id that a replay starts from never passes a message the application was
\* not given: whatever the buffer dropped, refused or raised, what it misses is
\* asked for again, as long as each replay could be asked for.  A server that
\* speaks before it is asked moves the id past what it has yet to replay; then
\* the connection at least brings it, if nothing interrupts it.
ReplayMissesNothing == mode = "sequence_id" /\ ~unasked /\ ~Interrupted =>
    1 .. Position \subseteq
        ToSet(Application) \cup (IF conns \in early THEN ToCome ELSE {})

\* A replay never takes the application back: over all connections it gets the
\* messages in order, and again only one that a replay started from and that the
\* server sent again, as long as every message has a sequence id and the server
\* waits to be asked.  (A connection that the heartbeat gave up may still
\* deliver a message late.)
AppInOrder == ~unnumbered /\ ~orphaned /\ early = {} =>
    \A i, j \in DOMAIN Application : i < j =>
        \/ Application[i] < Application[j]
        \/ Application[i] = Application[j] /\ Application[i] \in resent

Increasing(s) == \A i, j \in DOMAIN s : i < j => s[i] < s[j]

\* full_buffer sends each message back at most once and in order, over all
\* reconnections, and only messages that the application was given.
EchoedOnce == /\ ToSet(echoed) \subseteq ToSet(Application)
              /\ ~orphaned => Increasing(echoed)

\* The verdict of a heartbeat cycle is right: the connection is given up only if
\* no answer to the ping was read from it, and is found alive only by an answer
\* that was read after that ping.
VerdictIsRight == [][/\ HeartbeatTimesOut => ~answered
                     /\ PongSeen => answered]_vars

\* A reconnection gets past its replay, also when the connection is lost again,
\* unless it waits for a server that never makes room: a connection lost while
\* writing is paused leaves it waiting for ever.
ReplayEnds == (phase = "replaying") ~> (phase # "replaying" \/ []paused)
=============================================================================
