----------------------------- MODULE Transport ------------------------------
(***************************************************************************)
(* One AsyncTransport and its _WSProtocol (transport/_async.py): dialling, *)
(* the opening handshake, frames from data_received() to recv(), close()   *)
(* that competes with recv() for them, and senders held back by            *)
(* pause_writing().  read_timeout is None, as by default.                  *)
(*                                                                         *)
(* A frame is <<opcode, n>>, n numbering the data frames; what arrives     *)
(* arrives in chunks of any size.  recv() and close() clear _frame_ready   *)
(* before they wait for it, so all that matters of that event is whom it   *)
(* has woken.  A task woken by a callback runs before the next read of the *)
(* socket, except close(), which waits in a task of its own (wait_for).    *)
(***************************************************************************)
EXTENDS Naturals, Sequences, SequencesExt, Filters

CONSTANTS Senders,    \* tasks that call send() or send_frame()
          MaxAddrs,   \* bound: addresses a name resolves to
          MaxFrames   \* bound: frames the server sends

ASSUME BoundsAssumption == MaxAddrs \in Nat /\ MaxFrames \in Nat

VARIABLES
    cpc, left,        \* connect(): where it is, and the addresses it has left
    net, nsent, sent, \* in flight, how many the server sent, how many data frames
    hsbuf,            \* _handshake_buffer, from the response on
    sock,             \* the socket; "closing": transport.close() was called
    tr,               \* _asyncio_transport (and _protocol, _parser) is not None
    connected,        \* _connected
    closing,          \* _closing
    frames,           \* _frames
    lost,             \* _connection_lost
    rpc, got,         \* the task that calls recv(), and the data it was given
    kpc,              \* the task that calls close()
    closes,           \* close frames written
    can_write, spc    \* _can_write, and the senders

connVars == <<cpc, left, hsbuf>>
netVars == <<net, nsent, sent>>
sockVars == <<sock, tr, lost>>
flagVars == <<connected, closing, closes>>
readVars == <<frames, rpc, got>>
sendVars == <<can_write, spc>>
vars == <<connVars, netVars, sockVars, flagVars, readVars, kpc, sendVars>>

Dialling == {"dns", "tcp", "made", "hs", "answered", "hslost"}

TransportInit == /\ cpc = "new" /\ left = 0 /\ hsbuf = <<>>
                 /\ net = <<>> /\ nsent = 0 /\ sent = 0
                 /\ sock = "none" /\ tr = FALSE /\ lost = FALSE
                 /\ connected = FALSE /\ closing = FALSE /\ closes = 0
                 /\ frames = <<>> /\ rpc = "idle" /\ got = <<>>
                 /\ kpc = "idle"
                 /\ can_write = TRUE /\ spc = [s \in Senders |-> "idle"]

\* _close_transport()
CloseTransport == /\ sock' = IF tr /\ sock = "open" THEN "closing" ELSE sock
                  /\ tr' = FALSE

\* _frame_ready.set()
Wake == /\ rpc' = IF rpc = "wait" THEN "woken" ELSE rpc
        /\ kpc' = IF kpc = "wait" THEN "woken" ELSE kpc
-----------------------------------------------------------------------------
(***************************************************************************)
(* connect().                                                              *)
(***************************************************************************)
Connect == /\ cpc = "new"
           /\ cpc' = "dns"
           /\ UNCHANGED <<left, hsbuf, netVars, sockVars, flagVars, readVars, kpc, sendVars>>

Resolve == /\ cpc = "dns"
           /\ \/ cpc' = "failed" /\ UNCHANGED left      \* no address, or timeout
              \/ cpc' = "tcp" /\ left' \in 1 .. MaxAddrs
           /\ UNCHANGED <<hsbuf, netVars, sockVars, flagVars, readVars, kpc, sendVars>>

\* An OSError leads to the next address; a timeout is no OSError and ends it.
DialFails == /\ cpc = "tcp"
             /\ \/ cpc' = "failed" /\ UNCHANGED left
                \/ left > 1 /\ left' = left - 1 /\ UNCHANGED cpc
             /\ UNCHANGED <<hsbuf, netVars, sockVars, flagVars, readVars, kpc, sendVars>>

ConnectionMade == /\ cpc = "tcp"
                  /\ cpc' = "made"
                  /\ sock' = "open"
                  /\ UNCHANGED <<left, hsbuf, netVars, tr, lost, flagVars, readVars, kpc,
                                 sendVars>>

\* _perform_handshake() sends the request.  A connection lost before the future
\* exists is noticed by the timeout only.
StartHandshake == /\ cpc = "made"
                  /\ cpc' = "hs"
                  /\ tr' = TRUE
                  /\ UNCHANGED <<left, hsbuf, netVars, sock, lost, flagVars, readVars, kpc,
                                 sendVars>>

HandshakeFails == /\ \/ cpc \in {"hs", "hslost"}        \* timeout, connection lost
                     \/ cpc = "answered" /\ Head(hsbuf)[1] = "refusal"
                  /\ cpc' = "failed"
                  /\ CloseTransport
                  /\ UNCHANGED <<left, hsbuf, netVars, lost, flagVars, readVars, kpc,
                                 sendVars>>

\* data_received() once the handshake is done: a frame that the parser rejects
\* takes with it the frames parsed from the same chunk.
DataFrames(chunk) == Filter(chunk, {"data", "pong", "close"} \X Nat)
Rejected(chunk) == \E i \in DOMAIN chunk : chunk[i][1] = "bad"

\* Mutant of HandshakeDone: what came with the response is thrown away.
HandshakeDoneDrops == /\ cpc = "answered"
                      /\ Head(hsbuf)[1] = "response"
                      /\ cpc' = "open"
                      /\ hsbuf' = <<>>
                      /\ connected' = TRUE
                      /\ UNCHANGED <<left, netVars, tr, lost, closing, closes, rpc, got, kpc,
                                     frames, sock, sendVars>>

\* The frames that came behind the response are parsed; if they are rejected the
\* socket is closed and connect() succeeds all the same.
HandshakeDone ==
    LET chunk == Tail(hsbuf) IN
    /\ cpc = "answered"
    /\ Head(hsbuf)[1] = "response"
    /\ cpc' = "open"
    /\ hsbuf' = <<>>
    /\ IF Rejected(chunk)
       THEN sock' = (IF sock = "open" THEN "closing" ELSE sock) /\ UNCHANGED frames
       ELSE frames' = DataFrames(chunk) /\ UNCHANGED sock
    /\ connected' = TRUE
    /\ UNCHANGED <<left, netVars, tr, lost, closing, closes, rpc, got, kpc, sendVars>>

\* A cancelled connect() does not close the socket it was shaking hands on.
ConnectCancelled == /\ cpc \in {"dns", "tcp", "hs", "answered"}
                    /\ cpc' = "cancelled"
                    /\ UNCHANGED <<left, hsbuf, netVars, sockVars, flagVars, readVars, kpc,
                                   sendVars>>
-----------------------------------------------------------------------------
(***************************************************************************)
(* The server and the callbacks of the protocol.                           *)
(***************************************************************************)
ServerSends == /\ sock = "open"
               /\ nsent < MaxFrames
               /\ nsent' = nsent + 1
               /\ \E op \in IF nsent = 0 THEN {"response", "refusal"}
                            ELSE {"data", "ping", "pong", "close", "bad"} :
                    /\ cpc = "hs" \/ nsent > 0
                    /\ sent' = IF op = "data" THEN sent + 1 ELSE sent
                    /\ net' = Append(net, <<op, sent'>>)
               /\ UNCHANGED <<connVars, sockVars, flagVars, readVars, kpc, sendVars>>

\* A chunk of n frames reaches data_received().
DataReceived(n) ==
    LET chunk == SubSeq(net, 1, n) IN
    /\ sock = "open"
    /\ n <= Len(net)
    /\ rpc # "woken"
    /\ net' = SubSeq(net, n + 1, Len(net))
    /\ \/ /\ cpc # "open"
          /\ hsbuf' = hsbuf \o chunk
          /\ cpc' = IF cpc = "hs" THEN "answered" ELSE cpc
          /\ UNCHANGED <<sock, frames, rpc, kpc>>
       \/ /\ cpc = "open" /\ Rejected(chunk)
          /\ sock' = "closing"
          /\ UNCHANGED <<connVars, frames, rpc, kpc>>
       \/ /\ cpc = "open" /\ ~Rejected(chunk)
          /\ frames' = frames \o DataFrames(chunk)
          /\ IF DataFrames(chunk) = <<>> THEN UNCHANGED <<rpc, kpc>> ELSE Wake
          /\ UNCHANGED <<connVars, sock>>
    /\ UNCHANGED <<left, nsent, sent, tr, lost, flagVars, got, sendVars>>

\* Mutant of ConnectionLost: the event is not set.
ConnectionLostSilent == /\ sock \in {"open", "closing"}
                        /\ rpc # "woken"
                        /\ sock' = "gone"
                        /\ lost' = TRUE
                        /\ cpc' = IF cpc = "hs" THEN "hslost" ELSE cpc
                        /\ UNCHANGED <<left, hsbuf, netVars, tr, flagVars, frames, got,
                                       rpc, kpc, sendVars>>

\* The peer ends the connection, or ours is closed at last.  The senders that
\* wait to write are not woken.
ConnectionLost == /\ sock \in {"open", "closing"}
                  /\ rpc # "woken"
                  /\ sock' = "gone"
                  /\ lost' = TRUE
                  /\ Wake
                  /\ cpc' = IF cpc = "hs" THEN "hslost" ELSE cpc
                  /\ UNCHANGED <<left, hsbuf, netVars, tr, flagVars, frames, got, sendVars>>
-----------------------------------------------------------------------------
(***************************************************************************)
(* recv().                                                                 *)
(***************************************************************************)
\* The frame that recv() acts on: it passes over pongs.
First == SelectInSeq(frames, LAMBDA f : f[1] # "pong")

\* Mutant of CloseFrameTaken: the close frame is echoed in any case.
CloseFrameTakenEchoes == /\ closing' = TRUE
                         /\ closes' = closes + 1
                         /\ connected' = FALSE
                         /\ CloseTransport
                         /\ rpc' = "idle"
                         /\ UNCHANGED got

\* recv() takes a close frame, echoes it unless close() has sent one, and raises.
CloseFrameTaken == /\ closing' = TRUE
                   /\ closes' = IF ~closing /\ tr THEN closes + 1 ELSE closes
                   /\ connected' = FALSE
                   /\ CloseTransport
                   /\ rpc' = "idle"
                   /\ UNCHANGED got

\* The loop of recv(), up to its end or to the next wait; whether the connection
\* is lost is not asked before it waits.
ReceiveLoop ==
    \/ /\ First = 0
       /\ frames' = <<>>
       /\ rpc' = "wait"
       /\ UNCHANGED <<got, flagVars, sock, tr>>
    \/ /\ First # 0
       /\ frames' = SubSeq(frames, First + 1, Len(frames))
       /\ IF frames[First][1] = "close" THEN CloseFrameTaken
          ELSE /\ got' = Append(got, frames[First][2])
               /\ rpc' = "idle"
               /\ UNCHANGED <<flagVars, sock, tr>>

Recv == /\ rpc = "idle"
        /\ connected
        /\ ReceiveLoop
        /\ UNCHANGED <<connVars, netVars, lost, kpc, sendVars>>

RecvResumes == /\ rpc = "woken"
               /\ IF lost /\ frames = <<>>
                  THEN /\ connected' = FALSE
                       /\ rpc' = "idle"
                       /\ UNCHANGED <<closing, closes, sock, tr, frames, got>>
                  ELSE ReceiveLoop
               /\ UNCHANGED <<connVars, netVars, lost, kpc, sendVars>>

\* The task in recv() is cancelled; no frame has left the list yet.
RecvCancelled == /\ rpc \in {"wait", "woken"}
                 /\ rpc' = "idle"
                 /\ UNCHANGED <<connVars, netVars, sockVars, flagVars, frames, got, kpc,
                                sendVars>>
-----------------------------------------------------------------------------
(***************************************************************************)
(* close() and _wait_for_close().                                          *)
(***************************************************************************)
\* A call before connect() has ended returns at once and changes nothing.
Close == /\ kpc = "idle"
         /\ cpc \in {"open", "failed", "cancelled"}
         /\ IF ~connected \/ closing
            THEN kpc' = "done" /\ UNCHANGED <<closing, closes>>
            ELSE /\ closing' = TRUE
                 /\ closes' = closes + 1
                 /\ kpc' = "wait"
         /\ UNCHANGED <<connVars, netVars, sockVars, connected, readVars, sendVars>>

CloseFinishes == /\ connected' = FALSE
                 /\ CloseTransport
                 /\ kpc' = "done"

\* Frames up to a close frame are thrown away.
CloseResumes ==
    LET at == SelectInSeq(frames, LAMBDA f : f[1] = "close") IN
    /\ kpc = "woken"
    /\ frames' = IF at = 0 THEN <<>> ELSE SubSeq(frames, at + 1, Len(frames))
    /\ IF at # 0 \/ lost \/ ~connected THEN CloseFinishes
       ELSE kpc' = "wait" /\ UNCHANGED <<connected, sock, tr>>
    /\ UNCHANGED <<connVars, netVars, lost, closing, closes, rpc, got, sendVars>>

\* Mutant of CloseTimesOut: the wait for the server has no timeout.
CloseTimesOutNever == FALSE /\ UNCHANGED vars

\* One second without a frame, or five in all.
CloseTimesOut == /\ kpc = "wait"
                 /\ CloseFinishes
                 /\ UNCHANGED <<connVars, netVars, lost, closing, closes, readVars, sendVars>>
-----------------------------------------------------------------------------
(***************************************************************************)
(* send(), send_frame(), and backpressure: write() may fill the buffer.    *)
(***************************************************************************)
Write(s) == /\ can_write' \in {FALSE, can_write}
            /\ spc' = [spc EXCEPT ![s] = "idle"]

Send(s) == /\ spc[s] = "idle"
           /\ connected
           /\ \/ can_write /\ Write(s)
              \/ ~can_write /\ spc' = [spc EXCEPT ![s] = "blocked"] /\ UNCHANGED can_write
           /\ UNCHANGED <<connVars, netVars, sockVars, flagVars, readVars, kpc>>

\* Mutant of ResumeWriting: one sender is woken, not all.
ResumeWritingOne == /\ ~can_write
                    /\ sock \in {"open", "closing"}
                    /\ can_write' = TRUE
                    /\ \E s \in Senders : spc' = [spc EXCEPT ![s] = IF @ = "blocked"
                                                                    THEN "woken" ELSE @]
                    /\ UNCHANGED <<connVars, netVars, sockVars, flagVars, readVars, kpc>>

ResumeWriting == /\ ~can_write
                 /\ sock \in {"open", "closing"}
                 /\ can_write' = TRUE
                 /\ spc' = [s \in Senders |-> IF spc[s] = "blocked" THEN "woken" ELSE spc[s]]
                 /\ UNCHANGED <<connVars, netVars, sockVars, flagVars, readVars, kpc>>

\* A sender that was woken writes even if the buffer is full again; where the
\* transport was dropped meanwhile it fails with AttributeError.
SendResumes(s) == /\ spc[s] = "woken"
                  /\ IF tr THEN Write(s)
                     ELSE spc' = [spc EXCEPT ![s] = "idle"] /\ UNCHANGED can_write
                  /\ UNCHANGED <<connVars, netVars, sockVars, flagVars, readVars, kpc>>

\* ping() writes at once, however full the buffer is.
SendPing == /\ connected /\ tr
            /\ can_write' \in {FALSE, can_write}
            /\ UNCHANGED <<connVars, netVars, sockVars, flagVars, readVars, kpc, spc>>

ConnectNext == \/ Connect \/ Resolve \/ DialFails \/ ConnectionMade \/ StartHandshake
               \/ HandshakeFails \/ HandshakeDone \/ ConnectCancelled

PeerNext == \/ ServerSends \/ ConnectionLost \/ ResumeWriting
            \/ \E n \in 1 .. MaxFrames : DataReceived(n)

CallNext == \/ Recv \/ RecvResumes \/ RecvCancelled
            \/ Close \/ CloseResumes \/ CloseTimesOut
            \/ \E s \in Senders : Send(s) \/ SendResumes(s)
            \/ SendPing

TransportNext == ConnectNext \/ PeerNext \/ CallNext

\* Every wait of connect() and close() has a timeout; a socket that was closed is
\* reported lost; what was written is acknowledged or the connection breaks.
TransportFairness == /\ WF_vars(Resolve) /\ WF_vars(DialFails) /\ WF_vars(StartHandshake)
                     /\ WF_vars(HandshakeFails) /\ WF_vars(HandshakeDone)
                     /\ WF_vars(RecvResumes) /\ WF_vars(CloseResumes)
                     /\ WF_vars(CloseTimesOut)
                     /\ WF_vars(sock = "closing" /\ ConnectionLost)
                     /\ WF_vars(ResumeWriting \/ (~can_write /\ ConnectionLost))

TransportSpec == TransportInit /\ [][TransportNext]_vars /\ TransportFairness
-----------------------------------------------------------------------------
\* Data frames reach recv() in the order sent, whatever chunks they came in and
\* whether they came with the handshake; while nobody closes and nothing is
\* rejected, each one is delivered or still under way.
Numbers(s) == [i \in DOMAIN s |-> s[i][2]]
Data(s) == Numbers(Filter(s, {"data"} \X Nat))
InOrder == /\ \A i, j \in DOMAIN got : i < j => got[i] < got[j]
           /\ (cpc \in Dialling \cup {"open"} /\ ~closing /\ sock # "closing" /\ ~lost) =>
                  got \o Data(frames) \o Data(hsbuf) \o Data(net) = [i \in 1 .. sent |-> i]

\* recv() and close() together write at most one close frame.
OneCloseFrame == closes <= 1

\* connect() and close() end, in every phase and whether the server answers,
\* keeps sending or is gone; a connect() that fails leaves no socket open.
TransportCallsEnd ==
    /\ (cpc \in Dialling) ~> \/ cpc \in {"open", "cancelled"}
                             \/ cpc = "failed" /\ sock # "open"
    /\ (kpc \in {"wait", "woken"}) ~> (kpc = "done")

\* A recv() that waits when the socket is closed on our side does not wait for
\* ever, even where close() takes its frames.
WaitingReaderReturns == (rpc = "wait" /\ sock = "closing") ~> (rpc # "wait")

\* A sender is held back only as long as the buffer is full: unless the
\* connection is lost, in which case it waits for ever.
BlockedSenderGoesOn == \A s \in Senders : (spc[s] = "blocked") ~> (spc[s] # "blocked" \/ lost)
=============================================================================
