--------------------------- MODULE SyncTransport ---------------------------
(***************************************************************************)
(* SyncTransport (transport/_sync.py) over the parser: the thread that     *)
(* connects, receives and closes, and a thread that sends meanwhile.  The  *)
(* selector is shared: while the sender waits to write, it reports that    *)
(* the socket is writable to whoever waits to read.  read_timeout and      *)
(* write_timeout are None unless configured, and the timeouts of connect() *)
(* and close() start anew with each chunk: no step here has to happen.     *)
(*                                                                         *)
(* The i-th frame of the server has a payload of i's.  A byte over 127     *)
(* stands for one that is not valid in UTF-8.                              *)
(***************************************************************************)
EXTENDS FrameParser, Filters, SequencesExt

CONSTANTS DataLens, ControlLens, SendLens,  \* lengths of payloads: the server's, send()'s
          GarbledLens,                      \* those of a close frame with a garbled reason
          MaxFrames, MaxSends               \* bounds: frames of the server, calls of send()

\* A length has Wide bytes, the server takes the frames that the client takes,
\* the code of a close frame is among them, and no echo outgrows Wide bytes.
ASSUME LengthsAssumption ==
    /\ DataLens \cup ControlLens \cup GarbledLens \subseteq 0 .. Power(Wide) - 1
    /\ SendLens \subseteq 0 .. MaxFrame
    /\ 2 \in 0 .. Inline \cap 0 .. MaxFrame
    /\ 3 * Inline < Power(Wide)
ASSUME BoundsAssumption == MaxFrames \in 0 .. 127 /\ MaxSends \in Nat

VARIABLES
    connected, closing,  \* _connected, _closing
    sock,                \* _socket, _selector and _parser are there
    buffer,              \* _parser._buffer
    pending,             \* _pending_frames
    opc, wpc,            \* where the owner and the sender are
    todo,                \* recv(): the answers it has still to write
    sends,               \* calls of send()
    wire,                \* bytes on their way to the client
    out,                 \* bytes written to the server
    served, sent, got,   \* history: frames of the server, frames written, frames received
    torn,                \* history: a write stopped inside a frame
    skipped,             \* history: bytes came with the handshake's answer
    broken               \* history: feed() has raised

peerVars == <<wire, served>>
outVars == <<out, sent, torn>>
vars == <<connected, closing, sock, buffer, pending, opc, wpc, todo, sends, got, skipped,
          broken, peerVars, outVars>>

Frames(ops) == [op : ops, fin : BOOLEAN, payload : Seq(Byte)]
DataOf(frames) == Filter(frames, Frames(0 .. 7))

\* The frames one after the other on the wire.
Bytes(frames, masked) ==
    LET upto[i \in 0 .. Len(frames)] ==
            IF i = 0 THEN <<>> ELSE upto[i - 1] \o Encode(frames[i], masked)
    IN upto[Len(frames)]

\* The i-th frame of the server; opcode 11 is reserved.  recv() ignores a PONG,
\* which is left out.
ServerFrames(i) ==
    LET payload(n) == [j \in 1 .. n |-> i]
        garbled(n) == [j \in 1 .. n |-> IF j <= 2 THEN i ELSE 255]
    IN [op : {TEXT}, fin : {TRUE}, payload : {payload(n) : n \in DataLens}]
       \cup [op : {CLOSE, PING, 11}, fin : {TRUE}, payload : {payload(n) : n \in ControlLens}]
       \cup [op : {CLOSE}, fin : {TRUE}, payload : {garbled(n) : n \in GarbledLens}]

\* The server says up to MaxFrames frames; when their bytes arrive is up to the
\* actions that read them.
Init == /\ connected = FALSE /\ closing = FALSE /\ sock = FALSE
        /\ buffer = <<>> /\ pending = <<>>
        /\ opc = "idle" /\ wpc = "idle" /\ todo = <<>> /\ sends = 0
        /\ out = <<>> /\ sent = <<>> /\ got = <<>>
        /\ torn = FALSE /\ skipped = FALSE /\ broken = FALSE
        /\ \E n \in 0 .. MaxFrames :
              served \in {s \in [1 .. n -> UNION {ServerFrames(i) : i \in 1 .. n}] :
                             \A i \in 1 .. n : s[i] \in ServerFrames(i)}
        /\ wire = Bytes(served, FALSE)
-----------------------------------------------------------------------------
\* _send_all() under the write lock, when it ends: the frame is written, or the
\* write fails before it or inside it.
Write(f) == \/ /\ out' = out \o Encode(f, TRUE)
               /\ sent' = Append(sent, f)
               /\ UNCHANGED torn
            \/ UNCHANGED outVars
            \/ /\ out' = Append(out, Head(Encode(f, TRUE)))
               /\ torn' = TRUE
               /\ UNCHANGED sent
-----------------------------------------------------------------------------
(***************************************************************************)
(* connect() and close().                                                  *)
(***************************************************************************)
Connect == /\ opc = "idle"
           /\ ~connected /\ ~sock /\ ~closing
           /\ opc' = "handshake"
           /\ UNCHANGED <<connected, closing, sock, buffer, pending, wpc, todo, sends, got,
                          skipped, broken, peerVars, outVars>>

\* Refused, timed out or a bad answer: the socket is closed again.
ConnectFails == /\ opc = "handshake"
                /\ opc' = "idle"
                /\ UNCHANGED <<connected, closing, sock, buffer, pending, wpc, todo, sends,
                               got, skipped, broken, peerVars, outVars>>

\* The bytes that came in the same chunk as the end of the answer are dropped.
ConnectDone == /\ opc = "handshake"
               /\ \E n \in 0 .. Len(wire) : /\ wire' = SubSeq(wire, n + 1, Len(wire))
                                            /\ skipped' = (n > 0)
               /\ sock' = TRUE
               /\ connected' = TRUE
               /\ opc' = "idle"
               /\ UNCHANGED <<closing, buffer, pending, wpc, todo, sends, got, broken, served,
                              outVars>>

\* Mutant of CloseSocket: only the flags are reset.
CloseSocketLeaves == /\ connected' = FALSE
                     /\ buffer' = <<>> /\ wire' = <<>>
                     /\ UNCHANGED sock

\* _connected = False and _close_socket(); what was on its way is gone with it.
CloseSocket == /\ connected' = FALSE
               /\ sock' = FALSE
               /\ buffer' = <<>> /\ wire' = <<>>

Close == /\ opc = "idle"
         /\ connected /\ ~closing
         /\ closing' = TRUE
         /\ opc' = "closing"
         /\ UNCHANGED <<connected, sock, buffer, pending, wpc, todo, sends, got, skipped, broken,
                        peerVars, outVars>>

\* close() has written its frame, which may take for ever, and waits for the
\* server's if that worked.
CloseWrites == /\ opc = "closing"
               /\ wpc = "idle"
               /\ Write([op |-> CLOSE, fin |-> TRUE, payload |-> <<3, 232>>])
               /\ IF sent' # sent THEN opc' = "wait" /\ UNCHANGED <<connected, sock, buffer, wire>>
                  ELSE CloseSocket /\ opc' = "idle"
               /\ UNCHANGED <<closing, pending, wpc, todo, sends, got, skipped, broken, served>>

\* _wait_for_close() reads on and drops everything but a close frame.
WaitForClose == /\ opc = "wait"
                /\ \E n \in 1 .. Len(wire) :
                      LET fed == Feed(buffer \o SubSeq(wire, 1, n))
                          ends == ~fed.ok \/ \E i \in DOMAIN fed.frames : fed.frames[i].op = CLOSE
                      IN IF ends THEN CloseSocket /\ opc' = "idle"
                         ELSE /\ buffer' = fed.rest
                              /\ wire' = SubSeq(wire, n + 1, Len(wire))
                              /\ UNCHANGED <<connected, sock, opc>>
                /\ UNCHANGED <<closing, pending, wpc, todo, sends, got, skipped, broken, served,
                               outVars>>

\* It gives up after five seconds without a byte, or at the end of the stream.
WaitEnds == /\ opc = "wait"
            /\ CloseSocket
            /\ opc' = "idle"
            /\ UNCHANGED <<closing, pending, wpc, todo, sends, got, skipped, broken, served,
                           outVars>>
-----------------------------------------------------------------------------
(***************************************************************************)
(* recv().                                                                 *)
(***************************************************************************)
Recv == /\ opc = "idle"
        /\ connected
        /\ IF pending # <<>>
           THEN got' = Append(got, Head(pending)) /\ pending' = Tail(pending) /\ UNCHANGED opc
           ELSE opc' = "recv" /\ UNCHANGED <<got, pending>>
        /\ UNCHANGED <<connected, closing, sock, buffer, wpc, todo, sends, skipped, broken,
                       peerVars, outVars>>

\* decode("utf-8", errors="replace") and encode("utf-8"): three bytes come out
\* for each one that is not valid.
Reencoded(s) == LET upto[i \in 0 .. Len(s)] ==
                        IF i = 0 THEN <<>>
                        ELSE upto[i - 1] \o (IF s[i] < 128 THEN <<s[i]>> ELSE <<239, 191, 189>>)
                IN upto[Len(s)]

\* The echo of a close frame; without a code, or with 0, it has NO_STATUS, 1005.
Echo(f) == LET code == IF Len(f.payload) < 2 \/ SubSeq(f.payload, 1, 2) = <<0, 0>>
                       THEN <<3, 237>> ELSE SubSeq(f.payload, 1, 2)
           IN [f EXCEPT !.payload = code \o Reencoded(SubSeq(@, 3, Len(@)))]

\* What recv() writes: a pong for each ping before a close frame, and its echo;
\* after it there is no parser to encode an answer with.
Answers(frames) ==
    LET last == {i \in DOMAIN frames : /\ frames[i].op = CLOSE
                                       /\ \A j \in 1 .. i - 1 : frames[j].op # CLOSE}
        heard == IF last = {} THEN frames
                 ELSE SubSeq(frames, 1, CHOOSE i \in last : TRUE)
        answer(f) == IF f.op = PING THEN [f EXCEPT !.op = PONG] ELSE Echo(f)
        answered == Filter(heard, Frames({PING, CLOSE}))
    IN [i \in DOMAIN answered |-> answer(answered[i])]

\* A chunk is read and fed to the parser.  An error leaves the transport
\* connected.  The data frames are kept, and the others answered.
RecvChunk ==
    /\ opc = "recv"
    /\ \E n \in 1 .. Len(wire) :
          LET fed == Feed(buffer \o SubSeq(wire, 1, n))
              frames == IF fed.ok THEN fed.frames ELSE <<>>
          IN /\ broken' = (broken \/ ~fed.ok)
             /\ todo' = Answers(frames)
             /\ pending' = pending \o DataOf(frames)
             /\ buffer' = fed.rest
             /\ wire' = SubSeq(wire, n + 1, Len(wire))
             /\ opc' = IF fed.ok THEN "answer" ELSE "idle"
    /\ UNCHANGED <<connected, closing, sock, wpc, sends, got, skipped, served, outVars>>

\* One answer; when it cannot be written, recv() goes on with the next.
Answer == /\ opc = "answer"
          /\ todo # <<>>
          /\ wpc = "idle"
          /\ Write(Head(todo))
          /\ todo' = Tail(todo)
          /\ closing' = (closing \/ Head(todo).op = CLOSE)
          /\ UNCHANGED <<connected, sock, buffer, pending, opc, wpc, sends, got, skipped, broken,
                         peerVars>>

\* All are answered, and a close frame has closed the socket.  The first data
\* frame is returned; without one recv() reads on, or raises after a close frame.
Answered == /\ opc = "answer"
            /\ todo = <<>>
            /\ IF closing THEN CloseSocket ELSE UNCHANGED <<connected, sock, buffer, wire>>
            /\ IF pending = <<>> THEN UNCHANGED <<got, pending>>
               ELSE got' = Append(got, Head(pending)) /\ pending' = Tail(pending)
            /\ opc' = IF pending # <<>> \/ closing THEN "idle" ELSE "recv"
            /\ UNCHANGED <<closing, wpc, todo, sends, skipped, broken, served, outVars>>

\* "Connection closed by remote": the stream ends, or the selector reports that
\* the socket is writable, as the sender asked, and there is nothing to read.
\* The socket stays open, for close() returns at once now.
RecvEnds == /\ opc = "recv"
            /\ connected' = FALSE
            /\ opc' = "idle"
            /\ UNCHANGED <<closing, sock, buffer, pending, wpc, todo, sends, got, skipped, broken,
                           peerVars, outVars>>

\* The read times out, or the socket reports an error.
RecvTimesOut == /\ opc = "recv"
                /\ opc' = "idle"
                /\ UNCHANGED <<connected, closing, sock, buffer, pending, wpc, todo, sends,
                               got, skipped, broken, peerVars, outVars>>
-----------------------------------------------------------------------------
(***************************************************************************)
(* The other thread: send() or ping(), under the write lock.               *)
(***************************************************************************)
Send == /\ wpc = "idle"
        /\ connected /\ sock
        /\ sends < MaxSends
        /\ sends' = sends + 1
        /\ wpc' = "writing"
        /\ UNCHANGED <<connected, closing, sock, buffer, pending, opc, todo, got, skipped,
                       broken, peerVars, outVars>>

\* It fails if the socket has been closed meanwhile.
SendEnds == /\ wpc = "writing"
            /\ wpc' = "idle"
            /\ IF sock
               THEN \E n \in SendLens :
                      Write([op |-> TEXT, fin |-> TRUE, payload |-> [j \in 1 .. n |-> 9]])
               ELSE UNCHANGED outVars
            /\ UNCHANGED <<connected, closing, sock, buffer, pending, opc, todo, sends, got,
                           skipped, broken, peerVars>>

Next == \/ Connect \/ ConnectFails \/ ConnectDone
        \/ Close \/ CloseWrites \/ WaitForClose \/ WaitEnds
        \/ Recv \/ RecvChunk \/ Answer \/ Answered \/ RecvEnds \/ RecvTimesOut
        \/ Send \/ SendEnds

Spec == Init /\ [][Next]_vars
-----------------------------------------------------------------------------
Acceptable(f) == /\ f.op \in Opcodes
                 /\ Len(f.payload) <= MaxFrame
                 /\ IsControl(f.op) => Len(f.payload) <= Inline

\* The frames before the first one that the parser refuses.
Readable(frames) == LET n == CHOOSE n \in 0 .. Len(frames) :
                                 /\ \A i \in 1 .. n : Acceptable(frames[i])
                                 /\ n < Len(frames) => ~Acceptable(frames[n + 1])
                    IN SubSeq(frames, 1, n)

\* recv() returns the server's data frames in order, without a gap, whatever the
\* chunks were and whatever was between them.  While the transport is connected
\* and no error was raised, each data frame has been returned, waits in pending,
\* or is still in the bytes of buffer and wire.  (Bytes that come with the answer
\* to the handshake are dropped, and the stream may start inside a frame.)
NothingLost == ~skipped =>
    /\ IsPrefix(got, DataOf(served))
    /\ (connected /\ opc # "wait" /\ ~broken) =>
           got \o pending \o DataOf(Feed(buffer \o wire).frames) = DataOf(Readable(served))

\* Unless a write is given up inside a frame, the server reads exactly the frames
\* that were sent, up to one that it has to refuse.  Only a close frame can be such
\* a one, and close frames are sent once at most, also if the server sends several.
WrittenIsReadable ==
    /\ ~torn => /\ Feed(out).frames = Readable(sent)
                /\ Readable(sent) = sent => Feed(out).rest = <<>>
    /\ \A i \in DOMAIN sent : Acceptable(sent[i]) \/ sent[i].op = CLOSE
    /\ \A i, j \in DOMAIN sent : sent[i].op = CLOSE /\ sent[j].op = CLOSE => i = j

\* A transport that is not connected any more has no socket, unless recv() saw
\* the end of the stream: then close() does not close the socket either.
SocketReleased == opc = "idle" /\ ~connected /\ sock => ~closing
=============================================================================
