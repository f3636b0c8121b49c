----------------------------- MODULE WsConnection -----------------------------
(***************************************************************************)
(* One websocket connection (ws/connection.cpp): the handshake, the        *)
(* reader of frames that advances through the steps ONE to FOUR, and the   *)
(* assembly of messages in user_t.  The reader is a set of callbacks of a  *)
(* libevent bufferevent whose read watermarks, low and high, are both      *)
(* ntoread: libevent takes at most ntoread bytes off the socket and calls  *)
(* back when it has them.                                                  *)
(*                                                                         *)
(* The request is abstracted to the characters the reader looks at (CR and *)
(* LF) and to header lines, records of a name and a value; everything      *)
(* behind the handshake is real bytes.                                     *)
(***************************************************************************)
EXTENDS Integers, Sequences, SequencesExt, WsFrame

CONSTANTS
  Requests,    \* the requests a client may send
  FrameSet,    \* the frames a client may send: [fin, op, mask, form, data]
  ClientKey,   \* the value of Sec-WebSocket-Key in all of them
  Key,         \* the masking key the client uses
  MaxFrames    \* bound: frames of one connection

VARIABLES
  socket,      \* bytes sent by the client and not yet read by libevent
  inbuf,       \* the input buffer of the bufferevent
  reading,     \* EV_READ is enabled
  step, ntoread, frame, ws_req_str,     \* fields of ws_conn_t
  written,     \* what was written to the bufferevent: the response, frames
  msg,         \* user_t::_msg
  delivered,   \* history: messages on_frame_recv saw
  pongs,       \* history: payloads on_pong_recv saw
  request,     \* history: the request of the client
  sent,        \* history: the frames of the client
  alive        \* the close callback has not run

vars == <<socket, inbuf, reading, step, ntoread, frame, ws_req_str, written,
          msg, delivered, pongs, request, sent, alive>>

CR == [name |-> "CR", value |-> <<>>]
LF == [name |-> "LF", value |-> <<>>]

-----------------------------------------------------------------------------
(* The handshake's parsing (ws/websocket.cpp). *)

DropBlanks(v) ==
  LET S == {i \in DOMAIN v : v[i] # " "}
      first == CHOOSE i \in S : \A j \in S : i <= j
  IN  IF S = {} THEN <<>> ELSE SubSeq(v, first, Len(v))

\* strtok over "\r\n": the lines; behind the first each is a header, and the
\* last one of a name is kept.  The value of Host loses a character.
Headers(str, name) ==
  LET Lines == {i \in DOMAIN str : str[i] \notin {CR, LF}}
  IN  {i \in Lines : str[i].name = name /\ \E first \in Lines : first < i}
ParseWebsocketRequest(str) ==
  LET Final(name) == CHOOSE i \in Headers(str, name) :
                       \A j \in Headers(str, name) : j <= i
      Value(name) == IF Headers(str, name) = {} THEN <<>>
                     ELSE DropBlanks(str[Final(name)].value)
  IN  [n \in {"Connection", "Upgrade", "Host", "Origin", "Cookie",
              "Sec-WebSocket-Key", "Sec-WebSocket-Version"} |->
         IF n = "Host" /\ Value(n) # <<>> THEN Tail(Value(n)) ELSE Value(n)]

\* SHA-1 and base64 of the key and the protocol's constant: an injective
\* function of the key.
GenerateKey(key) == <<"accept", key>>

GenerateWebsocketResponse(req) ==
  [kind |-> "response", accept |-> GenerateKey(req["Sec-WebSocket-Key"])]

-----------------------------------------------------------------------------
(* What a client may send. *)

\* A request ends with an empty line, has no other, and the last header of
\* its name gives the client's key, behind any number of blanks.
ASSUME RequestsAssumption ==
  \A r \in Requests :
    /\ r \in Seq([name : STRING, value : Seq(STRING)]) /\ Len(r) >= 4
    /\ \A n \in 4 .. Len(r) :
         SubSeq(r, n - 3, n) = <<CR, LF, CR, LF>> <=> n = Len(r)
    /\ \E i \in Headers(r, "Sec-WebSocket-Key") :
         /\ \A j \in Headers(r, "Sec-WebSocket-Key") : j <= i
         /\ \E b \in 0 .. Len(r[i].value) :
              /\ \A j \in 1 .. b : r[i].value[j] = " "
              /\ SubSeq(r[i].value, b + 1, Len(r[i].value)) = ClientKey

ASSUME KeysAssumption ==
  /\ ClientKey # <<>> /\ ClientKey[1] # " "
  /\ Key \in Seq(Byte) /\ Len(Key) = 4
  /\ MaxFrames \in Nat

\* Frames of bytes whose length the form can express.
ASSUME FramesAssumption ==
  \A f \in FrameSet :
    /\ f \in [fin : {0, 1}, op : 0 .. 15, mask : {0, 1}, form : {7, 16, 64},
              data : Seq(Byte)]
    /\ f.form = 7 => Len(f.data) <= 125
    /\ f.form = 16 => Len(f.data) <= 65535
    /\ f.form = 64 => Len(f.data) < Huge

-----------------------------------------------------------------------------
\* ws_conn_new: the fields of a new ws_conn_t.
ConnNew == step = "ZERO" /\ frame = Frame0 /\ ws_req_str = <<>>

\* accept_websocket_request, called by ws_serve_start: one byte at a time.
AcceptWebsocketRequest == reading = TRUE /\ ntoread = 1

Init ==
  /\ ConnNew
  /\ AcceptWebsocketRequest
  /\ socket = <<>> /\ inbuf = <<>> /\ written = <<>>
  /\ msg = <<>> /\ delivered = <<>> /\ pongs = <<>>
  /\ request = <<>> /\ sent = <<>>
  /\ alive = TRUE

conn == <<reading, step, ntoread, frame, ws_req_str, written, msg,
          delivered, pongs>>

(* The client.  It may send frames before it has seen the response. *)
SendRequest(r) ==
  /\ alive /\ request = <<>>
  /\ request' = r
  /\ socket' = socket \o r
  /\ UNCHANGED <<inbuf, sent, alive, conn>>

SendFrame(f) ==
  /\ alive /\ request # <<>> /\ Len(sent) < MaxFrames
  /\ sent' = Append(sent, f)
  /\ socket' = socket \o ClientBytes(f, Key)
  /\ UNCHANGED <<inbuf, request, alive, conn>>

(* libevent: a byte arrives, up to the high watermark. *)
Arrive ==
  /\ alive /\ reading /\ socket # <<>> /\ Len(inbuf) < ntoread
  /\ inbuf' = Append(inbuf, Head(socket))
  /\ socket' = Tail(socket)
  /\ UNCHANGED <<request, sent, alive, conn>>

Ready == alive /\ reading /\ Len(inbuf) = ntoread

-----------------------------------------------------------------------------
\* respond_websocket_request: reading stops until the response is out.
RespondWebsocketRequest(str) ==
  /\ reading' = FALSE
  /\ written' = Append(written, GenerateWebsocketResponse(
                                 ParseWebsocketRequest(str)))

(* request_read_cb *)
RequestRead ==
  /\ Ready /\ step = "ZERO"
  /\ inbuf' = <<>>
  /\ ws_req_str' = ws_req_str \o inbuf
  /\ LET n == Len(ws_req_str')
     IN  IF n >= 4 /\ SubSeq(ws_req_str', n - 3, n) = <<CR, LF, CR, LF>>
           THEN RespondWebsocketRequest(ws_req_str')
           ELSE UNCHANGED <<reading, written>>
  /\ UNCHANGED <<socket, step, ntoread, frame, msg, delivered, pongs,
                 request, sent, alive>>

\* step, ntoread and with it the watermarks.
Goto(s, n) == step' = s /\ ntoread' = n

FrameRecvLoop == Goto("ONE", 2) /\ reading' = TRUE

(* response_write_cb: the response has left. *)
ResponseWritten ==
  /\ alive /\ step = "ZERO" /\ written # <<>>
  /\ FrameRecvLoop
  /\ UNCHANGED <<socket, inbuf, frame, ws_req_str, written, msg, delivered,
                 pongs, request, sent, alive>>

\* A callback of frame_read_cb leaves all this alone.
Callback ==
  /\ Ready /\ inbuf' = <<>>
  /\ UNCHANGED <<socket, reading, ws_req_str, request, sent, alive>>

(* Step ONE.  The verdict of is_frame_valid decides between return and     *)
(* break, which are the same.                                              *)
ReadHeader ==
  /\ Callback /\ step = "ONE"
  /\ frame' = ParseFrameHeader(inbuf, frame)
  /\ CASE frame'.payload_len <= 125 -> Goto("THREE", 4)
       [] frame'.payload_len = 126  -> Goto("TWO", 2)
       [] frame'.payload_len = 127  -> Goto("TWO", 8)
  /\ UNCHANGED <<written, msg, delivered, pongs>>

(* Step TWO *)
ReadLength ==
  /\ Callback /\ step = "TWO"
  /\ frame' = ParseLength(inbuf, frame)
  /\ Goto("THREE", 4)
  /\ UNCHANGED <<written, msg, delivered, pongs>>

CloseFrame == [kind |-> "frame", bytes |-> FrameCopy(1, 8, <<>>)]

Payload(f) == IF f.payload_len > 0 THEN f.payload_data ELSE <<>>

\* user_t::_on_frame_received: _msg grows by every fragment and is handed
\* over with the last.
OnFrameReceived(f) ==
  IF f.fin = 1 THEN /\ delivered' = Append(delivered, msg \o Payload(f))
                    /\ msg' = <<>>
               ELSE /\ msg' = msg \o Payload(f)
                    /\ UNCHANGED delivered

\* user_t::_on_pong_received, called for fin = 1 only: _pong_data is empty
\* before and after.
OnPongReceived(f) == pongs' = Append(pongs, Payload(f))

\* A close frame leaves step and ntoread as they are.
AfterClose_reset(here, n) == Goto("ONE", 2)
AfterClose(here, n) == Goto(here, n)

\* What the steps THREE and FOUR do with a whole frame.
Whole(f, here, n) ==
  \/ /\ f.fin = 1 /\ f.opcode = 8
     /\ written' = Append(written, CloseFrame)
     /\ AfterClose(here, n)
     /\ UNCHANGED <<msg, delivered, pongs>>
  \/ /\ f.fin = 1 /\ f.opcode = 9          \* a ping is not answered
     /\ Goto("ONE", 2)
     /\ UNCHANGED <<written, msg, delivered, pongs>>
  \/ /\ f.fin = 1 /\ f.opcode = 10
     /\ OnPongReceived(f)
     /\ Goto("ONE", 2)
     /\ UNCHANGED <<written, msg, delivered>>
  \/ /\ f.fin = 0 \/ f.opcode \notin {8, 9, 10}
     /\ OnFrameReceived(f)
     /\ Goto("ONE", 2)
     /\ UNCHANGED <<written, pongs>>

(* Step THREE: the key is read whether the frame is masked or not. *)
ReadKey ==
  /\ Callback /\ step = "THREE"
  /\ frame' = [frame EXCEPT !.masking_key = inbuf]
  /\ IF frame.payload_len > 0
       THEN /\ Goto("FOUR", frame.payload_len)
            /\ UNCHANGED <<written, msg, delivered, pongs>>
       ELSE Whole(frame', "THREE", 4)

(* Step FOUR *)
ReadPayload ==
  /\ Callback /\ step = "FOUR"
  /\ frame' = [frame EXCEPT
                 !.payload_data = UnmaskPayloadData(inbuf, frame.masking_key)]
  /\ Whole(frame', "FOUR", frame.payload_len)

(* close_cb: the peer closed after its last byte, or the connection broke. *)
CloseCb ==
  /\ alive /\ request # <<>>
  /\ alive' = FALSE
  /\ UNCHANGED <<socket, inbuf, request, sent, conn>>

Reader == RequestRead \/ ResponseWritten \/ ReadHeader \/ ReadLength
          \/ ReadKey \/ ReadPayload

Next ==
  \/ \E r \in Requests : SendRequest(r)
  \/ \E f \in FrameSet : SendFrame(f)
  \/ Arrive
  \/ Reader
  \/ CloseCb

Spec == Init /\ [][Next]_vars

\* Bytes that were sent arrive, and libevent calls back.
FairSpec == Spec /\ WF_vars(Arrive) /\ WF_vars(Reader)

-----------------------------------------------------------------------------
(* What the client meant: an account of the frames it sent that knows      *)
(* nothing of steps and watermarks.                                        *)

IsClose(f) == f.op = 8 /\ f.fin = 1
IsControl(f) == f.op \in {8, 9, 10}

\* A client that keeps to the protocol: masked frames, control frames in
\* one piece, nothing behind a close.
Conforming ==
  \A i \in DOMAIN sent :
    /\ sent[i].mask = 1
    /\ IsControl(sent[i]) => sent[i].fin = 1
    /\ IsClose(sent[i]) => i = Len(sent)

\* The messages of the first i frames: each runs from behind a last fragment
\* to the next one, whatever control frames lie between; and what there is
\* of a message whose last fragment is still to come.
account[i \in 0 .. Len(sent)] ==
  IF i = 0 THEN [whole |-> <<>>, part |-> <<>>]
  ELSE LET a == account[i - 1]
           text == a.part \o sent[i].data
       IN  CASE IsControl(sent[i]) -> a
             [] ~IsControl(sent[i]) /\ sent[i].fin = 0 -> [a EXCEPT !.part = text]
             [] OTHER -> [whole |-> Append(a.whole, text), part |-> <<>>]
Meant == account[Len(sent)].whole

\* The answers to close frames.
Closes == {i \in DOMAIN written : written[i].kind = "frame"}

-----------------------------------------------------------------------------
(* The input buffer never holds more than the callback will read: the      *)
(* watermarks follow ntoread (connection.cpp:196, 231, 246, 290, 355), and *)
(* the fixed buffer tmp[16] of the steps ONE to THREE suffices, as the     *)
(* assertions at 183, 219 and 239 say.                                     *)
ReadsFit ==
  /\ Len(inbuf) <= ntoread
  /\ step \in {"ONE", "TWO", "THREE"} => ntoread <= 16
  /\ step = "FOUR" => ntoread = frame.payload_len /\ ntoread > 0

(* Every message the application gets is the message the client sent, in   *)
(* order and complete: whatever way the bytes were cut up in the network,  *)
(* whichever length encoding and however many fragments were used, with    *)
(* pings and pongs between the fragments (connection.cpp:171-357,          *)
(* server_ws_user_win.hpp:304-317).                                        *)
MessagesIntact == Conforming => IsPrefix(delivered, Meant)

(* The reader answers a close frame once, says nothing before it, and      *)
(* delivers nothing after it, although the steps THREE and FOUR leave step *)
(* where it was (connection.cpp:268, 326).                                 *)
CloseAnswered ==
  Conforming =>
    /\ \A i, j \in Closes : i = j
    /\ Closes # {} => sent # <<>> /\ IsClose(Last(sent)) /\ socket = <<>>

(* After it has answered a close frame the reader delivers no message and  *)
(* no pong, even if the client goes on sending.                            *)
SilentAfterClose ==
  [][Closes # {} => delivered' = delivered /\ pongs' = pongs]_vars

(* The response carries the accept key of this client's own key, and is    *)
(* sent once: no byte of the frames behind the request is taken for the    *)
(* request, nor the reverse (connection.cpp:105-126).                      *)
HandshakeRight ==
  written # <<>> =>
    /\ ws_req_str = request
    /\ written[1].kind = "response" /\ written[1].accept = GenerateKey(ClientKey)
    /\ \A i \in 2 .. Len(written) : written[i].kind = "frame" /\ written[i].bytes = <<136, 0>>

(* Every message sent by a client that keeps to the protocol is delivered, *)
(* unless the connection ends.                                             *)
EveryMessageArrives ==
  \A n \in 1 .. MaxFrames :
    (Conforming /\ Len(Meant) >= n)
      ~> (Len(delivered) >= n \/ ~alive \/ ~Conforming)

(* The stream of bytes is cut into the request and the frames the client   *)
(* sent: the handshake is answered by its own key, messages come out as    *)
(* they went in, and no read is for more or less than what is awaited.     *)
StreamFaithful == HandshakeRight /\ MessagesIntact /\ ReadsFit

(* A close frame is answered once and ends the conversation.               *)
CloseEnds == []CloseAnswered /\ SilentAfterClose
=============================================================================
