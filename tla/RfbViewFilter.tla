---------------------------- MODULE RfbViewFilter ----------------------------
(***************************************************************************)
(* The filter of a view-only viewer (backend/app/rfb_proxy.py): it cuts    *)
(* the byte stream a client sends into RFB messages and passes on those    *)
(* that set up or update the display.  WebSocket frames do not respect     *)
(* message boundaries: the stream arrives in chunks of any length.         *)
(*                                                                         *)
(* Bytes are numbers, messages have the lengths of the protocol.  What a   *)
(* message carries beyond its type and its length is one byte repeated,    *)
(* its filler: one that is itself a message type, so that a filter that    *)
(* loses its place shows it.                                               *)
(***************************************************************************)
EXTENDS Naturals, Sequences, SequencesExt

CONSTANT Streams  \* the sequences of messages clients send, each [type, items, filler]

VARIABLES
  sent,     \* the messages the client sends in this session
  arrived,  \* how many bytes of them have arrived
  pending,  \* _client_init_pending
  buffer,   \* _buffer
  upstream  \* what the VNC server has been sent

vars == <<sent, arrived, pending, buffer, upstream>>
-----------------------------------------------------------------------------
(* RFB: what the client sends.                                             *)

SetPixelFormat == 0
SetEncodings   == 2
UpdateRequest  == 3
KeyEvent       == 4
PointerEvent   == 5
CutText        == 6
Extensions     == {150, 248}  \* continuous updates, fences: sent by noVNC
Display        == {SetPixelFormat, SetEncodings, UpdateRequest}

Pad(m, n) == [i \in 1 .. n |-> m.filler]

\* SetEncodings and CutText carry a number of items, big-endian.
Bytes(m) ==
  CASE m.type = SetPixelFormat -> <<0>> \o Pad(m, 19)
    [] m.type = SetEncodings   -> <<2, 0, 0, m.items>> \o Pad(m, 4 * m.items)
    [] m.type = UpdateRequest  -> <<3>> \o Pad(m, 9)
    [] m.type = KeyEvent       -> <<4>> \o Pad(m, 7)
    [] m.type = PointerEvent   -> <<5>> \o Pad(m, 5)
    [] m.type = CutText        -> <<6, 0, 0, 0, 0, 0, 0, m.items>> \o Pad(m, m.items)
    [] OTHER                   -> <<m.type>> \o Pad(m, m.items)

ClientInit == <<1>>
Wire == ClientInit \o FlattenSeq([i \in 1 .. Len(sent) |-> Bytes(sent[i])])
-----------------------------------------------------------------------------
(* The filter.                                                             *)

Types == {SetPixelFormat, SetEncodings, UpdateRequest, KeyEvent, PointerEvent, CutText}

\* _message_size of a known type: 0 while the length has not arrived.
MessageSize(b) ==
  CASE b[1] = SetPixelFormat -> 20
    [] b[1] = SetEncodings   -> IF Len(b) < 4 THEN 0 ELSE 4 + 4 * (256 * b[3] + b[4])
    [] b[1] = UpdateRequest  -> 10
    [] b[1] = KeyEvent       -> 8
    [] b[1] = PointerEvent   -> 6
    [] b[1] = CutText        ->
         IF Len(b) < 8 THEN 0
         ELSE 8 + 16777216 * b[5] + 65536 * b[6] + 256 * b[7] + b[8]

Drop(b, n) == SubSeq(b, n + 1, Len(b))

\* The buffer holds no whole message of a known type.
Waits(b) ==
  b = <<>> \/ (b[1] \in Types /\ (MessageSize(b) = 0 \/ Len(b) < MessageSize(b)))

\* Mutant of Strip: cut text passes.
RECURSIVE StripLoose(_, _)
StripLoose(b, out) ==
  CASE b # <<>> /\ b[1] \notin Types -> [buffer |-> <<>>, out |-> out]
    [] Waits(b) -> [buffer |-> b, out |-> out]
    [] OTHER -> LET size == MessageSize(b)
                IN  StripLoose(Drop(b, size), IF b[1] \in Display \cup {CutText} THEN out \o SubSeq(b, 1, size) ELSE out)

\* The loop of feed: whole messages leave the buffer; an unknown type empties it.
RECURSIVE Strip(_, _)
Strip(b, out) ==
  CASE b # <<>> /\ b[1] \notin Types -> [buffer |-> <<>>, out |-> out]
    [] Waits(b) -> [buffer |-> b, out |-> out]
    [] OTHER -> LET size == MessageSize(b)
                IN  Strip(Drop(b, size), IF b[1] \in Display THEN out \o SubSeq(b, 1, size) ELSE out)

Init ==
  /\ sent \in Streams
  /\ arrived = 0
  /\ pending = TRUE
  /\ buffer = <<>>
  /\ upstream = <<>>

Feed(chunk) ==
  LET all == buffer \o chunk
      result == IF pending THEN Strip(Tail(all), <<Head(all)>>) ELSE Strip(all, <<>>)
  IN  /\ pending' = FALSE
      /\ buffer' = result.buffer
      /\ upstream' = upstream \o result.out

\* downstream_to_upstream: the next chunk, of any length.
Receive ==
  \E n \in 1 .. Len(Wire) - arrived :
    /\ Feed(SubSeq(Wire, arrived + 1, arrived + n))
    /\ arrived' = arrived + n
    /\ UNCHANGED sent

Next == Receive
Spec == Init /\ [][Next]_vars
-----------------------------------------------------------------------------
\* What should be upstream: ClientInit and the display messages that have arrived
\* in full, in order.  Position i starts after the messages before it.
End(i) == Len(ClientInit) + FoldLeft(LAMBDA n, m : n + Len(Bytes(m)), 0, SubSeq(sent, 1, i))
Expected ==
  (IF arrived = 0 THEN <<>> ELSE ClientInit)
    \o FlattenSeq([i \in 1 .. Len(sent) |->
         IF sent[i].type \in Display /\ End(i) <= arrived THEN Bytes(sent[i]) ELSE <<>>])

Known == \A i \in 1 .. Len(sent) : sent[i].type \notin Extensions

\* However the stream of a client without extensions is cut into chunks, the server
\* gets exactly the display messages, each as soon as it is complete.
ExactlyTheDisplayMessages == Known => upstream = Expected

\* What the server gets, cut at message boundaries.
RECURSIVE DisplayOnly(_)
DisplayOnly(b) ==
  b = <<>> \/ /\ b[1] \in Display
              /\ MessageSize(b) \in 1 .. Len(b)
              /\ DisplayOnly(Drop(b, MessageSize(b)))

\* Even when an extension makes the filter lose its place, the server is sent whole
\* display messages only: nothing it could read as input.
NoInputReachesTheBrowser == upstream # <<>> => DisplayOnly(Tail(upstream))

\* What the server gets is what a viewer without control may send.
FilterHolds == ExactlyTheDisplayMessages /\ NoInputReachesTheBrowser
=============================================================================
