------------------------------ MODULE Framing ------------------------------
(***************************************************************************)
(* The server's reader of one connection (Session::read_header and        *)
(* Session::read_body, server/src/session.cpp) over the byte stream a     *)
(* peer writes in frames: a 4-byte big-endian length, then that many      *)
(* bytes of JSON (Client::send, client/src/client.cpp).                   *)
(*                                                                         *)
(* A body is a byte sequence; which bodies json::parse and                *)
(* protocol::from_json accept is the constant Valid.  What the handler    *)
(* does with an accepted request is Session's business; here it is        *)
(* recorded in handled.  An exception escapes every completion handler:   *)
(* neither the handlers nor main's io_context.run() catch, so a throw     *)
(* ends the server process.                                                *)
(*                                                                         *)
(* The reads outstanding on the socket are the sequence pend.  After a    *)
(* zero length read_body starts read_header and still issues its own read *)
(* of the empty buffer, so two reads are outstanding; which completes     *)
(* first is up to asio, and the model leaves the order open.              *)
(***************************************************************************)
EXTENDS Naturals, Sequences, SequencesExt

CONSTANTS
  Bodies,     \* bodies the peer may frame and send
  Valid,      \* the bodies json::parse and from_json accept
  MaxFrames   \* bound: frames the peer sends

VARIABLES
  stream,    \* bytes written by the peer and not yet read
  peerOpen,  \* the peer has not closed its end
  sent,      \* bodies the peer has framed and written, in order
  pend,      \* reads outstanding on the socket
  msgLen,    \* Session::msg_len_
  buf,       \* Session::buffer_: its size and the bytes a read wrote into it
  handled,   \* bodies handed to handle_request, in order
  alive      \* the server process runs

fvars == <<stream, peerOpen, sent, pend, msgLen, buf, handled, alive>>

Byte == 0..255
HeaderRead == [kind |-> "HEADER", n |-> 4]
BodyRead(n) == [kind |-> "BODY", n |-> n]

\* htonl(size) in Client::send: the length as 4 bytes, most significant first.
Header(n) ==
  <<(n \div 16777216) % 256, (n \div 65536) % 256, (n \div 256) % 256, n % 256>>

\* ntohl read on a little-endian host: the bytes as received, taken as
\* the host's own order.
NativeOrder(b) == b[4] * 16777216 + b[3] * 65536 + b[2] * 256 + b[1]

\* msg_len_ = ntohl(msg_len_): the 4 bytes read, most significant first.
Ntohl(b) == b[1] * 16777216 + b[2] * 65536 + b[3] * 256 + b[4]

\* buffer_.resize(n): the bytes kept are the first n; new bytes are zero.
Resize(b, n) == [size |-> n, data |-> SubSeq(b.data, 1, IF n < Len(b.data) THEN n ELSE Len(b.data))]

\* std::string msg(buffer_.begin(), buffer_.end()) parses as a request.
Parses(b) == Len(b.data) = b.size /\ b.data \in Valid

-----------------------------------------------------------------------------
Init ==
  /\ stream = <<>> /\ peerOpen = TRUE /\ sent = <<>>
  /\ pend = <<HeaderRead>>          \* Session::start
  /\ msgLen = 0 /\ buf = [size |-> 0, data |-> <<>>]
  /\ handled = <<>> /\ alive = TRUE

\* Client::send: the header and the body go out in one async_write.
PeerSend(b) ==
  /\ peerOpen /\ Len(sent) < MaxFrames
  /\ stream' = stream \o Header(Len(b)) \o b
  /\ sent' = Append(sent, b)
  /\ UNCHANGED <<peerOpen, pend, msgLen, buf, handled, alive>>

\* The peer closes its end; the bytes already written are still delivered.
PeerClose ==
  /\ peerOpen
  /\ peerOpen' = FALSE
  /\ UNCHANGED <<stream, sent, pend, msgLen, buf, handled, alive>>

(***************************************************************************)
(* read_header's completion (session.cpp 39-52): the length is converted, *)
(* buffer_ resized, and read_body runs.  read_body on a zero length calls *)
(* handle_error and read_header, and then issues async_read of buffer_    *)
(* anyway (54-61).                                                         *)
(***************************************************************************)
HeaderDone(i) ==
  LET len == Ntohl(SubSeq(stream, 1, 4))
  IN
  /\ alive /\ pend[i] = HeaderRead /\ Len(stream) >= 4
  /\ stream' = SubSeq(stream, 5, Len(stream))
  /\ msgLen' = len
  /\ buf' = Resize(buf, len)
  /\ pend' = RemoveAt(pend, i) \o
               IF len = 0 THEN <<HeaderRead, BodyRead(0)>> ELSE <<BodyRead(len)>>
  /\ UNCHANGED <<peerOpen, sent, handled, alive>>

(***************************************************************************)
(* read_body's completion (session.cpp 62-69 and handle_request 82-85):   *)
(* the bytes read fill buffer_; json::parse and from_json either accept   *)
(* them, and the request is handled and read_header issued, or throw and  *)
(* the process ends.  A read of zero bytes completes at once.             *)
(***************************************************************************)
BodyDone(i) ==
  LET n == pend[i].n
      b == IF n = 0 THEN buf ELSE [size |-> buf.size, data |-> SubSeq(stream, 1, n)]
  IN
  /\ alive /\ pend[i].kind = "BODY" /\ Len(stream) >= n
  /\ stream' = SubSeq(stream, n + 1, Len(stream))
  /\ buf' = b
  /\ IF Parses(b)
       THEN /\ handled' = Append(handled, b.data)
            /\ pend' = RemoveAt(pend, i) \o <<HeaderRead>>
            /\ UNCHANGED alive
       ELSE /\ alive' = FALSE
            /\ pend' = <<>>
            /\ UNCHANGED handled
  /\ UNCHANGED <<peerOpen, sent, msgLen>>

\* A read that cannot complete because the peer closed fails: handle_error
\* and return (session.cpp 47-50, 70-73, 78-80); nothing is read again.
ReadFails(i) ==
  /\ alive /\ ~peerOpen /\ pend[i].n > Len(stream)
  /\ pend' = RemoveAt(pend, i)
  /\ UNCHANGED <<stream, peerOpen, sent, msgLen, buf, handled, alive>>

Next ==
  \/ \E b \in Bodies : PeerSend(b)
  \/ PeerClose
  \/ \E i \in DOMAIN pend : HeaderDone(i) \/ BodyDone(i) \/ ReadFails(i)

Spec == Init /\ [][Next]_fvars

\* The io_context runs every completion that is ready; the peer is free.
FairSpec ==
  /\ Spec
  /\ WF_fvars(\E i \in DOMAIN pend : HeaderDone(i))
  /\ WF_fvars(\E i \in DOMAIN pend : BodyDone(i))
  /\ WF_fvars(\E i \in DOMAIN pend : ReadFails(i))

-----------------------------------------------------------------------------
TypeOK ==
  /\ stream \in Seq(Byte) /\ sent \in Seq(Bodies) /\ handled \in Seq(Bodies)
  /\ peerOpen \in BOOLEAN /\ alive \in BOOLEAN
  /\ msgLen \in Nat /\ buf.size \in Nat /\ buf.data \in Seq(Byte)

(***************************************************************************)
(* Every frame the peer sends is eventually handed to handle_request, in  *)
(* the order sent, even when the peer closes right after sending: the     *)
(* reader never loses its place in the stream.                             *)
(***************************************************************************)
FramesHandled ==
  \A k \in 1..MaxFrames :
    Len(sent) >= k ~> (Len(handled) >= k /\ handled[k] = sent[k])

(***************************************************************************)
(* Spec 4.1 and 7: a framing or parse failure is fatal to its connection  *)
(* only.  No frame a peer sends ends the server process.                   *)
(***************************************************************************)
NoFrameEndsServer == [][alive => alive']_fvars

=============================================================================
