---------------------------- MODULE WebSocketFrames ---------------------------
(***************************************************************************)
(* One connection at the level of bytes: shake_hands, analy_data and       *)
(* send_websocket_res_head over a stream that TCP cuts anywhere.           *)
(* ControlServer takes frames as whole; this module has what happens when  *)
(* they are not, when several come together, or when they are longer than  *)
(* the buffer.                                                             *)
(*                                                                         *)
(* The browser's stream is its request, of ReqLen bytes, and behind it     *)
(* frames, final and masked, each with its place in the stream.  A recv    *)
(* takes what has arrived, up to the buffer.  The bytes a wrong place in   *)
(* the stream holds, and bytes behind what was received after the mask was *)
(* applied, are taken to be anything; the byte behind a payload is taken to*)
(* be zero.  Payloads with a length of eight bytes, far beyond the buffer, *)
(* are left out, and string buffers are taken to be long enough.  What     *)
(* follows the header of the answer is discarded by the browser; of the    *)
(* messages behind it BrowserMessages speaks.  The end of the stream is in *)
(* ControlServer.                                                          *)
(***************************************************************************)
EXTENDS BrowserMessages

CONSTANTS
    Buffer,           \* size of both receive buffers: 1024
    Digest,           \* bytes of a SHA1 digest: 20
    ReqLens,          \* lengths of the browser's request
    KeyEnd,           \* where the key of a request ends
    OpLens,           \* payload lengths of operations, which are JSON texts
    MaxFrames         \* bound: frames the browser sends

ASSUME ConstantsAssumption ==
    /\ Buffer \in Nat \ {0} /\ Digest \in Nat
    /\ ReqLens \subseteq Nat /\ KeyEnd \in Nat /\ \A n \in ReqLens : KeyEnd <= n
    /\ OpLens \subseteq Nat /\ \A len \in OpLens : len > 2
    /\ MaxFrames \in Nat

VARIABLES
    srv,        \* server: in the handshake, listening, closed or dead
    event,      \* epoll_wait is going to report the connection
    taken,      \* bytes received
    last,       \* the last recv after the handshake, and what was made of it
    browser,    \* the browser: waits for the answer, open, refused
    reqLen,     \* length of its request
    zeroAt,     \* first zero byte of the digest of its key, or Digest
    frames,     \* its frames
    arrived,    \* bytes that reached the server
    cut         \* history: a piece that arrived, or a recv, ended within a frame
                \* or the request

vars == <<msgVars, srv, event, taken, last, browser, reqLen, zeroAt, frames, arrived, cut>>

Lesser(a, b) == IF a < b THEN a ELSE b
Header(len) == IF len < Medium THEN 6 ELSE 8
Wire(f) == Header(f.len) + f.len
EndOf(f) == f.at + Wire(f)

(* Bytes the browser has sent. *)
Sent == IF frames = <<>> THEN reqLen ELSE EndOf(frames[Len(frames)])
Boundary(b) == b \in {reqLen} \cup {EndOf(frames[i]) : i \in DOMAIN frames}

NoRecv == [is |-> "none", frame |-> 0, got |-> 0, from |-> 0, n |-> 0]

Init ==
    /\ srv = "shake" /\ event = FALSE /\ taken = 0 /\ last = NoRecv /\ MsgInit
    /\ browser = "asked" /\ reqLen \in ReqLens /\ zeroAt \in 0 .. Digest
    /\ frames = <<>> /\ arrived = 0 /\ cut = FALSE

-------------------------------------------------------------------------------
(* The browser and the network *)

ServerFrame == UNCHANGED <<msgVars, srv, taken, last>>

(* An operation, or a close frame with or without a status. *)
SendFrame ==
    /\ browser = "open" /\ Len(frames) < MaxFrames
    /\ \E op \in BOOLEAN, len \in OpLens \cup {0, 2} :
         /\ IF op THEN len \in OpLens ELSE len \in {0, 2}
         /\ frames' = Append(frames, [op |-> op, len |-> len, at |-> Sent])
    /\ ServerFrame /\ UNCHANGED <<event, browser, reqLen, zeroAt, arrived, cut>>

(* A piece of what was sent arrives.  The event is edge triggered. *)
Arrive ==
    /\ arrived < Sent /\ srv \in {"shake", "open"}
    /\ \E b \in arrived + 1 .. Sent : arrived' = b /\ cut' = (cut \/ ~Boundary(b))
    /\ event' = (srv = "open")
    /\ ServerFrame /\ UNCHANGED <<browser, reqLen, zeroAt, frames>>

-------------------------------------------------------------------------------
(* shake_hands *)

(* Bytes one recv takes of those that wait. *)
RecvLen(waiting) == Lesser(Buffer, waiting)

(* Bytes of the digest the accept text is made of: strlen stops at a zero.   *)
Encoded == zeroAt

(* Mutation: the connection is added without a look at what has arrived. *)
ShakeHandsNoEvent ==
    LET n == RecvLen(arrived) IN
    /\ srv = "shake" /\ n > 0
    /\ srv' = "open" /\ taken' = n /\ event' = FALSE
    /\ browser' = IF n >= KeyEnd /\ Encoded = Digest THEN "open" ELSE "refused"
    /\ cut' = (cut \/ ~Boundary(n))
    /\ UNCHANGED <<msgVars, last, reqLen, zeroAt, frames, arrived>>

(* recv, the answer, and the connection is added to the epoll set, which     *)
(* reports it if there is more to read.  The browser refuses an answer that  *)
(* is not made of its whole key and the whole digest.                        *)
ShakeHands ==
    LET n == RecvLen(arrived) IN
    /\ srv = "shake" /\ n > 0
    /\ srv' = "open" /\ taken' = n /\ event' = (arrived > n)
    /\ browser' = IF n >= KeyEnd /\ Encoded = Digest THEN "open" ELSE "refused"
    /\ cut' = (cut \/ ~Boundary(n))
    /\ UNCHANGED <<msgVars, last, reqLen, zeroAt, frames, arrived>>

-------------------------------------------------------------------------------
(* analy_data *)

Closed == [NoRecv EXCEPT !.is = "closed"]      \* the empty string
Fault == [NoRecv EXCEPT !.is = "fault"]        \* NULL, or a read past the stack
Garbage == [NoRecv EXCEPT !.is = "garbage"]
Text(i, got) == [NoRecv EXCEPT !.is = "text", !.frame = i, !.got = got]

(* Mutations: nine bytes are a close frame as well; a header alone faults; a *)
(* payload of the first medium length is looked for behind a short header.   *)
IsCloseOrNine(n) == n \in {8, 9}
TooShortForText(n) == n < 8
PayloadAtShort(len) == IF len <= Medium THEN 6 ELSE 8

IsClose(n) == n = 8                            \* or 0, the end of the stream
TooShort(n) == n < 2
PayloadAt(len) == IF len < Medium THEN 6 ELSE 8

(* What may come of a recv that took n bytes from the start of frame i on:   *)
(* less than its header, or no payload; a payload beyond the buffer, which is*)
(* read past; or the frame with all or part of its payload.                  *)
AtFrame(i, n) ==
    LET len == frames[i].len
        got == Lesser(n - PayloadAt(len), len)
    IN  IF got <= 0 THEN {Garbage, Closed}
        ELSE IF PayloadAt(len) # Header(len) THEN {Garbage}
        ELSE IF len > Buffer - PayloadAt(len) THEN {Text(i, got), Fault}
        ELSE {Text(i, got)}

(* All that may come of a recv of n bytes.  The text of a request has no byte*)
(* with the bit of a final frame; inside a frame every byte may be there.    *)
Analysed(n) ==
    LET here == {i \in DOMAIN frames : frames[i].at = taken} IN
    IF IsClose(n) THEN {Closed}
    ELSE IF TooShort(n) \/ taken < reqLen THEN {Fault}
    ELSE IF here = {} THEN {Fault, Garbage, Closed}
    ELSE UNION {AtFrame(i, n) : i \in here}

Outcome == [closed |-> "closed", fault |-> "dead", garbage |-> "open", text |-> "open"]

(* An event: one recv.  A fault ends the server, the empty string closes the *)
(* connection.                                                               *)
Receive ==
    LET n == RecvLen(arrived - taken) IN
    /\ srv = "open" /\ event
    /\ event' = FALSE /\ taken' = taken + n
    /\ \E r \in Analysed(n) :
         /\ last' = [r EXCEPT !.from = taken, !.n = n]
         /\ srv' = Outcome[r.is]
         /\ Starts(r.is = "text")
    /\ cut' = (cut \/ ~Boundary(taken + n))
    /\ UNCHANGED <<browser, reqLen, zeroAt, frames, arrived>>

-------------------------------------------------------------------------------
(* send_websocket_res_head, of the download an operation started *)

Message ==
    /\ SendMessage
    /\ UNCHANGED <<srv, event, taken, last, browser, reqLen, zeroAt, frames, arrived, cut>>

-------------------------------------------------------------------------------
Next == SendFrame \/ Arrive \/ ShakeHands \/ Receive \/ Message

Spec == Init /\ [][Next]_vars

-------------------------------------------------------------------------------
(* Properties *)

Kinds == {"none", "closed", "fault", "garbage", "text"}

Frame == [op : BOOLEAN, len : Nat, at : Nat]

StateTypeOK ==
    /\ srv \in {"shake", "open", "closed", "dead"} /\ event \in BOOLEAN /\ cut \in BOOLEAN
    /\ browser \in {"asked", "open", "refused"}
    /\ reqLen \in ReqLens /\ zeroAt \in 0 .. Digest

StreamTypeOK ==
    /\ frames \in Seq(Frame) /\ Len(frames) <= MaxFrames
    /\ arrived \in 0 .. Sent /\ taken \in 0 .. arrived

(* The type of every variable but those of BrowserMessages, for MsgTypeOK. *)
TypeOK ==
    /\ StateTypeOK /\ StreamTypeOK
    /\ last \in [is : Kinds, frame : 0 .. Len(frames), got : Nat, from : 0 .. taken, n : 0 .. Buffer]

(* Whatever else a recv took with it (get_php_oper_info.c:221), the frame it *)
(* begins with is understood whole if all of it is there: an operation gives *)
(* its own text and none of what follows.                                    *)
FirstOfRecvUnderstood ==
    \A i \in DOMAIN frames :
        (frames[i].op /\ frames[i].at = last.from /\ Wire(frames[i]) <= last.n)
            => (last.is = "text" /\ last.frame = i /\ last.got = frames[i].len)

(* As long as TCP delivers and the buffer takes only whole frames, the rule  *)
(* that eight bytes are the end (get_php_oper_info.c:223) and what a payload *)
(* of no bytes leads to close no connection whose browser did not ask for it.*)
ClosedOnlyWhenAsked ==
    (srv = "closed" /\ ~cut) =>
        \E i \in DOMAIN frames : frames[i].at = last.from /\ ~frames[i].op

(* Frames kill the server only if one of them, or the request, reached it in *)
(* pieces, or longer than the buffer; several at once never do.              *)
DiesOnlyOverCut == srv = "dead" => cut

(* With edge triggered events and a single recv, bytes that have arrived are *)
(* left unread only behind a recv that filled the buffer.                    *)
NothingLeftBehind ==
    (srv = "open" /\ ~event /\ taken < arrived)
        => last.n = Buffer

-------------------------------------------------------------------------------
(* The inductive invariant behind the properties above *)

(* Frames lie behind the request and behind each other, without gaps.        *)
FramesInv ==
    /\ \A i \in DOMAIN frames :
         /\ IF frames[i].op THEN frames[i].len \in OpLens ELSE frames[i].len \in {0, 2}
         /\ frames[i].at >= reqLen /\ EndOf(frames[i]) <= Sent
         /\ \A j \in DOMAIN frames : i < j => EndOf(frames[i]) <= frames[j].at
    /\ \A b \in 0 .. Sent - 1 : Boundary(b) => \E i \in DOMAIN frames : frames[i].at = b
    /\ reqLen <= Sent

(* An event is there only for a reason; and as long as nothing was cut, the  *)
(* next recv begins where a frame does.                                      *)
RecvInv ==
    /\ event => (srv = "open" /\ taken < arrived)
    /\ srv = "shake" => (taken = 0 /\ last = NoRecv)
    /\ (srv = "open" /\ ~cut) => Boundary(taken)
    /\ last.from + last.n <= taken

IInv ==
    /\ TypeOK /\ FramesInv /\ RecvInv
    /\ FirstOfRecvUnderstood /\ ClosedOnlyWhenAsked /\ DiesOnlyOverCut /\ NothingLeftBehind
===============================================================================
