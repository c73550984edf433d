------------------------- MODULE WebSocketFrames_proofs ------------------------
(***************************************************************************)
(* Proofs about WebSocketFrames, for every size of the buffer, any number  *)
(* of frames and messages and any lengths of them.                         *)
(***************************************************************************)
EXTENDS WebSocketFrames, TLAPS

-------------------------------------------------------------------------------
(* Frames and where they end *)

LEMMA HeaderIs ==
    ASSUME NEW len \in Nat
    PROVE  Header(len) \in {6, 8} /\ PayloadAt(len) = Header(len)
BY DEF Header, PayloadAt

LEMMA FrameTypes ==
    ASSUME StreamTypeOK, NEW i \in DOMAIN frames
    PROVE  /\ i \in 1 .. Len(frames) /\ frames[i].op \in BOOLEAN
           /\ frames[i].len \in Nat /\ frames[i].at \in Nat
           /\ Wire(frames[i]) \in Nat /\ Wire(frames[i]) >= 6 + frames[i].len
           /\ EndOf(frames[i]) = frames[i].at + Wire(frames[i]) /\ EndOf(frames[i]) \in Nat
           /\ EndOf(frames[i]) > frames[i].at
<1>1. frames[i] \in Frame /\ i \in 1 .. Len(frames)
  BY DEF StreamTypeOK
<1>2. frames[i].op \in BOOLEAN /\ frames[i].len \in Nat /\ frames[i].at \in Nat
  BY <1>1 DEF Frame
<1>3. Wire(frames[i]) = Header(frames[i].len) + frames[i].len
  BY DEF Wire
<1>4. Header(frames[i].len) \in {6, 8}
  BY <1>2, HeaderIs
<1>5. EndOf(frames[i]) = frames[i].at + Wire(frames[i])
  BY DEF EndOf
<1> DEFINE at == frames[i].at
           len == frames[i].len
           wire == Wire(frames[i])
           end == EndOf(frames[i])
<1>6. at \in Nat /\ len \in Nat /\ wire \in {len + 6, len + 8} /\ end = at + wire
  BY <1>2, <1>3, <1>4, <1>5
<1> HIDE DEF at, len, wire, end
<1>7. wire \in Nat /\ wire >= 6 + len /\ end \in Nat /\ end > at
  BY <1>6
<1> QED BY <1>1, <1>2, <1>5, <1>7 DEF at, len, wire, end

(* An operation is longer on the wire than the eight bytes of a close frame. *)
LEMMA OperationIsLong ==
    ASSUME StreamTypeOK, FramesInv, NEW i \in DOMAIN frames, frames[i].op
    PROVE  Wire(frames[i]) > 8 /\ frames[i].len > 2
<1>1. frames[i].len > 2
  BY ConstantsAssumption DEF FramesInv
<1> QED BY <1>1, FrameTypes

LEMMA SentNat == StateTypeOK /\ StreamTypeOK => Sent \in Nat /\ reqLen \in Nat
<1> SUFFICES ASSUME StateTypeOK, StreamTypeOK PROVE Sent \in Nat /\ reqLen \in Nat
  OBVIOUS
<1>1. reqLen \in Nat
  BY ConstantsAssumption DEF StateTypeOK
<1>2. CASE frames = <<>>
  BY <1>1, <1>2 DEF Sent
<1>3. CASE frames # <<>>
  <2>1. Len(frames) \in DOMAIN frames
    BY <1>3 DEF StreamTypeOK
  <2> QED BY <1>1, <1>3, <2>1, FrameTypes DEF Sent
<1> QED BY <1>2, <1>3

LEMMA StreamNats ==
    StateTypeOK /\ StreamTypeOK =>
        /\ Sent \in Nat /\ reqLen \in Nat /\ arrived \in Nat /\ taken \in Nat
        /\ taken <= arrived /\ arrived <= Sent
BY SentNat DEF StreamTypeOK

LEMMA BoundaryNat ==
    ASSUME StateTypeOK, StreamTypeOK, FramesInv, NEW b, Boundary(b)
    PROVE  b \in Nat /\ reqLen <= b /\ b <= Sent
<1>1. CASE b = reqLen
  BY <1>1, SentNat DEF FramesInv
<1>2. ASSUME NEW i \in DOMAIN frames, b = EndOf(frames[i])
      PROVE  b \in Nat /\ reqLen <= b /\ b <= Sent
  <2>1. frames[i].at >= reqLen /\ EndOf(frames[i]) <= Sent
    BY DEF FramesInv
  <2> QED BY <1>2, <2>1, FrameTypes, SentNat
<1> QED BY <1>1, <1>2 DEF Boundary

(* No two frames begin at one place. *)
LEMMA UniqueStart ==
    ASSUME StateTypeOK, StreamTypeOK, FramesInv, NEW i \in DOMAIN frames, NEW j \in DOMAIN frames,
           frames[i].at = frames[j].at
    PROVE  i = j
<1>1. /\ i < j => EndOf(frames[i]) <= frames[j].at
      /\ j < i => EndOf(frames[j]) <= frames[i].at
  BY DEF FramesInv
<1>2. /\ i \in Int /\ j \in Int
      /\ frames[i].at \in Nat /\ EndOf(frames[i]) \in Nat /\ EndOf(frames[i]) > frames[i].at
      /\ frames[j].at \in Nat /\ EndOf(frames[j]) \in Nat /\ EndOf(frames[j]) > frames[j].at
  BY FrameTypes
<1> QED BY <1>1, <1>2

(* Inside a frame there is no boundary. *)
LEMMA BoundaryNext ==
    ASSUME StateTypeOK, StreamTypeOK, FramesInv, NEW j \in DOMAIN frames, NEW b,
           Boundary(b), b > frames[j].at
    PROVE  b >= EndOf(frames[j])
<1>1. b # reqLen
  <2>1. frames[j].at >= reqLen
    BY DEF FramesInv
  <2> QED BY <2>1, FrameTypes, SentNat
<1>2. PICK i \in DOMAIN frames : b = EndOf(frames[i])
  BY <1>1 DEF Boundary
<1>3. /\ i < j => EndOf(frames[i]) <= frames[j].at
      /\ j < i => EndOf(frames[j]) <= frames[i].at
  BY DEF FramesInv
<1>4. /\ i \in Int /\ j \in Int
      /\ frames[i].at \in Nat /\ EndOf(frames[i]) \in Nat /\ EndOf(frames[i]) > frames[i].at
      /\ frames[j].at \in Nat /\ EndOf(frames[j]) \in Nat
  BY FrameTypes
<1>5. CASE i = j
  BY <1>2, <1>4, <1>5
<1>6. CASE i < j
  BY <1>2, <1>3, <1>4, <1>6
<1>7. CASE j < i
  BY <1>2, <1>3, <1>4, <1>7
<1> QED BY <1>4, <1>5, <1>6, <1>7

(* One recv takes what waits, up to the buffer. *)
LEMMA RecvLenIs ==
    ASSUME NEW waiting \in Nat, waiting > 0
    PROVE  /\ RecvLen(waiting) \in 1 .. Buffer /\ RecvLen(waiting) <= waiting
           /\ RecvLen(waiting) < waiting => RecvLen(waiting) = Buffer
BY ConstantsAssumption DEF RecvLen, Lesser

-------------------------------------------------------------------------------
(* analy_data *)

Result == [is : {"closed", "fault", "garbage", "text"}, frame : 0 .. Len(frames), got : Nat,
           from : {0}, n : {0}]

LEMMA Outcomes ==
    /\ Closed.is = "closed" /\ Fault.is = "fault" /\ Garbage.is = "garbage"
    /\ \A i, got : Text(i, got) = [is |-> "text", frame |-> i, got |-> got, from |-> 0, n |-> 0]
    /\ Len(frames) \in Nat => Closed \in Result /\ Fault \in Result /\ Garbage \in Result
<1>1. /\ Closed = [is |-> "closed", frame |-> 0, got |-> 0, from |-> 0, n |-> 0]
      /\ Fault = [is |-> "fault", frame |-> 0, got |-> 0, from |-> 0, n |-> 0]
      /\ Garbage = [is |-> "garbage", frame |-> 0, got |-> 0, from |-> 0, n |-> 0]
  BY DEF Closed, Fault, Garbage, NoRecv
<1>2. \A i, got : Text(i, got) = [is |-> "text", frame |-> i, got |-> got, from |-> 0, n |-> 0]
  <2> SUFFICES ASSUME NEW i, NEW got
               PROVE  Text(i, got) = [is |-> "text", frame |-> i, got |-> got, from |-> 0, n |-> 0]
    OBVIOUS
  <2>1. Text(i, got) = [[[NoRecv EXCEPT !.is = "text"] EXCEPT !.frame = i] EXCEPT !.got = got]
    BY Zenon DEF Text
  <2>2. NoRecv = [is |-> "none", frame |-> 0, got |-> 0, from |-> 0, n |-> 0]
    BY DEF NoRecv
  <2> QED BY <2>1, <2>2
<1>3. Len(frames) \in Nat => Closed \in Result /\ Fault \in Result /\ Garbage \in Result
  BY <1>1 DEF Result
<1> QED BY <1>1, <1>2, <1>3

LEMMA AtFrameTypes ==
    ASSUME StreamTypeOK, NEW i \in DOMAIN frames, NEW n \in Nat, NEW r \in AtFrame(i, n)
    PROVE  r \in Result
<1> DEFINE len == frames[i].len
           got == Lesser(n - PayloadAt(len), len)
<1>0. len \in Nat /\ PayloadAt(len) \in Nat /\ i \in 0 .. Len(frames) /\ Len(frames) \in Nat
  <2>1. /\ i \in 1 .. Len(frames) /\ len \in Nat
    BY FrameTypes
  <2>2. Len(frames) \in Nat
    BY DEF StreamTypeOK
  <2>3. Header(len) \in {6, 8} /\ PayloadAt(len) = Header(len)
    BY <2>1, HeaderIs
  <2> QED BY <2>1, <2>2, <2>3
<1>1. Closed \in Result /\ Fault \in Result /\ Garbage \in Result
  BY <1>0, Outcomes
<1>2. got \in Int
  BY <1>0 DEF Lesser
<1>3. ~(got <= 0) => Text(i, got) \in Result
  <2> HIDE DEF got
  <2>1. Text(i, got) = [is |-> "text", frame |-> i, got |-> got, from |-> 0, n |-> 0]
    BY Outcomes
  <2> QED BY <1>0, <1>2, <2>1 DEF Result
<1>4. \/ got <= 0 /\ r \in {Garbage, Closed}
      \/ ~(got <= 0) /\ r \in {Garbage, Text(i, got), Fault}
  BY DEF AtFrame
<1> QED BY <1>1, <1>3, <1>4

LEMMA AnalysedTypes ==
    ASSUME StreamTypeOK, NEW n \in Nat, NEW r \in Analysed(n)
    PROVE  r \in Result
<1>0. Len(frames) \in Nat
  BY DEF StreamTypeOK
<1>1. Closed \in Result /\ Fault \in Result /\ Garbage \in Result
  BY <1>0, Outcomes
<1>2. r \in {Closed, Fault, Garbage} \/ \E i \in DOMAIN frames : r \in AtFrame(i, n)
  BY DEF Analysed
<1> QED BY <1>1, <1>2, AtFrameTypes

(* A recv that begins with a frame and took all of it. *)
LEMMA WholeFrame ==
    ASSUME StateTypeOK, StreamTypeOK, FramesInv, NEW i \in DOMAIN frames, frames[i].at = taken,
           NEW n \in 1 .. Buffer, Wire(frames[i]) <= n, NEW r \in Analysed(n)
    PROVE  /\ frames[i].op => r = Text(i, frames[i].len)
           /\ r.is # "fault" /\ (r.is = "closed" => ~frames[i].op)
<1> DEFINE len == frames[i].len
           got == Lesser(n - PayloadAt(len), len)
<1>0. /\ len \in Nat /\ Wire(frames[i]) = Header(len) + len /\ Header(len) \in {6, 8}
      /\ PayloadAt(len) = Header(len) /\ n \in Nat /\ n <= Buffer /\ Buffer \in Nat
  BY FrameTypes, HeaderIs, ConstantsAssumption DEF Wire
<1>1. {j \in DOMAIN frames : frames[j].at = taken} = {i}
  BY UniqueStart
<1>2. ~(taken < reqLen) /\ ~TooShort(n)
  <2>1. taken >= reqLen
    BY DEF FramesInv
  <2> QED BY <1>0, <2>1, StreamNats DEF TooShort
<1>3. CASE IsClose(n)
  <2>1. r = Closed
    BY <1>3 DEF Analysed
  <2>2. ~frames[i].op
    BY <1>0, <1>3, OperationIsLong DEF IsClose
  <2> QED BY <2>1, <2>2, Outcomes
<1>4. CASE ~IsClose(n)
  <2>1. r \in AtFrame(i, n)
    BY <1>1, <1>2, <1>4 DEF Analysed
  <2>2. got = len
    BY <1>0 DEF Lesser
  <2>3. ~(len > Buffer - PayloadAt(len))
    BY <1>0
  <2>4. \/ len <= 0 /\ r \in {Garbage, Closed}
        \/ ~(len <= 0) /\ r = Text(i, len)
    BY <1>0, <2>1, <2>2, <2>3 DEF AtFrame
  <2>5. frames[i].op => ~(len <= 0)
    BY <1>0, OperationIsLong
  <2>6. Garbage.is = "garbage" /\ Closed.is = "closed" /\ Text(i, len).is = "text"
    BY Outcomes
  <2> QED BY <2>4, <2>5, <2>6
<1> QED BY <1>3, <1>4

-------------------------------------------------------------------------------
(* IInv is inductive *)

LEMMA Parts ==
    IInv => /\ StateTypeOK /\ StreamTypeOK /\ FramesInv /\ RecvInv
            /\ last \in [is : Kinds, frame : 0 .. Len(frames), got : Nat,
                         from : 0 .. taken, n : 0 .. Buffer]
            /\ FirstOfRecvUnderstood /\ ClosedOnlyWhenAsked /\ DiesOnlyOverCut /\ NothingLeftBehind
BY DEF IInv, TypeOK

LEMMA InitIInv == Init => IInv
<1> SUFFICES ASSUME Init PROVE IInv
  OBVIOUS
<1>1. DOMAIN frames = {} /\ Len(frames) = 0 /\ frames \in Seq(Frame)
  BY DEF Init
<1>2. Sent = reqLen /\ reqLen \in Nat
  BY ConstantsAssumption DEF Init, Sent
<1>3. StateTypeOK
  BY <1>1 DEF Init, StateTypeOK
<1>4. StreamTypeOK
  BY <1>1, <1>2, ConstantsAssumption DEF Init, StreamTypeOK
<1>5. last = [is |-> "none", frame |-> 0, got |-> 0, from |-> 0, n |-> 0] /\ taken = 0
  BY DEF Init, NoRecv
<1>6. last \in [is : Kinds, frame : 0 .. Len(frames), got : Nat, from : 0 .. taken, n : 0 .. Buffer]
  BY <1>1, <1>5, ConstantsAssumption DEF Kinds
<1>7. FramesInv
  BY <1>1, <1>2 DEF FramesInv, Boundary
<1>8. RecvInv
  BY <1>5 DEF Init, RecvInv
<1>9. FirstOfRecvUnderstood /\ ClosedOnlyWhenAsked /\ DiesOnlyOverCut /\ NothingLeftBehind
  BY <1>1 DEF Init, FirstOfRecvUnderstood, ClosedOnlyWhenAsked, DiesOnlyOverCut, NothingLeftBehind
<1> QED BY <1>3, <1>4, <1>6, <1>7, <1>8, <1>9 DEF IInv, TypeOK

LEMMA AppendedFrame ==
    ASSUME StreamTypeOK, NEW new \in Frame, frames' = Append(frames, new)
    PROVE  /\ Len(frames) \in Nat /\ Len(frames') = Len(frames) + 1 /\ frames' \in Seq(Frame)
           /\ DOMAIN frames = 1 .. Len(frames) /\ DOMAIN frames' = 1 .. Len(frames) + 1
           /\ \A i \in DOMAIN frames : frames'[i] = frames[i]
           /\ frames'[Len(frames) + 1] = new /\ frames' # <<>>
BY DEF StreamTypeOK

LEMMA SendFrameIInv == IInv /\ SendFrame => IInv'
<1> SUFFICES ASSUME IInv, SendFrame PROVE IInv'
  OBVIOUS
<1>0. /\ StateTypeOK /\ StreamTypeOK /\ FramesInv /\ RecvInv
      /\ FirstOfRecvUnderstood /\ ClosedOnlyWhenAsked /\ DiesOnlyOverCut /\ NothingLeftBehind
  BY Parts
<1>l. last \in [is : Kinds, frame : 0 .. Len(frames), got : Nat, from : 0 .. taken, n : 0 .. Buffer]
  BY Parts
<1>n. /\ Sent \in Nat /\ reqLen \in Nat /\ arrived \in Nat /\ taken \in Nat
      /\ taken <= arrived /\ arrived <= Sent
  BY <1>0, StreamNats
<1>1. PICK op \in BOOLEAN, len \in OpLens \cup {0, 2} :
        /\ IF op THEN len \in OpLens ELSE len \in {0, 2}
        /\ frames' = Append(frames, [op |-> op, len |-> len, at |-> Sent])
  BY DEF SendFrame
<1>2. /\ Len(frames) < MaxFrames
      /\ UNCHANGED <<srv, taken, last, event, browser, reqLen, zeroAt, arrived, cut>>
  BY DEF SendFrame, ServerFrame
<1> DEFINE new == [op |-> op, len |-> len, at |-> Sent]
           m == Len(frames) + 1
<1>3. /\ new \in Frame /\ new.op = op /\ new.len = len /\ new.at = Sent /\ frames' = Append(frames, new)
      /\ len \in Nat
  BY <1>n, <1>1, ConstantsAssumption DEF Frame
<1> HIDE DEF new
<1>4. /\ Len(frames) \in Nat /\ Len(frames') = m /\ frames' \in Seq(Frame)
      /\ DOMAIN frames = 1 .. Len(frames) /\ DOMAIN frames' = 1 .. m
      /\ \A i \in DOMAIN frames : frames'[i] = frames[i]
      /\ frames'[m] = new /\ frames' # <<>>
  BY <1>0, <1>3, AppendedFrame
<1>5. EndOf(new) = Sent + Wire(new) /\ Wire(new) = Header(len) + len /\ Header(len) \in {6, 8}
  BY <1>3, HeaderIs DEF EndOf, Wire
<1>6. Sent' = EndOf(new) /\ Sent' \in Nat /\ Sent' > Sent
  <2>1. Sent' = EndOf(new)
    BY <1>4 DEF Sent
  <2>2. Wire(new) \in Nat /\ Wire(new) > 0
    BY <1>3, <1>5
  <2> QED BY <1>n, <1>5, <2>1, <2>2
<1>7. \A i \in DOMAIN frames' : (i \in DOMAIN frames /\ frames'[i] = frames[i]) \/ (i = m /\ frames'[i] = new)
  BY <1>4
<1>8. StateTypeOK' /\ StreamTypeOK'
  <2>1. Len(frames') <= MaxFrames
    BY <1>2, <1>4, ConstantsAssumption
  <2>2. StreamTypeOK'
    BY <1>n, <1>2, <1>4, <1>6, <2>1 DEF StreamTypeOK
  <2> QED BY <1>0, <1>2, <2>2 DEF StateTypeOK
<1>9. last' \in [is : Kinds, frame : 0 .. Len(frames'), got : Nat, from : 0 .. taken', n : 0 .. Buffer]
  <2>1. 0 .. Len(frames) \subseteq 0 .. Len(frames')
    BY <1>4
  <2> QED BY <1>l, <1>2, <2>1
<1>10. FramesInv'
  <2>1. \A i \in DOMAIN frames : frames[i].at >= reqLen /\ EndOf(frames[i]) <= Sent /\ EndOf(frames[i]) \in Nat
    BY <1>0, FrameTypes DEF FramesInv
  <2>2. ASSUME NEW i \in DOMAIN frames'
        PROVE  /\ IF frames'[i].op THEN frames'[i].len \in OpLens ELSE frames'[i].len \in {0, 2}
               /\ frames'[i].at >= reqLen /\ EndOf(frames'[i]) <= Sent'
               /\ \A j \in DOMAIN frames' : i < j => EndOf(frames'[i]) <= frames'[j].at
    <3>1. CASE i \in DOMAIN frames /\ frames'[i] = frames[i]
      <4>1. ASSUME NEW j \in DOMAIN frames', i < j PROVE EndOf(frames'[i]) <= frames'[j].at
        <5>1. CASE j \in DOMAIN frames /\ frames'[j] = frames[j]
          BY <1>0, <3>1, <4>1, <5>1 DEF FramesInv
        <5>2. CASE j = m /\ frames'[j] = new
          BY <1>3, <2>1, <3>1, <5>2
        <5> QED BY <1>7, <5>1, <5>2
      <4>2. IF frames[i].op THEN frames[i].len \in OpLens ELSE frames[i].len \in {0, 2}
        BY <1>0, <3>1 DEF FramesInv
      <4> QED BY <1>n, <1>6, <2>1, <3>1, <4>1, <4>2
    <3>2. CASE i = m /\ frames'[i] = new
      <4>1. \A j \in DOMAIN frames' : ~(i < j)
        BY <1>4, <3>2
      <4>2. reqLen <= Sent
        BY <1>0 DEF FramesInv
      <4> QED BY <1>n, <1>1, <1>3, <1>6, <3>2, <4>1, <4>2
    <3> QED BY <1>7, <3>1, <3>2
  <2>3. ASSUME NEW b \in 0 .. Sent' - 1, Boundary(b)' PROVE \E i \in DOMAIN frames' : frames'[i].at = b
    <3>1. Boundary(b)
      <4>1. CASE b = reqLen
        BY <4>1 DEF Boundary
      <4>2. ASSUME NEW i \in DOMAIN frames', b = EndOf(frames'[i]) PROVE Boundary(b)
        <5>1. i # m
          BY <1>4, <1>6, <4>2
        <5> QED BY <1>7, <4>2, <5>1 DEF Boundary
      <4> QED BY <1>2, <2>3, <4>1, <4>2 DEF Boundary
    <3>2. b <= Sent
      BY <1>0, <3>1, BoundaryNat
    <3>3. CASE b < Sent
      <4>1. PICK i \in DOMAIN frames : frames[i].at = b
        BY <1>0, <1>n, <3>1, <3>3 DEF FramesInv
      <4> QED BY <1>4, <4>1
    <3>4. CASE b = Sent
      BY <1>3, <1>4, <3>4
    <3> QED BY <1>n, <3>2, <3>3, <3>4
  <2>4. reqLen <= Sent'
    BY <1>0, <1>n, <1>6 DEF FramesInv
  <2> QED BY <1>2, <2>2, <2>3, <2>4 DEF FramesInv
<1>11. RecvInv'
  <2>1. ASSUME NEW b, Boundary(b) PROVE Boundary(b)'
    <3>1. CASE b = reqLen
      BY <1>2, <3>1 DEF Boundary
    <3>2. ASSUME NEW i \in DOMAIN frames, b = EndOf(frames[i]) PROVE Boundary(b)'
      BY <1>4, <3>2 DEF Boundary
    <3> QED BY <2>1, <3>1, <3>2 DEF Boundary
  <2>2. (srv = "open" /\ ~cut) => Boundary(taken)'
    BY <1>0, <1>2, <2>1 DEF RecvInv
  <2> QED BY <1>0, <1>2, <2>2 DEF RecvInv
<1>12. FirstOfRecvUnderstood'
  <2> SUFFICES ASSUME NEW i \in DOMAIN frames', frames'[i].op, frames'[i].at = last.from,
                      Wire(frames'[i]) <= last.n
               PROVE  last.is = "text" /\ last.frame = i /\ last.got = frames'[i].len
    BY <1>2 DEF FirstOfRecvUnderstood
  <2>1. CASE i \in DOMAIN frames /\ frames'[i] = frames[i]
    BY <1>0, <2>1 DEF FirstOfRecvUnderstood
  <2>2. CASE i = m /\ frames'[i] = new
    <3>1. last.from + last.n <= taken /\ last.n \in Nat /\ last.from \in Nat
      BY <1>0, <1>l, <1>n, ConstantsAssumption DEF RecvInv
    <3>2. last.from = Sent /\ Wire(new) <= last.n
      BY <1>3, <2>2
    <3>3. Wire(new) \in Nat /\ Wire(new) > 0
      BY <1>3, <1>5
    <3> QED BY <1>n, <3>1, <3>2, <3>3
  <2> QED BY <1>7, <2>1, <2>2
<1>13. ClosedOnlyWhenAsked'
  <2> SUFFICES ASSUME srv = "closed", ~cut
               PROVE  \E i \in DOMAIN frames' : frames'[i].at = last.from /\ ~frames'[i].op
    BY <1>2 DEF ClosedOnlyWhenAsked
  <2>1. PICK i \in DOMAIN frames : frames[i].at = last.from /\ ~frames[i].op
    BY <1>0 DEF ClosedOnlyWhenAsked
  <2> QED BY <1>4, <2>1
<1>14. DiesOnlyOverCut' /\ NothingLeftBehind'
  BY <1>0, <1>2 DEF DiesOnlyOverCut, NothingLeftBehind
<1> QED BY <1>8, <1>9, <1>10, <1>11, <1>12, <1>13, <1>14 DEF IInv, TypeOK

(* A step that sends no frame leaves what is said of frames as it is. *)
LEMMA SameFrames ==
    ASSUME frames' = frames, reqLen' = reqLen
    PROVE  /\ Sent' = Sent /\ (FramesInv => FramesInv')
           /\ \A b : Boundary(b)' <=> Boundary(b)
BY DEF Sent, FramesInv, Boundary

LEMMA ArriveIInv == IInv /\ Arrive => IInv'
<1> SUFFICES ASSUME IInv, Arrive PROVE IInv'
  OBVIOUS
<1>0. /\ StateTypeOK /\ StreamTypeOK /\ FramesInv /\ RecvInv
      /\ FirstOfRecvUnderstood /\ ClosedOnlyWhenAsked /\ DiesOnlyOverCut /\ NothingLeftBehind
  BY Parts
<1>l. last \in [is : Kinds, frame : 0 .. Len(frames), got : Nat, from : 0 .. taken, n : 0 .. Buffer]
  BY Parts
<1>n. /\ Sent \in Nat /\ arrived \in Nat /\ taken \in Nat /\ taken <= arrived
  BY <1>0, StreamNats
<1>1. PICK b \in arrived + 1 .. Sent : arrived' = b /\ cut' = (cut \/ ~Boundary(b))
  BY DEF Arrive
<1>2. /\ srv \in {"shake", "open"} /\ event' = (srv = "open")
      /\ UNCHANGED <<srv, taken, last, browser, reqLen, zeroAt, frames>>
  BY DEF Arrive, ServerFrame
<1>3. Sent' = Sent /\ FramesInv' /\ \A c : Boundary(c)' <=> Boundary(c)
  BY <1>0, <1>2, SameFrames
<1>4. arrived' \in 0 .. Sent /\ taken < arrived' /\ taken \in 0 .. arrived'
  BY <1>n, <1>1
<1>5. cut' \in BOOLEAN /\ (cut => cut')
  BY <1>0, <1>1 DEF StateTypeOK
<1>6. StateTypeOK' /\ StreamTypeOK'
  BY <1>0, <1>2, <1>3, <1>4, <1>5 DEF StateTypeOK, StreamTypeOK
<1>7. RecvInv'
  BY <1>0, <1>2, <1>3, <1>4, <1>5 DEF RecvInv
<1>8. FirstOfRecvUnderstood' /\ ClosedOnlyWhenAsked' /\ DiesOnlyOverCut' /\ NothingLeftBehind'
  BY <1>0, <1>2, <1>5 DEF FirstOfRecvUnderstood, ClosedOnlyWhenAsked, DiesOnlyOverCut, NothingLeftBehind
<1> QED BY <1>l, <1>2, <1>3, <1>6, <1>7, <1>8 DEF IInv, TypeOK

LEMMA ShakeHandsIInv == IInv /\ ShakeHands => IInv'
<1> SUFFICES ASSUME IInv, ShakeHands PROVE IInv'
  OBVIOUS
<1>0. /\ StateTypeOK /\ StreamTypeOK /\ FramesInv /\ RecvInv
      /\ FirstOfRecvUnderstood /\ ClosedOnlyWhenAsked /\ DiesOnlyOverCut /\ NothingLeftBehind
  BY Parts
<1>l. last \in [is : Kinds, frame : 0 .. Len(frames), got : Nat, from : 0 .. taken, n : 0 .. Buffer]
  BY Parts
<1> DEFINE n == RecvLen(arrived)
<1>1. /\ srv = "shake" /\ n > 0 /\ srv' = "open" /\ taken' = n /\ event' = (arrived > n)
      /\ cut' = (cut \/ ~Boundary(n))
      /\ browser' \in {"open", "refused"}
      /\ UNCHANGED <<last, reqLen, zeroAt, frames, arrived>>
  BY DEF ShakeHands
<1>2. arrived \in Nat /\ n \in Nat /\ n <= arrived /\ (n < arrived => n = Buffer)
  BY <1>0, StreamNats, ConstantsAssumption DEF RecvLen, Lesser
<1> HIDE DEF n
<1>3. Sent' = Sent /\ FramesInv' /\ \A c : Boundary(c)' <=> Boundary(c)
  BY <1>0, <1>1, SameFrames
<1>4. cut' \in BOOLEAN /\ (cut => cut') /\ (~cut' => Boundary(n))
  BY <1>0, <1>1 DEF StateTypeOK
<1>5. last = [is |-> "none", frame |-> 0, got |-> 0, from |-> 0, n |-> 0]
  BY <1>0, <1>1 DEF RecvInv, NoRecv
<1>6. StateTypeOK' /\ StreamTypeOK'
  BY <1>0, <1>1, <1>2, <1>3, <1>4 DEF StateTypeOK, StreamTypeOK
<1>7. last' \in [is : Kinds, frame : 0 .. Len(frames'), got : Nat, from : 0 .. taken', n : 0 .. Buffer]
  <2>1. 0 \in 0 .. n
    BY <1>2
  <2> QED BY <1>l, <1>1, <1>5, <2>1
<1>8. RecvInv'
  <2>1. last.from + last.n <= n
    BY <1>2, <1>5
  <2> QED BY <1>1, <1>2, <1>3, <1>4, <2>1 DEF RecvInv
<1>9. FirstOfRecvUnderstood' /\ ClosedOnlyWhenAsked' /\ DiesOnlyOverCut'
  BY <1>0, <1>1 DEF FirstOfRecvUnderstood, ClosedOnlyWhenAsked, DiesOnlyOverCut
<1>10. NothingLeftBehind'
  BY <1>1, <1>2 DEF NothingLeftBehind
<1> QED BY <1>3, <1>6, <1>7, <1>8, <1>9, <1>10 DEF IInv, TypeOK

LEMMA ReceiveIInv == IInv /\ Receive => IInv'
<1> SUFFICES ASSUME IInv, Receive PROVE IInv'
  OBVIOUS
<1>0. /\ StateTypeOK /\ StreamTypeOK /\ FramesInv /\ RecvInv
  BY Parts
<1> DEFINE n == RecvLen(arrived - taken)
<1>1. /\ srv = "open" /\ event /\ event' = FALSE /\ taken' = taken + n
      /\ cut' = (cut \/ ~Boundary(taken + n))
      /\ UNCHANGED <<browser, reqLen, zeroAt, frames, arrived>>
  BY DEF Receive
<1>2. PICK r \in Analysed(n) :
        /\ last' = [r EXCEPT !.from = taken, !.n = n]
        /\ srv' = Outcome[r.is]
  BY DEF Receive
<1>3. /\ taken \in Nat /\ arrived \in Nat /\ taken + n <= arrived /\ n \in 1 .. Buffer
      /\ n \in Nat /\ Buffer \in Nat /\ Sent \in Nat /\ arrived <= Sent
      /\ taken + n < arrived => n = Buffer
  <2>1. taken \in Nat /\ arrived \in Nat /\ taken < arrived /\ Sent \in Nat /\ arrived <= Sent
    BY <1>0, <1>1, StreamNats DEF RecvInv
  <2>2. /\ arrived - taken \in Nat /\ arrived - taken > 0
    BY <2>1
  <2>3. n \in 1 .. Buffer /\ n <= arrived - taken /\ (n < arrived - taken => n = Buffer)
    BY <2>2, RecvLenIs
  <2> HIDE DEF n
  <2> QED BY <2>1, <2>3, ConstantsAssumption
<1> HIDE DEF n
<1>4. /\ r \in Result
      /\ last'.is = r.is /\ last'.frame = r.frame /\ last'.got = r.got
      /\ last'.from = taken /\ last'.n = n
  <2>1. r \in Result
    BY <1>0, <1>3, AnalysedTypes
  <2> QED BY <1>2, <2>1 DEF Result
<1>5. Sent' = Sent /\ FramesInv' /\ \A c : Boundary(c)' <=> Boundary(c)
  BY <1>0, <1>1, SameFrames
<1>6. cut' \in BOOLEAN /\ (~cut' => ~cut /\ Boundary(taken + n)) /\ (~cut' => Boundary(taken))
  BY <1>0, <1>1 DEF StateTypeOK, RecvInv
<1>7. srv' \in {"open", "closed", "dead"} /\ (srv' = "closed" => r.is = "closed")
      /\ (srv' = "dead" => r.is = "fault")
  BY <1>2, <1>4 DEF Result, Outcome
<1>8. StateTypeOK' /\ StreamTypeOK'
  <2>1. arrived' \in 0 .. Sent' /\ taken' \in 0 .. arrived'
    BY <1>1, <1>3, <1>5
  <2> QED BY <1>0, <1>1, <1>6, <1>7, <2>1 DEF StateTypeOK, StreamTypeOK
<1>9. last' \in [is : Kinds, frame : 0 .. Len(frames'), got : Nat, from : 0 .. taken', n : 0 .. Buffer]
  <2>1. taken \in 0 .. taken + n /\ n \in 0 .. Buffer
    BY <1>3
  <2>2. r.is \in Kinds
    BY <1>4 DEF Result, Kinds
  <2> QED BY <1>1, <1>2, <1>4, <2>1, <2>2 DEF Result
<1>10. RecvInv'
  <2>1. srv' # "shake" /\ event' = FALSE /\ last'.from + last'.n <= taken'
    BY <1>1, <1>3, <1>4, <1>7
  <2> QED BY <1>1, <1>5, <1>6, <2>1 DEF RecvInv
(* As long as nothing is cut a frame begins at taken, and is received whole. *)
<1>11. ASSUME ~cut' PROVE \E i \in DOMAIN frames : frames[i].at = taken /\ Wire(frames[i]) <= n
  <2>1. taken < Sent
    BY <1>3
  <2>2. PICK i \in DOMAIN frames : frames[i].at = taken
    BY <1>0, <1>3, <1>6, <1>11, <2>1 DEF FramesInv
  <2>3. taken + n >= EndOf(frames[i])
    <3>1. taken + n > frames[i].at
      BY <1>3, <2>2
    <3> QED BY <1>0, <1>6, <1>11, <3>1, BoundaryNext
  <2> QED BY <1>0, <1>3, <2>2, <2>3, FrameTypes
<1>12. FirstOfRecvUnderstood'
  <2> SUFFICES ASSUME NEW i \in DOMAIN frames, frames[i].op, frames[i].at = taken,
                      Wire(frames[i]) <= n
               PROVE  last'.is = "text" /\ last'.frame = i /\ last'.got = frames[i].len
    BY <1>1, <1>4 DEF FirstOfRecvUnderstood
  <2>1. r = Text(i, frames[i].len)
    BY <1>0, <1>3, WholeFrame
  <2> QED BY <1>4, <2>1, Outcomes
<1>13. ClosedOnlyWhenAsked' /\ DiesOnlyOverCut'
  <2> SUFFICES ASSUME ~cut'
               PROVE  /\ srv' = "closed" => \E i \in DOMAIN frames : frames[i].at = taken /\ ~frames[i].op
                      /\ srv' # "dead"
    BY <1>1, <1>4 DEF ClosedOnlyWhenAsked, DiesOnlyOverCut
  <2>1. PICK i \in DOMAIN frames : frames[i].at = taken /\ Wire(frames[i]) <= n
    BY <1>11
  <2>2. r.is # "fault" /\ (r.is = "closed" => ~frames[i].op)
    BY <1>0, <1>3, <2>1, WholeFrame
  <2> QED BY <1>7, <2>1, <2>2
<1>14. NothingLeftBehind'
  BY <1>1, <1>3, <1>4 DEF NothingLeftBehind
<1> QED BY <1>5, <1>8, <1>9, <1>10, <1>12, <1>13, <1>14 DEF IInv, TypeOK

LEMMA QuietIInv ==
    ASSUME IInv, UNCHANGED <<srv, event, taken, last, browser, reqLen, zeroAt, frames, arrived, cut>>
    PROVE  IInv'
<1>1. StateTypeOK' /\ StreamTypeOK' /\ FramesInv'
  BY Parts, SameFrames DEF StateTypeOK, StreamTypeOK
<1>2. RecvInv'
  BY Parts, SameFrames DEF RecvInv
<1> QED BY <1>1, <1>2, Parts
        DEF IInv, TypeOK, FirstOfRecvUnderstood, ClosedOnlyWhenAsked, DiesOnlyOverCut, NothingLeftBehind

LEMMA IInvInductive == IInv /\ [Next]_vars => IInv'
<1> SUFFICES ASSUME IInv, [Next]_vars PROVE IInv'
  OBVIOUS
<1>1. CASE Message \/ UNCHANGED vars
  BY <1>1, QuietIInv DEF Message, vars
<1> QED BY <1>1, SendFrameIInv, ArriveIInv, ShakeHandsIInv, ReceiveIInv DEF Next

-------------------------------------------------------------------------------
(* Messages to the browser *)

(* What two bytes in the order of this machine say is never what a browser   *)
(* reads in the other order, if the second byte is left zero.                *)
LEMMA SwappedDiffers ==
    ASSUME NEW n \in Nat, NEW b \in Nat \ {0}, (n % b) * b = n
    PROVE  n = 0
<1> DEFINE q == n \div b
           d == n % b
<1>1. q \in Nat /\ d \in Nat /\ d < b /\ n = b * q + d
  BY SMT
<1> HIDE DEF q, d
<1>2. d * b = b * q + d
  BY <1>1 DEF d
<1>3. CASE d = 0
  BY <1>3 DEF d
<1>4. CASE d # 0
  <2>1. d * b = b * d
    BY <1>1
  <2>2. CASE q >= d
    <3>1. b * q >= b * d
      BY <1>1, <2>2, SMT
    <3>2. b * q \in Nat /\ b * d \in Nat
      BY <1>1
    <3> QED BY <1>1, <1>2, <1>4, <2>1, <3>1, <3>2
  <2>3. CASE q < d
    <3>1. b * (q + 1) <= b * d /\ b * (q + 1) = b * q + b
      BY <1>1, <2>3, SMT
    <3>2. b * q \in Nat /\ b * d \in Nat
      BY <1>1
    <3> QED BY <1>1, <1>2, <2>1, <3>1, <3>2
  <2> QED BY <1>1, <2>2, <2>3
<1> QED BY <1>3, <1>4

LEMMA LengthReadBack ==
    ASSUME NEW n \in Nat
    PROVE  /\ (ReadLength(LengthBytes(n)) # n) <=> (n >= Medium)
           /\ ReadLength(LengthBytes(n)) \in Nat /\ Len(LengthBytes(n)) \in Nat
<1>0. Medium \in Nat \ {0} /\ Base \in Nat \ {0}
  BY MessagesAssumption
<1>1. CASE n < Medium
  <2>1. LengthBytes(n) = <<n>>
    BY <1>1 DEF LengthBytes
  <2> QED BY <1>0, <1>1, <2>1 DEF ReadLength
<1>2. CASE n >= Medium
  <2>1. LengthBytes(n) = <<Medium, n % Base, 0>>
    BY <1>0, <1>2 DEF LengthBytes
  <2>2. n % Base \in Nat
    BY <1>0, SMT
  <2> DEFINE d == n % Base
  <2>3. d * Base \in Nat
    BY <1>0, <2>2
  <2>4. ReadLength(LengthBytes(n)) = d * Base + 0
    <3> HIDE DEF d
    <3> QED BY <1>0, <2>1 DEF ReadLength, d
  <2>5. n # 0
    BY <1>0, <1>2
  <2>6. d * Base # n
    BY <1>0, <2>5, SwappedDiffers
  <2> HIDE DEF d
  <2> QED BY <1>2, <2>3, <2>4, <2>6
<1> QED BY <1>0, <1>1, <1>2

-------------------------------------------------------------------------------
(* Messages to the browser *)

LEMMA InitMsg == MsgInit => MsgInv
<1> SUFFICES ASSUME MsgInit PROVE MsgInv
  OBVIOUS
<1>1. /\ sending = FALSE /\ again = FALSE /\ due = 0 /\ read = {} /\ out = <<>>
      /\ out \in Seq(MsgLens) /\ DOMAIN out = {}
  BY DEF MsgInit
<1> QED BY <1>1 DEF MsgInv, MsgTypeOK, OnlyShortReadBack, InStepInv

(* The messages sent so far and one more.                                    *)
LEMMA AppendedMessage ==
    ASSUME MsgTypeOK, NEW n \in MsgLens, out' = Append(out, n)
    PROVE  /\ out' \in Seq(MsgLens) /\ Len(out) \in Nat
           /\ DOMAIN out = 1 .. Len(out) /\ DOMAIN out' = 1 .. Len(out) + 1
           /\ \A k \in DOMAIN out : out'[k] = out[k]
           /\ out'[Len(out) + 1] = n
           /\ Len(out) + 1 \notin DOMAIN out
BY DEF MsgTypeOK

AllShort(k) == \A j \in 1 .. k : out[j] < Medium
StillShort(k) == \A j \in 1 .. k : out'[j] < Medium

LEMMA SendMsg ==
    ASSUME MsgInv, NEW n \in MsgLens, Send(n)
    PROVE  MsgInv'
<1> DEFINE m == Len(out) + 1
           says == ReadLength(LengthBytes(n))
<1>0. MsgTypeOK /\ OnlyShortReadBack /\ InStepInv /\ n \in Nat
  BY MessagesAssumption DEF MsgInv
<1>1. /\ out' \in Seq(MsgLens) /\ Len(out) \in Nat
      /\ DOMAIN out = 1 .. Len(out) /\ DOMAIN out' = 1 .. m
      /\ (\A k \in DOMAIN out : out'[k] = out[k]) /\ out'[m] = n /\ m \notin DOMAIN out
  BY <1>0, AppendedMessage DEF Send
<1>2. /\ sending' \in BOOLEAN /\ again \in BOOLEAN /\ due \in Nat \cup {-1} /\ read \subseteq 1 .. Len(out)
  BY <1>0, <1>1 DEF Send, MsgTypeOK, Astray
<1>3. says \in Nat /\ (says # n <=> n >= Medium) /\ Len(LengthBytes(n)) \in Nat /\ Medium \in Nat
  BY <1>0, LengthReadBack, MessagesAssumption
<1>4. WireLen(n) \in Nat
  BY <1>0, <1>3 DEF WireLen
<1> HIDE DEF says, m
<1>m. m = Len(out) + 1 /\ m \in Nat
  BY <1>1 DEF m
(* Whether all were short, before and after. *)
<1>5. ASSUME NEW k \in 1 .. Len(out) PROVE StillShort(k) <=> AllShort(k)
  <2>1. \A j \in 1 .. k : j \in DOMAIN out
    BY <1>1
  <2> QED BY <1>1, <2>1 DEF AllShort, StillShort
<1>6. StillShort(m) <=> AllShort(Len(out)) /\ n < Medium
  <2>1. \A j \in 1 .. m : j = m \/ j \in 1 .. Len(out)
    BY <1>m, <1>1
  <2>2. m \in 1 .. m /\ \A j \in 1 .. Len(out) : j \in 1 .. m /\ j \in DOMAIN out
    BY <1>m, <1>1
  <2> QED BY <1>1, <2>1, <2>2 DEF AllShort, StillShort
<1>7. ~again => /\ due = 0 <=> AllShort(Len(out))
                /\ \A k \in 1 .. Len(out) : k \in read <=> AllShort(k)
  BY <1>0, <1>1 DEF InStepInv, OnlyShortReadBack, AllShort
(* The new message: read if in step and short. *)
<1>8. /\ due' \in Nat \cup {-1} /\ again' \in BOOLEAN
      /\ read' = read \/ (read' = read \cup {m})
      /\ ~again' => /\ ~again
                    /\ due' = 0 <=> due = 0 /\ n < Medium
                    /\ read' = read \cup {m} <=> due = 0 /\ n < Medium
  <2>1. m \notin read
    BY <1>1, <1>2
  <2>2. CASE ReadsHeader(n)
    <3>1. /\ due = 0 /\ again' = again
          /\ read' = IF says = n THEN read \cup {m} ELSE read
          /\ due' = IF says >= n THEN says - n ELSE -1
      BY <2>2 DEF ReadsHeader, Astray, says, m
    <3>2. n < Medium <=> says = n
      BY <1>0, <1>3
    <3>3. due' \in Nat \cup {-1} /\ (due' = 0 <=> says = n)
      BY <1>0, <1>3, <3>1
    <3> QED BY <1>2, <2>1, <3>1, <3>2, <3>3
  <2>3. CASE Swallows(n)
    <3>1. /\ due > 0 /\ read' = read
          /\ due' = IF WireLen(n) <= due THEN due - WireLen(n) ELSE -1
          /\ again' = (again \/ WireLen(n) = due)
      BY <2>3 DEF Swallows, Astray
    <3>2. due \in Nat /\ due # 0
      BY <1>2, <3>1
    <3>3. due' \in Nat \cup {-1} /\ (due' = 0 => WireLen(n) = due)
      BY <1>4, <3>1, <3>2
    <3> QED BY <1>2, <2>1, <3>1, <3>2, <3>3
  <2>4. CASE Strays
    <3>1. due = -1 /\ due' \in {0, -1} /\ again' = (again \/ due' = 0) /\ read' = read
      BY <2>4 DEF Strays, Astray
    <3>2. due' \in Nat \cup {-1}
      BY <3>1
    <3>4. due' = 0 => again'
      BY <1>2, <3>1, Zenon
    <3>3. read' # read \cup {m} /\ due # 0
      BY <2>1, <3>1
    <3> QED BY <1>2, <3>1, <3>2, <3>3, <3>4
  <2> QED BY <2>2, <2>3, <2>4 DEF Send
<1>9. MsgTypeOK'
  <2>1. read' \subseteq 1 .. m
    <3>1. \A k \in 1 .. Len(out) : k \in 1 .. m
      BY <1>m, <1>1
    <3>2. m \in 1 .. m
      BY <1>m, <1>1
    <3> QED BY <1>2, <1>8, <3>1, <3>2
  <2> QED BY <1>1, <1>2, <1>8, <2>1 DEF MsgTypeOK, Astray
<1>10. InStepInv'
  <2>1. StillShort(m) <=> \A j \in DOMAIN out' : out'[j] < Medium
    BY <1>1, <1>m DEF StillShort
  <2> QED BY <1>6, <1>7, <1>8, <2>1 DEF InStepInv
<1>11. OnlyShortReadBack'
  <2> SUFFICES ASSUME ~again', NEW k \in 1 .. m
               PROVE  k \in read' <=> StillShort(k)
    BY <1>1 DEF OnlyShortReadBack, StillShort
  <2>1. CASE k = m
    <3>1. m \notin read
      BY <1>1, <1>2
    <3>2. m \in read' <=> read' = read \cup {m}
      BY <1>8, <3>1
    <3> QED BY <1>6, <1>7, <1>8, <2>1, <3>2
  <2>2. CASE k # m
    <3>1. k \in 1 .. Len(out)
      BY <1>m, <1>1, <2>2
    <3> QED BY <1>5, <1>7, <1>8, <2>2, <3>1
  <2> QED BY <2>1, <2>2
<1> QED BY <1>9, <1>10, <1>11 DEF MsgInv

LEMMA MsgInductive == MsgInv /\ [MsgNext]_msgVars => MsgInv'
<1> SUFFICES ASSUME MsgInv, [MsgNext]_msgVars PROVE MsgInv'
  OBVIOUS
<1>1. CASE \E n \in MsgLens : Send(n)
  BY <1>1, SendMsg
<1>2. CASE (~sending /\ Starts(TRUE)) \/ (\E n \in MsgLens : SendTooLong(n)) \/ UNCHANGED msgVars
  <2>1. UNCHANGED <<out, due, read, again>> /\ (sending' \in BOOLEAN \/ sending' = sending)
    BY <1>2 DEF Starts, SendTooLong, msgVars
  <2> QED BY <2>1 DEF MsgInv, MsgTypeOK, OnlyShortReadBack, InStepInv
<1> QED BY <1>1, <1>2 DEF MsgNext, SendMessage

-------------------------------------------------------------------------------
(* Theorems *)

(* In every reachable state the variables have their types, frames follow    *)
(* each other, and recv and events go with them.                             *)
THEOREM IInvCorrect == Spec => []IInv
<1> QED BY InitIInv, IInvInductive, PTL DEF Spec

(* The frame a recv begins with is understood whole if all of it is there    *)
(* (get_php_oper_info.c:221).                                                *)
THEOREM FirstOfRecvCorrect == Spec => []FirstOfRecvUnderstood
<1>1. IInv => FirstOfRecvUnderstood
  BY DEF IInv
<1> QED BY <1>1, IInvCorrect, PTL

(* Of whole frames none closes the connection but a close frame              *)
(* (get_php_oper_info.c:223).                                                *)
THEOREM ClosedOnlyWhenAskedCorrect == Spec => []ClosedOnlyWhenAsked
<1>1. IInv => ClosedOnlyWhenAsked
  BY DEF IInv
<1> QED BY <1>1, IInvCorrect, PTL

(* Whole frames, also several at once, do not kill the server.               *)
THEOREM DiesOnlyOverCutCorrect == Spec => []DiesOnlyOverCut
<1>1. IInv => DiesOnlyOverCut
  BY DEF IInv
<1> QED BY <1>1, IInvCorrect, PTL

(* Bytes are left unread only behind a recv that filled the buffer           *)
(* (main.c:144).                                                             *)
THEOREM NothingLeftBehindCorrect == Spec => []NothingLeftBehind
<1>1. IInv => NothingLeftBehind
  BY DEF IInv
<1> QED BY <1>1, IInvCorrect, PTL

(* What a browser makes of the messages: it reads one as it was sent if, and *)
(* only if, that one and all before it are shorter than 126 bytes, as long as*)
(* no coincidence has brought it in step again (get_php_oper_info.c:301,     *)
(* 316-317).                                                                 *)
THEOREM MsgInvCorrect == MsgSpec => []MsgInv
<1> QED BY InitMsg, MsgInductive, PTL DEF MsgSpec

(* On every connection messages come as BrowserMessages has them.            *)
THEOREM ImplementsMessages == Spec => MsgSpec
<1>1. Init => MsgInit
  BY DEF Init
<1>2. [Next]_vars => [MsgNext]_msgVars
  <2> SUFFICES ASSUME [Next]_vars PROVE [MsgNext]_msgVars
    OBVIOUS
  <2>1. CASE Receive
    <3>1. PICK begins \in BOOLEAN : Starts(begins)
      BY <2>1 DEF Receive
    <3>2. CASE ~sending /\ begins
      BY <3>1, <3>2 DEF MsgNext, Starts
    <3>3. CASE sending \/ ~begins
      <4>1. sending' = sending
        BY <3>1, <3>3, Zenon DEF Starts
      <4> QED BY <3>1, <4>1 DEF Starts, msgVars
    <3> QED BY <3>2, <3>3
  <2>2. CASE Message
    BY <2>2 DEF Message, MsgNext
  <2>3. CASE SendFrame \/ Arrive \/ ShakeHands \/ UNCHANGED vars
    BY <2>3 DEF SendFrame, Arrive, ShakeHands, ServerFrame, vars
  <2> QED BY <2>1, <2>2, <2>3 DEF Next
<1> QED BY <1>1, <1>2, PTL DEF Spec, MsgSpec

THEOREM OnlyShortReadBackCorrect == Spec => []OnlyShortReadBack
<1>1. MsgInv => OnlyShortReadBack
  BY DEF MsgInv
<1> QED BY <1>1, MsgInvCorrect, ImplementsMessages, PTL
================================================================================
