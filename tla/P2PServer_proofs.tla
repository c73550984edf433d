---------------------------- MODULE P2PServer_proofs ---------------------------
(***************************************************************************)
(* Proofs about P2PServer, for every size of the file and of the buffer,   *)
(* any number of descriptors and of requests.                              *)
(***************************************************************************)
EXTENDS P2PServer, FiniteSetTheorems, TLAPS

-------------------------------------------------------------------------------
(* Sizes and offsets *)

LEMMA RestNat ==
    ASSUME NEW pos \in Nat
    PROVE  Rest(pos) \in Nat
BY ConstantsAssumption DEF Rest

(* Reading as far as the file goes leaves the rest of it.                    *)
LEMMA RestAfter ==
    ASSUME NEW pos \in Nat, NEW read \in Nat, read <= Rest(pos)
    PROVE  Rest(pos + read) = Rest(pos) - read
BY ConstantsAssumption DEF Rest

(* A round of the loop takes as much from what is still to be sent as it     *)
(* reads; and if it reads less than a block though bytes are missing, there  *)
(* is nothing left of the file.                                              *)
LEMMA RoundAdds ==
    ASSUME NEW size \in Nat, NEW rest \in Nat, NEW n, NEW read,
           n = Smaller(Block, size), read = Smaller(n, rest)
    PROVE  /\ n \in 0 .. size /\ read \in 0 .. rest
           /\ read + Smaller(size - n, rest - read) = Smaller(size, rest)
           /\ (read # Block /\ size - n # 0) => rest - read = 0
<1>1. Block \in Nat
  BY ConstantsAssumption
<1>2. n \in 0 .. size /\ (n = Block \/ (n = size /\ size <= Block))
  BY <1>1 DEF Smaller
<1>3. read \in 0 .. rest /\ ((read = n /\ n <= rest) \/ (read = rest /\ rest <= n))
  BY <1>2 DEF Smaller
<1>4. CASE read = n /\ n <= rest
  BY <1>1, <1>2, <1>3, <1>4 DEF Smaller
<1>5. CASE read = rest /\ rest <= n
  BY <1>1, <1>2, <1>3, <1>5 DEF Smaller
<1> QED BY <1>2, <1>3, <1>4, <1>5

-------------------------------------------------------------------------------
(* Threads and clients *)

LEMMA RecordTypes ==
    ASSUME TypeOK, NEW r \in R
    PROVE  /\ cl[r] \in Client /\ h[r] \in Handler
           /\ h[r].size \in Int /\ h[r].pos \in Nat /\ h[r].sent \in Nat
           /\ cl[r].size \in Int /\ cl[r].start \in Nat /\ r \in Nat
           /\ accepted \in Nat /\ connected \in Nat
<1>1. cl[r] \in Client /\ h[r] \in Handler
  BY DEF TypeOK
<1>2. Sizes \subseteq Int /\ Starts \subseteq Nat
  BY ConstantsAssumption DEF Sizes, Starts
<1>3. r \in Nat /\ accepted \in Nat /\ connected \in Nat
  BY ConstantsAssumption DEF TypeOK, CountsOK, R
<1>4. /\ h[r].size \in Int /\ h[r].pos \in Nat /\ h[r].sent \in Nat
      /\ cl[r].size \in Int /\ cl[r].start \in Nat
  BY <1>1, <1>2 DEF Client, Handler
<1> QED BY <1>1, <1>3, <1>4

LEMMA Counts ==
    TypeOK => /\ fds \in Nat /\ accepted \in Nat /\ connected \in Nat
              /\ MaxFds \in Nat /\ Requests \in Nat
              /\ fds <= MaxFds /\ accepted <= connected /\ connected <= Requests
BY ConstantsAssumption DEF TypeOK, CountsOK

LEMMA AnsweringFinite ==
    TypeOK => IsFiniteSet(Answering) /\ Cardinality(Answering) \in Nat
<1>1. IsFiniteSet(R)
  BY ConstantsAssumption, FS_Interval DEF R
<1>2. Answering \in SUBSET R
  BY DEF Answering
<1>3. IsFiniteSet(Answering)
  BY <1>1, <1>2, FS_Subset
<1> QED BY <1>3, FS_CardinalityType

(* A thread whose answer neither begins nor ends. *)
LEMMA SameAnswering ==
    ASSUME \A r \in R : h'[r].pc \in {"header", "loop", "close"}
                          <=> h[r].pc \in {"header", "loop", "close"}
    PROVE  Answering' = Answering
BY DEF Answering

(* A step of the thread of r, or of its client, that keeps what HandlersInv  *)
(* says of r keeps all of it.                                                *)
HandlerOK(r) ==
    /\ r > accepted => h[r].pc = "none"
    /\ h[r].pc \in Begun => cl[r].text # "none"
    /\ (h[r].pc \in Begun /\ Asked(r) /\ ~Left(r))
         => h[r].size >= 0 /\ h[r].sent + Smaller(h[r].size, Rest(h[r].pos)) = Served(r)
    /\ (h[r].pc \in {"close", "done"} /\ Asked(r) /\ ~Left(r))
         => Smaller(h[r].size, Rest(h[r].pos)) = 0
    /\ (h[r].pc \in Begun /\ h[r].size < 0 /\ ~Left(r))
         => cl[r].size < 0 /\ h[r].pos = cl[r].start

LEMMA OthersKept ==
    ASSUME HandlersInv, NEW r \in R, HandlerOK(r)', accepted' = accepted,
           \A q \in R \ {r} : h'[q] = h[q] /\ cl'[q] = cl[q]
    PROVE  HandlersInv'
<1> SUFFICES ASSUME NEW q \in R \ {r} PROVE HandlerOK(q)'
  BY DEF HandlersInv, HandlerOK, Asked, Left
<1> QED BY DEF HandlersInv, HandlerOK, Served, Asked, Left

LEMMA HandlerIs == ASSUME HandlersInv, NEW r \in R PROVE HandlerOK(r)
BY DEF HandlersInv, HandlerOK, Asked, Left

(* The thread of r has replaced its record. *)
LEMMA Replaced ==
    ASSUME TypeOK, NEW r \in R, NEW new \in Handler, h' = [h EXCEPT ![r] = new]
    PROVE  /\ h' \in [R -> Handler] /\ h'[r] = new
           /\ \A q \in R \ {r} : h'[q] = h[q]
BY DEF TypeOK

LEMMA ClientReplaced ==
    ASSUME TypeOK, NEW r \in R, NEW new \in Client, cl' = [cl EXCEPT ![r] = new]
    PROVE  /\ cl' \in [R -> Client] /\ cl'[r] = new
           /\ \A q \in R \ {r} : cl'[q] = cl[q]
BY DEF TypeOK

-------------------------------------------------------------------------------
(* IInv is inductive *)

LEMMA InitIInv == Init => IInv
<1> SUFFICES ASSUME Init PROVE IInv
  OBVIOUS
<1>1. NoClient \in Client /\ NoHandler \in Handler
  BY ConstantsAssumption DEF NoClient, NoHandler, Client, Handler, Sizes, Starts
<1>2. TypeOK
  <2>1. ProcessTypeOK
    BY DEF Init, ProcessTypeOK
  <2>2. CountsOK
    BY ConstantsAssumption DEF Init, CountsOK
  <2> QED BY <1>1, <2>1, <2>2 DEF Init, TypeOK
<1>3. \A r \in R : h[r].pc = "none"
  BY DEF Init, NoHandler
<1>4. HandlersInv
  BY <1>3 DEF HandlersInv, Begun
<1>5. DescriptorsCount
  <2>1. Answering = {}
    BY <1>3 DEF Answering
  <2> QED BY <2>1, FS_EmptySet DEF Init, DescriptorsCount
<1>6. DiesOnlyBecause
  BY DEF Init, DiesOnlyBecause
<1> QED BY <1>2, <1>4, <1>5, <1>6 DEF IInv

(* A step of the main thread or of the one whose accept failed. *)
LEMMA MainIInv == IInv /\ (MainStep \/ Fault) => IInv'
<1> SUFFICES ASSUME IInv, MainStep \/ Fault PROVE IInv'
  OBVIOUS
<1>0. TypeOK /\ HandlersInv /\ DescriptorsCount /\ DiesOnlyBecause
  BY DEF IInv
<1>1. CASE EnterAccept
  <2>1. /\ death' = "no" /\ main = "call" /\ fds < MaxFds /\ main' = "accept" /\ fds' = fds + 1
        /\ UNCHANGED <<faulting, accepted, connected, cl, h>>
    BY <1>1, <1>0 DEF EnterAccept, clientVars, Up
  <2>2. TypeOK'
    <3>1. CountsOK'
      BY <1>0, <2>1, Counts DEF CountsOK
    <3> QED BY <1>0, <2>1, <3>1 DEF TypeOK, ProcessTypeOK
  <2>3. Answering' = Answering
    BY <2>1 DEF Answering
  <2>4. DescriptorsCount'
    BY <1>0, <2>1, <2>3, AnsweringFinite, Counts DEF DescriptorsCount
  <2>5. HandlersInv' /\ DiesOnlyBecause'
    BY <1>0, <2>1 DEF HandlersInv, DiesOnlyBecause, Served, Asked, Left
  <2> QED BY <2>2, <2>4, <2>5 DEF IInv
<1>2. CASE Accept
  <2>1. /\ death' = "no" /\ main = "accept" /\ main' = "call"
        /\ accepted < connected /\ accepted' = accepted + 1
        /\ h' = [h EXCEPT ![accepted + 1].pc = "parse"]
        /\ UNCHANGED <<faulting, fds, connected, cl>>
    BY <1>2, <1>0 DEF Accept, clientVars, Up
  <2>2. accepted + 1 \in R /\ accepted \in Nat
    BY <1>0, <2>1, Counts DEF R
  <2> DEFINE new == [h[accepted + 1] EXCEPT !.pc = "parse"]
  <2>3. new \in Handler /\ new.pc = "parse"
    BY <1>0, <2>2, RecordTypes DEF Handler
  <2>4. h' = [h EXCEPT ![accepted + 1] = new]
    BY <2>1
  <2> HIDE DEF new
  <2>5. /\ h' \in [R -> Handler] /\ h'[accepted + 1].pc = "parse"
        /\ \A q \in R \ {accepted + 1} : h'[q] = h[q]
    BY <1>0, <2>2, <2>3, <2>4, Replaced
  <2>6. TypeOK'
    <3>1. CountsOK'
      BY <1>0, <2>1, Counts DEF CountsOK
    <3> QED BY <1>0, <2>1, <2>5, <3>1 DEF TypeOK, ProcessTypeOK
  <2>7. h[accepted + 1].pc = "none"
    BY <1>0, <2>2 DEF HandlersInv
  <2>8. Answering' = Answering
    BY <2>2, <2>5, <2>7, SameAnswering
  <2>9. DescriptorsCount'
    BY <1>0, <2>1, <2>8, AnsweringFinite, Counts DEF DescriptorsCount
  <2>10. HandlersInv'
    <3> SUFFICES ASSUME NEW r \in R PROVE HandlerOK(r)'
      BY DEF HandlersInv, HandlerOK, Asked, Left
    <3>1. CASE r = accepted + 1
      BY <2>1, <2>2, <2>5, <3>1 DEF HandlerOK, Begun
    <3>2. CASE r # accepted + 1
      <4>1. r > accepted + 1 => r > accepted
        BY <2>2 DEF R
      <4> QED BY <1>0, <2>1, <2>5, <3>2, <4>1, HandlerIs DEF HandlerOK, Served, Asked, Left
    <3> QED BY <3>1, <3>2
  <2> QED BY <2>1, <2>6, <2>9, <2>10 DEF IInv, DiesOnlyBecause
<1>3. CASE AcceptFails
  <2>1. /\ death' = "no" /\ faulting' = TRUE
        /\ UNCHANGED <<main, fds, accepted, connected, cl, h>>
    BY <1>3, <1>0 DEF AcceptFails, clientVars, Up
  <2>2. TypeOK' /\ HandlersInv'
    BY <1>0, <2>1 DEF TypeOK, ProcessTypeOK, CountsOK, HandlersInv, Served, Asked, Left
  <2>3. DescriptorsCount' /\ DiesOnlyBecause'
    BY <1>0, <2>1 DEF DescriptorsCount, Answering, DiesOnlyBecause
  <2> QED BY <2>2, <2>3 DEF IInv
<1>4. CASE Fault
  <2>1. /\ death' = "no descriptor" /\ faulting
        /\ UNCHANGED <<main, faulting, fds, accepted, connected, cl, h>>
    BY <1>4 DEF Fault, Dies, clientVars
  <2>2. TypeOK' /\ HandlersInv'
    BY <1>0, <2>1 DEF TypeOK, ProcessTypeOK, CountsOK, HandlersInv, Served, Asked, Left
  <2>3. DescriptorsCount' /\ DiesOnlyBecause'
    BY <1>0, <2>1 DEF DescriptorsCount, Answering, DiesOnlyBecause
  <2> QED BY <2>2, <2>3 DEF IInv
<1> QED BY <1>1, <1>2, <1>3, <1>4 DEF MainStep

(* The descriptors of a thread are those of its open file. *)
LEMMA AnswerBegins ==
    ASSUME TypeOK, NEW r \in R, h[r].pc \notin {"header", "loop", "close"},
           h'[r].pc \in {"header", "loop", "close"}, \A q \in R \ {r} : h'[q] = h[q]
    PROVE  Cardinality(Answering') = Cardinality(Answering) + 1
<1>1. Answering' = Answering \cup {r} /\ r \notin Answering
  BY DEF Answering
<1> QED BY <1>1, AnsweringFinite, FS_AddElement

LEMMA AnswerEnds ==
    ASSUME TypeOK, NEW r \in R, h[r].pc \in {"header", "loop", "close"},
           h'[r].pc \notin {"header", "loop", "close"}, \A q \in R \ {r} : h'[q] = h[q]
    PROVE  Cardinality(Answering') = Cardinality(Answering) - 1
<1>1. Answering' = Answering \ {r} /\ r \in Answering
  BY DEF Answering
<1> QED BY <1>1, AnsweringFinite, FS_RemoveElement

LEMMA AnswerGoesOn ==
    ASSUME NEW r \in R, \A q \in R \ {r} : h'[q] = h[q],
           h'[r].pc \in {"header", "loop", "close"} <=> h[r].pc \in {"header", "loop", "close"}
    PROVE  Answering' = Answering
BY DEF Answering

(* What a step of the thread of r has to show, if the process lives on ...   *)
LEMMA LivesOn ==
    ASSUME IInv, NEW r \in R, death' = "no", UNCHANGED <<main, faulting, accepted, connected>>,
           cl' \in [R -> Client], h' \in [R -> Handler],
           \A q \in R \ {r} : h'[q] = h[q] /\ cl'[q] = cl[q], HandlerOK(r)',
           fds' \in Nat, fds' <= MaxFds, Cardinality(Answering') \in Nat,
           fds' - Cardinality(Answering') = fds - Cardinality(Answering)
    PROVE  IInv'
<1>0. TypeOK /\ HandlersInv /\ DescriptorsCount
  BY DEF IInv
<1>1. CountsOK'
  BY <1>0, Counts DEF CountsOK
<1>2. TypeOK'
  BY <1>0, <1>1 DEF TypeOK, ProcessTypeOK
<1>3. HandlersInv'
  BY <1>0, OthersKept
<1>4. DescriptorsCount'
  BY <1>0, Counts, AnsweringFinite DEF DescriptorsCount
<1> QED BY <1>2, <1>3, <1>4 DEF IInv, DiesOnlyBecause

(* ... and if it ends it. *)
LEMMA DiesOf ==
    ASSUME IInv, death' \in {"no request", "no file", "no descriptor", "sigpipe", "overrun"},
           UNCHANGED <<main, faulting, accepted, connected, fds, cl, h>>,
           \/ \E r \in R : Left(r) \/ (cl[r].text # "none" /\ ~cl[r].exists) \/ AsksTooMuch(r)
           \/ fds = MaxFds
    PROVE  IInv'
<1>1. TypeOK' /\ HandlersInv'
  BY DEF IInv, TypeOK, ProcessTypeOK, CountsOK, HandlersInv, Served, Asked, Left
<1>2. DescriptorsCount'
  BY DEF IInv, DescriptorsCount, Answering
<1> QED BY <1>1, <1>2 DEF IInv, DiesOnlyBecause, Left, AsksTooMuch

(* send() changes nothing of the client but that it is gone, for good.       *)
LEMMA AfterSendDoes ==
    ASSUME TypeOK, NEW r \in R, AfterSend(r)
    PROVE  /\ cl' \in [R -> Client] /\ \A q \in R \ {r} : cl'[q] = cl[q]
           /\ cl'[r].text = cl[r].text /\ cl'[r].size = cl[r].size /\ cl'[r].start = cl[r].start
           /\ Left(r) => Left(r)'
<1>1. PICK g \in {"no", "full", "fin", "pipe"} :
        cl' = [cl EXCEPT ![r].gone = g] /\ (Left(r) => g \in {"fin", "pipe"})
  BY DEF AfterSend, Left
<1> DEFINE new == [cl[r] EXCEPT !.gone = g]
<1>2. new \in Client /\ new.text = cl[r].text /\ new.size = cl[r].size /\ new.start = cl[r].start
      /\ new.gone = g
  BY RecordTypes DEF Client
<1>3. cl' = [cl EXCEPT ![r] = new]
  BY <1>1
<1> HIDE DEF new
<1> QED BY <1>1, <1>2, <1>3, ClientReplaced DEF Left

(* A step of handle_request. *)
LEMMA HandleIInv == ASSUME IInv, NEW r \in R, Handle(r) PROVE IInv'
<1>0. TypeOK /\ HandlersInv /\ DescriptorsCount /\ HandlerOK(r)
  BY HandlerIs DEF IInv
<1>c. /\ fds \in Nat /\ MaxFds \in Nat /\ fds <= MaxFds
      /\ IsFiniteSet(Answering) /\ Cardinality(Answering) \in Nat
  BY <1>0, Counts, AnsweringFinite
<1>t. /\ cl[r] \in Client /\ h[r] \in Handler
      /\ h[r].size \in Int /\ h[r].pos \in Nat /\ h[r].sent \in Nat
      /\ cl[r].size \in Int /\ cl[r].start \in Nat
  BY <1>0, RecordTypes
<1>p. /\ Rest(h[r].pos) \in Nat
      /\ Served(r) \in Int
  BY <1>t, RestNat DEF Served, Smaller
<1>1. CASE Parse(r)
  <2>1. /\ Up /\ death' = death /\ h[r].pc = "parse" /\ cl[r].text = "whole"
        /\ h' = [h EXCEPT ![r] = [pc |-> "open", size |-> cl[r].size, pos |-> cl[r].start, sent |-> 0]]
        /\ UNCHANGED <<main, faulting, accepted, connected, fds, cl>>
    BY <1>1 DEF Parse, Frame
  <2> DEFINE new == [pc |-> "open", size |-> cl[r].size, pos |-> cl[r].start, sent |-> 0]
  <2>2. new \in Handler /\ new.pc = "open" /\ new.size = cl[r].size /\ new.pos = cl[r].start
        /\ new.sent = 0
    BY <1>t DEF Client, Handler
  <2>3. h' = [h EXCEPT ![r] = new]
    BY <2>1
  <2> HIDE DEF new
  <2>4. h' \in [R -> Handler] /\ h'[r] = new /\ \A q \in R \ {r} : h'[q] = h[q]
    BY <1>0, <2>2, <2>3, Replaced
  <2>5. HandlerOK(r)'
    <3>1. ~(r > accepted')
      BY <1>0, <2>1 DEF HandlerOK
    <3>2. Served(r)' = Served(r)
      BY <2>1 DEF Served, Asked, Left
    <3>3. Asked(r)
            => h'[r].size >= 0 /\ h'[r].sent + Smaller(h'[r].size, Rest(h'[r].pos)) = Served(r)
      BY <1>p, <2>2, <2>4 DEF Served, Asked
    <3> QED BY <2>1, <2>2, <2>4, <3>1, <3>2, <3>3 DEF HandlerOK, Asked
  <2>6. Answering' = Answering
    BY <2>1, <2>2, <2>4, AnswerGoesOn
  <2> QED BY <1>0, <1>c, <2>1, <2>4, <2>5, <2>6, LivesOn DEF Up, TypeOK
<1>2. CASE ParseCut(r)
  <2>1. PICK size \in Sizes, start \in CutStarts :
          h' = [h EXCEPT ![r] = [pc |-> "open", size |-> size, pos |-> start, sent |-> 0]]
    BY <1>2 DEF ParseCut
  <2>2. /\ Up /\ death' = death /\ h[r].pc = "parse" /\ cl[r].text = "cut" /\ Left(r)
        /\ cl' = [cl EXCEPT ![r].gone = IF @ = "rst" THEN "pipe" ELSE @]
        /\ UNCHANGED <<main, faulting, accepted, connected, fds>>
    BY <1>2 DEF ParseCut, Frame
  <2> DEFINE new == [pc |-> "open", size |-> size, pos |-> start, sent |-> 0]
             newcl == [cl[r] EXCEPT !.gone = IF @ = "rst" THEN "pipe" ELSE @]
  <2>3. new \in Handler /\ new.pc = "open"
    BY ConstantsAssumption DEF Handler, CutStarts
  <2>4. newcl \in Client /\ newcl.gone \notin {"no", "full"} /\ newcl.text = cl[r].text
    BY <1>t, <2>2 DEF Client, Left
  <2>5. h' = [h EXCEPT ![r] = new] /\ cl' = [cl EXCEPT ![r] = newcl]
    BY <2>1, <2>2
  <2> HIDE DEF new, newcl
  <2>6. h' \in [R -> Handler] /\ h'[r] = new /\ \A q \in R \ {r} : h'[q] = h[q]
    BY <1>0, <2>3, <2>5, Replaced
  <2>7. cl' \in [R -> Client] /\ cl'[r] = newcl /\ \A q \in R \ {r} : cl'[q] = cl[q]
    BY <1>0, <2>4, <2>5, ClientReplaced
  <2>8. HandlerOK(r)'
    BY <1>0, <2>2, <2>3, <2>4, <2>6, <2>7 DEF HandlerOK, Left
  <2>9. Answering' = Answering
    BY <2>2, <2>3, <2>6, AnswerGoesOn
  <2> QED BY <1>c, <2>2, <2>6, <2>7, <2>8, <2>9, LivesOn DEF Up
<1>3. CASE ParseNothing(r) \/ OpenFails(r)
  <2>1. UNCHANGED <<main, faulting, accepted, connected, fds, cl, h>>
    BY <1>3 DEF ParseNothing, OpenFails, Frame
  <2>2. CASE ParseNothing(r)
    BY <2>1, <2>2, DiesOf DEF ParseNothing, Dies
  <2>3. CASE OpenFails(r)
    <3>1. cl[r].text # "none"
      BY <1>0, <2>3 DEF OpenFails, HandlerOK, Begun
    <3> QED BY <2>1, <2>3, <3>1, DiesOf DEF OpenFails, Dies
  <2> QED BY <1>3, <2>2, <2>3
<1>4. CASE Open(r)
  <2>1. /\ Up /\ death' = death /\ h[r].pc = "open" /\ fds < MaxFds /\ fds' = fds + 1
        /\ h' = [h EXCEPT ![r].pc = "header"]
        /\ UNCHANGED <<main, faulting, accepted, connected, cl>>
    BY <1>4 DEF Open, Frame
  <2> DEFINE new == [h[r] EXCEPT !.pc = "header"]
  <2>2. /\ new \in Handler /\ new.pc = "header"
        /\ new.size = h[r].size /\ new.pos = h[r].pos /\ new.sent = h[r].sent
    BY <1>t DEF Handler
  <2>3. h' = [h EXCEPT ![r] = new]
    BY <2>1
  <2> HIDE DEF new
  <2>4. h' \in [R -> Handler] /\ h'[r] = new /\ \A q \in R \ {r} : h'[q] = h[q]
    BY <1>0, <2>2, <2>3, Replaced
  <2>5. HandlerOK(r)'
    BY <1>0, <2>1, <2>2, <2>4 DEF HandlerOK, Begun, Served, Asked, Left
  <2>6. Cardinality(Answering') = Cardinality(Answering) + 1
    BY <1>0, <2>1, <2>2, <2>4, AnswerBegins
  <2>7. fds' \in Nat /\ fds' <= MaxFds /\ Cardinality(Answering') \in Nat
        /\ fds' - Cardinality(Answering') = fds - Cardinality(Answering)
    BY <1>c, <2>1, <2>6
  <2> QED BY <1>0, <2>1, <2>4, <2>5, <2>7, LivesOn DEF Up, TypeOK
<1>5. CASE Header(r)
  <2>1. h[r].pc = "header" /\ UNCHANGED <<main, faulting, accepted, connected, fds>>
    BY <1>5 DEF Header, Frame
  <2>2. CASE SendKills(r) /\ UNCHANGED <<cl, h>>
    BY <2>1, <2>2, DiesOf DEF SendKills, Dies, Left
  <2>3. CASE /\ Sends(r, 1) \/ SendFails(r)
             /\ h' = [h EXCEPT ![r].pc = "loop"] /\ AfterSend(r) /\ UNCHANGED death
    <3> DEFINE new == [h[r] EXCEPT !.pc = "loop"]
    <3>2. /\ new \in Handler /\ new.pc = "loop"
          /\ new.size = h[r].size /\ new.pos = h[r].pos /\ new.sent = h[r].sent
      BY <1>t DEF Handler
    <3>3. h' = [h EXCEPT ![r] = new]
      BY <2>3
    <3> HIDE DEF new
    <3>4. h' \in [R -> Handler] /\ h'[r] = new /\ \A q \in R \ {r} : h'[q] = h[q]
      BY <1>0, <3>2, <3>3, Replaced
    <3>5. /\ cl' \in [R -> Client] /\ \A q \in R \ {r} : cl'[q] = cl[q]
          /\ cl'[r].text = cl[r].text /\ cl'[r].size = cl[r].size /\ cl'[r].start = cl[r].start
          /\ Left(r) => Left(r)'
      BY <1>0, <2>3, AfterSendDoes
    <3>6. HandlerOK(r)'
      BY <1>0, <2>1, <3>2, <3>4, <3>5 DEF HandlerOK, Begun, Served, Asked, Left
    <3>7. Answering' = Answering
      BY <2>1, <3>2, <3>4, AnswerGoesOn
    <3>8. death' = "no"
      BY <2>3 DEF Sends, SendFails, Up
    <3> QED BY <1>c, <2>1, <3>4, <3>5, <3>6, <3>7, <3>8, LivesOn
  <2> QED BY <1>5, <2>2, <2>3 DEF Header
<1>6. CASE Chunk(r)
  <2> DEFINE n == Smaller(Block, h[r].size)
             read == Reads(n, h[r].pos)
             left == h[r].size - n
  <2>1. h[r].pc = "loop" /\ UNCHANGED <<main, faulting, accepted, connected, fds>>
    BY <1>6 DEF Chunk, Frame
  <2>2. CASE SendKills(r) /\ UNCHANGED <<cl, h>>
    BY <2>1, <2>2, DiesOf DEF SendKills, Dies, Left
  <2>3. CASE /\ UNCHANGED death /\ AfterSend(r) /\ Up
             /\ \E sent \in {read, -1}, got \in {read, 0} :
                  /\ ~Left(r) => sent = read /\ got = read
                  /\ h' = [h EXCEPT ![r] = [pc |-> IF LeavesLoop(r, sent, left) THEN "close" ELSE "loop",
                                            size |-> left, pos |-> @.pos + read, sent |-> @.sent + got]]
    <3>1. PICK sent \in {read, -1}, got \in {read, 0} :
             /\ ~Left(r) => sent = read /\ got = read
             /\ h' = [h EXCEPT ![r] = [pc |-> IF LeavesLoop(r, sent, left) THEN "close" ELSE "loop",
                                       size |-> left, pos |-> @.pos + read, sent |-> @.sent + got]]
      BY <2>3
    <3> DEFINE new == [pc |-> IF LeavesLoop(r, sent, left) THEN "close" ELSE "loop",
                       size |-> left, pos |-> h[r].pos + read, sent |-> h[r].sent + got]
    <3>2. h[r].size >= 0
            => /\ read \in 0 .. Rest(h[r].pos)
               /\ read + Smaller(left, Rest(h[r].pos) - read) = Smaller(h[r].size, Rest(h[r].pos))
               /\ (read # Block /\ left # 0) => Rest(h[r].pos) - read = 0
      <4> SUFFICES ASSUME h[r].size >= 0
                   PROVE  /\ read \in 0 .. Rest(h[r].pos)
                          /\ read + Smaller(left, Rest(h[r].pos) - read)
                               = Smaller(h[r].size, Rest(h[r].pos))
                          /\ (read # Block /\ left # 0) => Rest(h[r].pos) - read = 0
        OBVIOUS
      <4>1. n \in Nat /\ h[r].size \in Nat
        BY <1>t, ConstantsAssumption DEF Smaller
      <4> DEFINE some == Smaller(n, Rest(h[r].pos))
      <4>2. read = some
        BY <4>1 DEF Reads
      <4>3. /\ some \in 0 .. Rest(h[r].pos)
            /\ some + Smaller(left, Rest(h[r].pos) - some) = Smaller(h[r].size, Rest(h[r].pos))
            /\ (some # Block /\ left # 0) => Rest(h[r].pos) - some = 0
        <5> DEFINE rest == Rest(h[r].pos)
                   size == h[r].size
        <5>1. size \in Nat /\ rest \in Nat /\ n = Smaller(Block, size) /\ some = Smaller(n, rest)
          BY <1>p, <4>1
        <5> HIDE DEF some, n, rest, size
        <5>2. /\ some \in 0 .. rest
              /\ some + Smaller(size - n, rest - some) = Smaller(size, rest)
              /\ (some # Block /\ size - n # 0) => rest - some = 0
          BY <5>1, RoundAdds
        <5> QED BY <5>2 DEF rest, size
      <4> HIDE DEF some, read
      <4> QED BY <4>2, <4>3
    <3>n. /\ left \in Nat /\ left \in Sizes /\ read \in Nat
          /\ h[r].size < 0 => left = 0
      <4>1. n \in Int /\ (h[r].size >= 0 => n \in 0 .. h[r].size) /\ (h[r].size < 0 => n = h[r].size)
        BY <1>t, ConstantsAssumption DEF Smaller
      <4>2. left \in Nat /\ (h[r].size < 0 => left = 0) /\ (h[r].size >= 0 => left <= h[r].size)
        BY <1>t, <4>1
      <4>3. left \in Sizes
        BY <1>t, <4>2, ConstantsAssumption DEF Handler, Sizes
      <4>4. read \in Nat
        BY <1>p, <4>1 DEF Reads, Smaller
      <4> QED BY <4>2, <4>3, <4>4
    <3>3. h' = [h EXCEPT ![r] = new]
      BY <3>1
    <3> HIDE DEF n, read
    <3>4. read \in Nat /\ got \in Nat /\ left \in Nat /\ left \in Sizes
      BY <3>n
    <3>5. new \in Handler
      BY <1>t, <3>4 DEF Handler
    <3>6. new.pc \in {"close", "loop"} /\ new.size = left /\ new.pos = h[r].pos + read
          /\ new.sent = h[r].sent + got /\ (new.pc = "close" => LeavesLoop(r, sent, left))
      OBVIOUS
    <3> HIDE DEF new
    <3>7. h' \in [R -> Handler] /\ h'[r] = new /\ \A q \in R \ {r} : h'[q] = h[q]
      BY <1>0, <3>3, <3>5, Replaced
    <3>8. /\ cl' \in [R -> Client] /\ \A q \in R \ {r} : cl'[q] = cl[q]
          /\ cl'[r].text = cl[r].text /\ cl'[r].size = cl[r].size /\ cl'[r].start = cl[r].start
          /\ Left(r) => Left(r)'
      BY <1>0, <2>3, AfterSendDoes
    <3>9. HandlerOK(r)'
      <4>1. ~(r > accepted') /\ cl'[r].text # "none" /\ Served(r)' = Served(r) /\ Asked(r)' = Asked(r)
        BY <1>0, <2>1, <3>8 DEF HandlerOK, Begun, Served, Asked
      <4>3. ASSUME ~Left(r), Asked(r)
            PROVE  /\ new.sent + Smaller(new.size, Rest(new.pos)) = Served(r)
                   /\ new.pc = "close" => Smaller(new.size, Rest(new.pos)) = 0
        <5>1. sent = read /\ got = read
          BY <3>1, <4>3
        <5>2. h[r].sent + Smaller(h[r].size, Rest(h[r].pos)) = Served(r) /\ h[r].size >= 0
          BY <1>0, <2>1, <4>3 DEF HandlerOK, Begun
        <5>6. Rest(h[r].pos + read) = Rest(h[r].pos) - read
          BY <1>t, <1>p, <3>2, <3>4, <5>2, RestAfter
        <5>3. Smaller(left, Rest(h[r].pos) - read) \in Nat
          BY <1>p, <3>2, <3>4, <5>2 DEF Smaller
        <5>4. new.sent + Smaller(new.size, Rest(new.pos)) = Served(r)
          BY <1>t, <3>2, <3>4, <3>6, <5>6, <5>1, <5>2, <5>3
        <5>5. ASSUME new.pc = "close" PROVE Smaller(new.size, Rest(new.pos)) = 0
          <6>1. left = 0 \/ Rest(h[r].pos) - read = 0
            BY <3>2, <3>6, <5>1, <5>2, <5>5 DEF LeavesLoop
          <6>2. Rest(h[r].pos) - read \in Nat
            BY <1>p, <3>2, <5>2
          <6> QED BY <3>4, <3>6, <5>6, <6>1, <6>2 DEF Smaller
        <5> QED BY <5>4, <5>5
      <4>4. ~(new.size < 0) /\ new.size >= 0
        BY <3>4, <3>6
      <4> QED BY <3>6, <3>7, <3>8, <4>1, <4>3, <4>4 DEF HandlerOK
    <3>10. Answering' = Answering
      BY <2>1, <3>6, <3>7, AnswerGoesOn
    <3>11. death' = "no"
      BY <2>3 DEF Up
    <3> QED BY <1>c, <2>1, <3>7, <3>8, <3>9, <3>10, <3>11, LivesOn
  <2> QED BY <1>6, <2>2, <2>3 DEF Chunk, Sends, SendFails, Left
<1>8. CASE Overrun(r)
  <2>1. /\ h[r].pc = "loop" /\ h[r].size < 0 /\ Rest(h[r].pos) > Block /\ death' = "overrun"
        /\ UNCHANGED <<main, faulting, accepted, connected, fds, cl, h>>
    BY <1>8 DEF Overrun, Dies, Frame
  <2>2. Left(r) \/ AsksTooMuch(r)
    BY <1>0, <2>1 DEF HandlerOK, Begun, AsksTooMuch
  <2> QED BY <2>1, <2>2, DiesOf
<1>7. CASE Close(r)
  <2>1. /\ Up /\ death' = death /\ h[r].pc = "close" /\ fds' = fds - 1
        /\ h' = [h EXCEPT ![r].pc = "done"]
        /\ UNCHANGED <<main, faulting, accepted, connected, cl>>
    BY <1>7 DEF Close, Frame
  <2> DEFINE new == [h[r] EXCEPT !.pc = "done"]
  <2>2. /\ new \in Handler /\ new.pc = "done"
        /\ new.size = h[r].size /\ new.pos = h[r].pos /\ new.sent = h[r].sent
    BY <1>t DEF Handler
  <2>3. h' = [h EXCEPT ![r] = new]
    BY <2>1
  <2> HIDE DEF new
  <2>4. h' \in [R -> Handler] /\ h'[r] = new /\ \A q \in R \ {r} : h'[q] = h[q]
    BY <1>0, <2>2, <2>3, Replaced
  <2>5. HandlerOK(r)'
    BY <1>0, <2>1, <2>2, <2>4 DEF HandlerOK, Begun, Served, Asked, Left
  <2>6. Cardinality(Answering') = Cardinality(Answering) - 1
    BY <1>0, <2>1, <2>2, <2>4, AnswerEnds
  <2>7. Cardinality(Answering) # 0
    <3>1. r \in Answering
      BY <2>1 DEF Answering
    <3> QED BY <1>c, <3>1, FS_EmptySet
  <2>8. fds >= Cardinality(Answering)
    BY <1>0, <1>c, Counts DEF DescriptorsCount
  <2>9. fds' \in Nat /\ fds' <= MaxFds /\ Cardinality(Answering') \in Nat
        /\ fds' - Cardinality(Answering') = fds - Cardinality(Answering)
    BY <1>c, <2>1, <2>6, <2>7, <2>8
  <2> QED BY <1>0, <2>1, <2>4, <2>5, <2>9, LivesOn DEF Up, TypeOK
<1> QED BY <1>1, <1>2, <1>3, <1>4, <1>5, <1>6, <1>7, <1>8 DEF Handle

(* A step of a client. *)
LEMMA ClientIInv == IInv /\ (Connect \/ \E r \in R : Ask(r) \/ Stall(r) \/ Resume(r) \/ Leave(r)) => IInv'
<1> SUFFICES ASSUME IInv, Connect \/ \E r \in R : Ask(r) \/ Stall(r) \/ Resume(r) \/ Leave(r) PROVE IInv'
  OBVIOUS
<1>0. TypeOK /\ HandlersInv /\ DescriptorsCount
  BY DEF IInv
<1>c. /\ fds \in Nat /\ MaxFds \in Nat /\ fds <= MaxFds /\ Cardinality(Answering) \in Nat
  BY <1>0, Counts, AnsweringFinite
<1>1. CASE Connect
  <2>1. /\ Up /\ connected < Requests /\ connected' = connected + 1
        /\ UNCHANGED <<death, main, faulting, fds, accepted, h, cl>>
    BY <1>1 DEF Connect, ClientFrame
  <2>2. CountsOK'
    BY <1>0, <2>1, Counts DEF CountsOK
  <2>3. TypeOK' /\ HandlersInv'
    BY <1>0, <2>1, <2>2 DEF TypeOK, ProcessTypeOK, HandlersInv, Served, Asked, Left
  <2>4. DescriptorsCount' /\ DiesOnlyBecause'
    BY <1>0, <2>1 DEF DescriptorsCount, Answering, DiesOnlyBecause, Up
  <2> QED BY <2>3, <2>4 DEF IInv
<1>2. ASSUME NEW r \in R, Ask(r) PROVE IInv'
  <2>1. /\ death' = "no" /\ cl[r].text = "none"
        /\ UNCHANGED <<main, faulting, fds, accepted, h, connected>>
    BY <1>2 DEF Ask, ClientFrame, Up
  <2>2. PICK new \in Client : cl' = [cl EXCEPT ![r] = new]
    <3>1. cl[r] \in Client /\ cl[r].gone = "no"
      BY <1>0, <1>2, RecordTypes DEF Ask
    <3>2. ASSUME NEW size \in Sizes, NEW start \in Starts
          PROVE  [text |-> "whole", size |-> size, start |-> start,
                  exists |-> TRUE, gone |-> "no"] \in Client
      BY DEF Client
    <3>3. ASSUME NEW text \in {"whole", "cut"}, NEW exists \in BOOLEAN
          PROVE  [[cl[r] EXCEPT !.text = text] EXCEPT !.exists = exists] \in Client
      BY <3>1 DEF Client
    <3>4. ASSUME NEW text \in {"whole", "cut"}, NEW exists \in BOOLEAN
          PROVE  [cl EXCEPT ![r].text = text, ![r].exists = exists]
                   = [cl EXCEPT ![r] = [[cl[r] EXCEPT !.text = text] EXCEPT !.exists = exists]]
      BY <1>0 DEF TypeOK
    <3>5. CASE \E size \in Sizes, start \in Starts :
                 cl' = [cl EXCEPT ![r] = [text |-> "whole", size |-> size, start |-> start,
                                          exists |-> TRUE, gone |-> "no"]]
      BY <3>2, <3>5
    <3>6. CASE \E text \in {"whole", "cut"}, exists \in BOOLEAN :
                 cl' = [cl EXCEPT ![r].text = text, ![r].exists = exists]
      <4>1. PICK text \in {"whole", "cut"}, exists \in BOOLEAN :
              cl' = [cl EXCEPT ![r].text = text, ![r].exists = exists]
        BY <3>6
      <4> DEFINE new == [[cl[r] EXCEPT !.text = text] EXCEPT !.exists = exists]
      <4>2. new \in Client
        BY <3>3
      <4>3. cl' = [cl EXCEPT ![r] = new]
        BY <3>4, <4>1
      <4> HIDE DEF new
      <4> QED BY <4>2, <4>3
    <3> QED BY <1>2, <3>5, <3>6 DEF Ask
  <2>3. cl' \in [R -> Client] /\ \A q \in R \ {r} : cl'[q] = cl[q]
    BY <1>0, <2>2, ClientReplaced
  <2>4. HandlerOK(r)'
    <3>1. h[r].pc \notin Begun
      BY <1>0, <2>1 DEF HandlersInv
    <3> QED BY <1>0, <2>1, <3>1 DEF HandlerOK, HandlersInv, Begun
  <2> QED BY <1>0, <1>c, <2>1, <2>3, <2>4, LivesOn DEF Answering, TypeOK
<1>3. ASSUME NEW r \in R, Leave(r) PROVE IInv'
  <2>1. PICK g \in {"fin", "rst"} : cl' = [cl EXCEPT ![r].gone = g]
    BY <1>3 DEF Leave
  <2>2. /\ death' = "no" /\ UNCHANGED <<main, faulting, fds, accepted, h, connected>>
    BY <1>3 DEF Leave, ClientFrame, Up
  <2> DEFINE new == [cl[r] EXCEPT !.gone = g]
  <2>3. new \in Client /\ new.gone \in {"fin", "rst"} /\ new.text = cl[r].text
    BY <1>0, RecordTypes DEF Client
  <2>4. cl' = [cl EXCEPT ![r] = new]
    BY <2>1
  <2> HIDE DEF new
  <2>5. cl' \in [R -> Client] /\ cl'[r] = new /\ \A q \in R \ {r} : cl'[q] = cl[q]
    BY <1>0, <2>3, <2>4, ClientReplaced
  <2>6. HandlerOK(r)'
    BY <1>0, <2>2, <2>3, <2>5 DEF HandlersInv, HandlerOK, Asked, Left
  <2> QED BY <1>0, <1>c, <2>2, <2>5, <2>6, LivesOn DEF Answering, TypeOK
<1>4. ASSUME NEW r \in R, Stall(r) \/ Resume(r) PROVE IInv'
  <2>1. PICK g \in {"no", "full"} : cl' = [cl EXCEPT ![r].gone = g]
    BY <1>4 DEF Stall, Resume
  <2>2. /\ death' = "no" /\ ~Left(r)
        /\ UNCHANGED <<main, faulting, fds, accepted, h, connected>>
    BY <1>4 DEF Stall, Resume, ClientFrame, Up, Left
  <2> DEFINE new == [cl[r] EXCEPT !.gone = g]
  <2>3. /\ new \in Client /\ new.text = cl[r].text /\ new.size = cl[r].size
        /\ new.start = cl[r].start
    BY <1>0, RecordTypes DEF Client
  <2>4. cl' = [cl EXCEPT ![r] = new]
    BY <2>1
  <2> HIDE DEF new
  <2>5. cl' \in [R -> Client] /\ cl'[r] = new /\ \A q \in R \ {r} : cl'[q] = cl[q]
    BY <1>0, <2>3, <2>4, ClientReplaced
  <2>6. HandlerOK(r)'
    BY <1>0, <2>2, <2>3, <2>5 DEF HandlersInv, HandlerOK, Served, Asked
  <2> QED BY <1>0, <1>c, <2>2, <2>5, <2>6, LivesOn DEF Answering, TypeOK
<1> QED BY <1>1, <1>2, <1>3, <1>4

LEMMA IInvInductive == IInv /\ [Next]_vars => IInv'
<1> SUFFICES ASSUME IInv, [Next]_vars PROVE IInv'
  OBVIOUS
<1>1. CASE UNCHANGED vars
  BY <1>1 DEF vars, IInv, TypeOK, ProcessTypeOK, CountsOK, HandlersInv, Served, Asked, Left, DescriptorsCount,
              Answering, DiesOnlyBecause, AsksTooMuch
<1> QED BY <1>1, MainIInv, HandleIInv, ClientIInv DEF Next

-------------------------------------------------------------------------------
(* Theorems *)

(* In every reachable state the variables have their types, and what a       *)
(* thread sent and has before it makes up its request.                       *)
THEOREM IInvCorrect == Spec => []IInv
<1> QED BY InitIInv, IInvInductive, PTL DEF Spec

(* A client that stays gets what it asked for, for every size that is not    *)
(* negative, every offset and size of the buffer (p2p_server.c:104-135).     *)
THEOREM SendsCorrect == Spec => []SendsWhatIsAsked
<1>1. IInv => SendsWhatIsAsked
  <2> SUFFICES ASSUME IInv, NEW r \in R, h[r].pc \in {"close", "done"}, Asked(r), ~Left(r)
               PROVE  h[r].sent = Served(r)
    BY DEF SendsWhatIsAsked
  <2>1. h[r].sent + 0 = Served(r)
    BY DEF IInv, HandlersInv, Begun
  <2> QED BY <2>1, RecordTypes DEF IInv
<1> QED BY <1>1, IInvCorrect, PTL

(* Every descriptor in use is a connection's, an open file's or the one      *)
(* accept reserved (p2p_server.c:157-160).                                   *)
THEOREM DescriptorsCorrect == Spec => []DescriptorsCount
<1>1. IInv => DescriptorsCount
  BY DEF IInv
<1> QED BY <1>1, IInvCorrect, PTL

(* What ends the service is a client that left, a file that is not there, a  *)
(* negative size before more than a block or the last descriptor             *)
(* (p2p_server.c:61, 92, 112, 117, 157).                                     *)
THEOREM DiesOnlyBecauseCorrect == Spec => []DiesOnlyBecause
<1>1. IInv => DiesOnlyBecause
  BY DEF IInv
<1> QED BY <1>1, IInvCorrect, PTL
================================================================================
