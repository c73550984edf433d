------------------------------- MODULE P2PServer ------------------------------
(***************************************************************************)
(* The server other downloaders fetch parts from: the accept loop of       *)
(* p2p_server_create and one detached thread, handle_request, per          *)
(* connection.  Everything runs in one process, so what kills one thread   *)
(* ends the service.                                                       *)
(*                                                                         *)
(* Requests are numbered in the order their connections reach the listening*)
(* socket.  A request is the file it names, there or not, and two numbers, *)
(* a size and an offset.  The size may be negative, as p2p_continue asks   *)
(* for less than nothing when a part has grown too long; a negative offset *)
(* is refused by fseek and so is one of 0.  The client sends all of its    *)
(* text, or all but some last characters, or nothing; it may stop reading  *)
(* the answer, and it may leave.  Descriptors are counted: a connection    *)
(* keeps its own for good, an open file until fclose, and accept reserves  *)
(* one before it waits.                                                    *)
(***************************************************************************)
EXTENDS Integers, FiniteSets

CONSTANTS
    FileSize,         \* length of every file that is there
    Block,            \* size of the buffer of handle_request: 1024
    MaxFds,           \* descriptors the process can have for these purposes
    Requests          \* bound: connections clients make

ASSUME ConstantsAssumption ==
    /\ FileSize \in Nat /\ Block \in Nat \ {0}
    /\ MaxFds \in Nat /\ Requests \in Nat

R == 1 .. Requests
Sizes == -1 .. FileSize + 1                    \* bound: sizes asked for
Starts == 0 .. FileSize                        \* bound: offsets asked for
CutStarts == {0, FileSize}                     \* bound: of requests cut short

VARIABLES
    death,      \* "no" while the process runs, else why it died
    main,       \* main thread: about to call accept, or waiting in it
    faulting,   \* there is a thread whose accept returned -1
    fds,        \* descriptors in use
    accepted,   \* connections accepted
    connected,  \* connections made
    cl,         \* the client of each request
    h           \* the thread of each request

vars == <<death, main, faulting, fds, accepted, connected, cl, h>>
clientVars == <<connected, cl>>

Up == death = "no"
Smaller(a, b) == IF a < b THEN a ELSE b

(* Bytes of the file from a place on. *)
Rest(pos) == IF pos < FileSize THEN FileSize - pos ELSE 0

NoClient == [text |-> "none", size |-> 0, start |-> 0, exists |-> FALSE, gone |-> "no"]
NoHandler == [pc |-> "none", size |-> 0, pos |-> 0, sent |-> 0]

Init ==
    /\ death = "no" /\ main = "call" /\ faulting = FALSE /\ fds = 0
    /\ accepted = 0 /\ connected = 0
    /\ cl = [r \in R |-> NoClient]
    /\ h = [r \in R |-> NoHandler]

Dies(why) == Up /\ death' = why

(* The client of r closed its connection, or was killed. *)
Left(r) == cl[r].gone \notin {"no", "full"}

-------------------------------------------------------------------------------
(* The main thread *)

EnterAccept ==
    /\ Up /\ main = "call" /\ fds < MaxFds
    /\ main' = "accept" /\ fds' = fds + 1
    /\ UNCHANGED <<death, faulting, accepted, clientVars, h>>

(* accept returns, the connection has the descriptor reserved, and a thread. *)
Accept ==
    /\ Up /\ main = "accept" /\ accepted < connected
    /\ main' = "call" /\ accepted' = accepted + 1
    /\ h' = [h EXCEPT ![accepted + 1].pc = "parse"]
    /\ UNCHANGED <<death, faulting, fds, clientVars>>

(* No descriptor is left: accept returns -1, which a thread is created for,  *)
(* and is called again.                                                      *)
AcceptFails ==
    /\ Up /\ main = "call" /\ fds = MaxFds /\ ~faulting
    /\ faulting' = TRUE
    /\ UNCHANGED <<death, main, fds, accepted, clientVars, h>>

(* That thread receives nothing, finds no "GET" and has sscanf read NULL. *)
Fault ==
    /\ faulting /\ Dies("no descriptor")
    /\ UNCHANGED <<main, faulting, fds, accepted, clientVars, h>>

-------------------------------------------------------------------------------
(* handle_request *)

Frame == UNCHANGED <<main, faulting, accepted, connected>>

(* get_p2p_req_info has read up to the empty line. *)
Parse(r) ==
    /\ Up /\ h[r].pc = "parse" /\ cl[r].text = "whole"
    /\ h' = [h EXCEPT ![r] = [pc |-> "open", size |-> cl[r].size, pos |-> cl[r].start, sent |-> 0]]
    /\ Frame /\ UNCHANGED <<death, fds, cl>>

(* The text ended before the empty line did come and the client is gone:     *)
(* the last number is cut short, or missing and uninitialised.  The error of *)
(* a reset is taken by the recv.                                             *)
ParseCut(r) ==
    /\ Up /\ h[r].pc = "parse" /\ cl[r].text = "cut" /\ Left(r)
    /\ \E size \in Sizes, start \in CutStarts :
         h' = [h EXCEPT ![r] = [pc |-> "open", size |-> size, pos |-> start, sent |-> 0]]
    /\ cl' = [cl EXCEPT ![r].gone = IF @ = "rst" THEN "pipe" ELSE @]
    /\ Frame /\ UNCHANGED <<death, fds>>

(* Mutation: the recv does not wait. *)
ParseTooSoon(r) ==
    /\ h[r].pc = "parse" /\ cl[r].text = "none"
    /\ Dies("no request")
    /\ Frame /\ UNCHANGED <<fds, cl, h>>

(* The client left without a word: there is no "GET", and sscanf reads NULL. *)
ParseNothing(r) ==
    /\ h[r].pc = "parse" /\ cl[r].text = "none" /\ Left(r)
    /\ Dies("no request")
    /\ Frame /\ UNCHANGED <<fds, cl, h>>

Open(r) ==
    /\ Up /\ h[r].pc = "open" /\ cl[r].exists /\ fds < MaxFds
    /\ h' = [h EXCEPT ![r].pc = "header"]
    /\ fds' = fds + 1
    /\ Frame /\ UNCHANGED <<death, cl>>

(* fopen returns NULL: no header is sent, and fseek reads NULL. *)
OpenFails(r) ==
    /\ h[r].pc = "open" /\ (~cl[r].exists \/ fds = MaxFds)
    /\ Dies(IF cl[r].exists THEN "no descriptor" ELSE "no file")
    /\ Frame /\ UNCHANGED <<fds, cl, h>>

(* send() of some bytes to the client of r.  While the client does not read  *)
(* and the buffers of the connection are full, it waits.  A client that      *)
(* closed its end takes one more send before its reset is there; a reset     *)
(* fails one send, and what is sent after that raises SIGPIPE.               *)
Sends(r, bytes) ==
    Up /\ (cl[r].gone \in {"no", "fin"} \/ (cl[r].gone = "full" /\ bytes = 0))
SendFails(r) == Up /\ cl[r].gone = "rst"
SendKills(r) == cl[r].gone = "pipe" /\ Dies("sigpipe")

AfterSend(r) ==
    \E g \in CASE ~Left(r) -> {cl[r].gone}
               [] cl[r].gone = "fin" -> {"fin", "pipe"}
               [] OTHER -> {"pipe"} :
        cl' = [cl EXCEPT ![r].gone = g]

Header(r) ==
    /\ h[r].pc = "header"
    /\ \/ /\ Sends(r, 1) \/ SendFails(r)
          /\ h' = [h EXCEPT ![r].pc = "loop"]
          /\ AfterSend(r)
          /\ UNCHANGED death
       \/ SendKills(r) /\ UNCHANGED <<cl, h>>
    /\ Frame /\ UNCHANGED fds

(* Mutation: the loop goes on after the last byte. *)
LoopsOn(r, sent, size) == sent # Block /\ size # 0

(* Leaving the loop: what was sent is not a block though bytes are missing,  *)
(* or none are.                                                              *)
LeavesLoop(r, sent, size) == (sent # Block /\ size # 0) \/ size = 0

(* What fread reads when it is asked for n bytes: as far as the file goes,   *)
(* and to its end if n is negative, as there is no larger size_t.            *)
Reads(n, pos) == IF n < 0 THEN Rest(pos) ELSE Smaller(n, Rest(pos))

(* Mutation: a block is read whatever is left of the request. *)
ChunkWhole(r) ==
    LET read == Smaller(Block, Rest(h[r].pos))
        left == h[r].size - Smaller(Block, h[r].size)
    IN  /\ h[r].pc = "loop" /\ Sends(r, read)
        /\ h' = [h EXCEPT ![r] = [pc |-> IF LeavesLoop(r, read, left) THEN "close" ELSE "loop",
                                  size |-> left, pos |-> @.pos + read, sent |-> @.sent + read]]
        /\ AfterSend(r)
        /\ Frame /\ UNCHANGED <<death, fds>>

(* One round: a block, or what is left of the request, is read and sent.     *)
Chunk(r) ==
    LET n == Smaller(Block, h[r].size)
        read == Reads(n, h[r].pos)
        left == h[r].size - n
        Round(sent, got) ==
            h' = [h EXCEPT ![r] = [pc |-> IF LeavesLoop(r, sent, left) THEN "close" ELSE "loop",
                                   size |-> left, pos |-> @.pos + read, sent |-> @.sent + got]]
    IN  /\ h[r].pc = "loop"
        /\ \/ Sends(r, read) /\ Round(read, read) /\ AfterSend(r) /\ UNCHANGED death
           \/ SendFails(r) /\ Round(-1, 0) /\ AfterSend(r) /\ UNCHANGED death
           \/ SendKills(r) /\ UNCHANGED <<cl, h>>
        /\ Frame /\ UNCHANGED fds

(* A negative size is not held against the size of the buffer: what is read  *)
(* beyond a block overwrites the stack, and the process dies of it, unless   *)
(* nothing of what it overwrote is used (Chunk).                             *)
Overrun(r) ==
    /\ h[r].pc = "loop" /\ h[r].size < 0 /\ Rest(h[r].pos) > Block
    /\ Dies("overrun")
    /\ Frame /\ UNCHANGED <<fds, cl, h>>

(* Mutation: the file stays open. *)
CloseNothing(r) ==
    /\ Up /\ h[r].pc = "close"
    /\ h' = [h EXCEPT ![r].pc = "done"]
    /\ Frame /\ UNCHANGED <<death, fds, cl>>

(* fclose, and the end of the thread.  The connection stays open. *)
Close(r) ==
    /\ Up /\ h[r].pc = "close"
    /\ h' = [h EXCEPT ![r].pc = "done"]
    /\ fds' = fds - 1
    /\ Frame /\ UNCHANGED <<death, cl>>

Handle(r) ==
    \/ Parse(r) \/ ParseCut(r) \/ ParseNothing(r) \/ Open(r) \/ OpenFails(r)
    \/ Header(r) \/ Chunk(r) \/ Overrun(r) \/ Close(r)

-------------------------------------------------------------------------------
(* Clients: the threads of P2PDownload, of this or another host *)

ClientFrame == UNCHANGED <<death, main, faulting, fds, accepted, h>>

Connect ==
    /\ Up /\ connected < Requests
    /\ connected' = connected + 1
    /\ ClientFrame /\ UNCHANGED cl

Ask(r) ==
    /\ Up /\ r <= connected /\ cl[r].text = "none" /\ cl[r].gone = "no"
    /\ \/ \E size \in Sizes, start \in Starts :
             cl' = [cl EXCEPT ![r] = [text |-> "whole", size |-> size, start |-> start,
                                      exists |-> TRUE, gone |-> "no"]]
       \/ \E text \in {"whole", "cut"}, exists \in BOOLEAN :
             cl' = [cl EXCEPT ![r].text = text, ![r].exists = exists]
    /\ ClientFrame /\ UNCHANGED connected

(* The client does not read any more, and what it was sent fills the buffers *)
(* of the connection, ...                                                    *)
Stall(r) ==
    /\ Up /\ h[r].pc = "loop" /\ h[r].sent > 0 /\ cl[r].gone = "no"
    /\ cl' = [cl EXCEPT ![r].gone = "full"]
    /\ ClientFrame /\ UNCHANGED connected

(* ... until it reads again. *)
Resume(r) ==
    /\ Up /\ cl[r].gone = "full"
    /\ cl' = [cl EXCEPT ![r].gone = "no"]
    /\ ClientFrame /\ UNCHANGED connected

(* The client closes its connection or is killed: with unread data that is a *)
(* reset, without a FIN.                                                     *)
Leave(r) ==
    /\ Up /\ r <= connected /\ h[r].pc \notin {"close", "done"}
    /\ \E g \in CASE cl[r].gone = "no" -> {"fin", "rst"}
                 [] cl[r].gone = "full" -> {"rst"}
                 [] OTHER -> {} :
         cl' = [cl EXCEPT ![r].gone = g]
    /\ ClientFrame /\ UNCHANGED connected

-------------------------------------------------------------------------------
MainStep == EnterAccept \/ Accept \/ AcceptFails

Next ==
    \/ MainStep \/ Fault
    \/ \E r \in R : Handle(r)
    \/ Connect
    \/ \E r \in R : Ask(r) \/ Stall(r) \/ Resume(r) \/ Leave(r)

Spec == Init /\ [][Next]_vars

(* The kernel runs every thread of the process. *)
FairSpec == Spec /\ WF_vars(MainStep) /\ WF_vars(Fault) /\ \A r \in R : WF_vars(Handle(r))

-------------------------------------------------------------------------------
(* Properties *)

Client == [text : {"none", "whole", "cut"}, size : Sizes, start : Starts,
           exists : BOOLEAN, gone : {"no", "full", "fin", "rst", "pipe"}]
Handler == [pc : {"none", "parse", "open", "header", "loop", "close", "done"},
            size : Sizes, pos : Nat, sent : Nat]

ProcessTypeOK ==
    /\ death \in {"no", "no request", "no file", "no descriptor", "sigpipe", "overrun"}
    /\ main \in {"call", "accept"} /\ faulting \in BOOLEAN

CountsOK ==
    fds \in 0 .. MaxFds /\ connected \in 0 .. Requests /\ accepted \in 0 .. connected

(* The type of every variable. *)
TypeOK == ProcessTypeOK /\ CountsOK /\ cl \in [R -> Client] /\ h \in [R -> Handler]

(* A client that stays, whether it reads all the time or not, gets what it   *)
(* asked for, as far as the file goes, and no byte more: the rounds of       *)
(* p2p_server.c:104-135 add up to the request for every size that is not     *)
(* negative and every offset, multiples of the block and ends of the file    *)
(* among them.                                                               *)
Asked(r) == cl[r].size >= 0
Served(r) == Smaller(cl[r].size, Rest(cl[r].start))

SendsWhatIsAsked ==
    \A r \in R : (h[r].pc \in {"close", "done"} /\ Asked(r) /\ ~Left(r)) => h[r].sent = Served(r)

(* Descriptors: every connection ever accepted holds one (p2p_server.c:157   *)
(* to 160 never close it), an answer one more while it lasts.                *)
Answering == {r \in R : h[r].pc \in {"header", "loop", "close"}}

DescriptorsCount ==
    fds = accepted + Cardinality(Answering) + (IF main = "accept" THEN 1 ELSE 0)

(* The service ends only because a client left before it was served, named a *)
(* file that is not there, or asked for a negative size where more than a    *)
(* block follows, or because connections and open files used all descriptors:*)
(* no number of other answers takes it down (p2p_server.c:61, 92, 112, 117,  *)
(* 157).                                                                     *)
AsksTooMuch(r) == cl[r].size < 0 /\ Rest(cl[r].start) > Block

DiesOnlyBecause ==
    death # "no" =>
        \/ \E r \in R : Left(r) \/ (cl[r].text # "none" /\ ~cl[r].exists) \/ AsksTooMuch(r)
        \/ faulting \/ fds = MaxFds

(* A request for a file that is there is answered to its end, if its client  *)
(* stays and in the end reads, and the process lives: no thread waits for    *)
(* another, nor for what the client of another does not read.                *)
ServesWhoStays ==
    \A r \in R :
        <>[](cl[r].gone # "full")
          => ((h[r].pc = "parse" /\ cl[r].text = "whole") ~> (h[r].pc = "done" \/ Left(r) \/ ~Up))

(* A send that fails is handled: it ends the answer ("sending interrupted",  *)
(* p2p_server.c:118-122), not the process.                                   *)
FailedSendIsHandled == death # "sigpipe"

-------------------------------------------------------------------------------
(* The inductive invariant behind the properties above *)

Begun == {"open", "header", "loop", "close", "done"}

(* No thread without a connection, no answer without a request; what was     *)
(* sent, with what this size and place in the file still give, is what was   *)
(* asked for; and a size is negative only if it was asked for, or parsed     *)
(* from a text cut short.                                                    *)
HandlersInv ==
    \A r \in R :
        /\ r > accepted => h[r].pc = "none"
        /\ h[r].pc \in Begun => cl[r].text # "none"
        /\ (h[r].pc \in Begun /\ Asked(r) /\ ~Left(r))
             => h[r].size >= 0 /\ h[r].sent + Smaller(h[r].size, Rest(h[r].pos)) = Served(r)
        /\ (h[r].pc \in {"close", "done"} /\ Asked(r) /\ ~Left(r))
             => Smaller(h[r].size, Rest(h[r].pos)) = 0
        /\ (h[r].pc \in Begun /\ h[r].size < 0 /\ ~Left(r))
             => cl[r].size < 0 /\ h[r].pos = cl[r].start

IInv == TypeOK /\ HandlersInv /\ DescriptorsCount /\ DiesOnlyBecause
===============================================================================
