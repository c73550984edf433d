---------------------------- MODULE ControlServer -----------------------------
(***************************************************************************)
(* The control server: the event loop of main.c with the web socket calls  *)
(* it makes, the processes it forks for downloads, and the browsers.       *)
(*                                                                         *)
(* Connections are numbered in the order they reach the listening socket,  *)
(* which is the order accept returns them in.  The listening socket, 0, is *)
(* level triggered, the connections are edge triggered: a connection is in *)
(* the kernel's ready list after something happened to it, and epoll_wait  *)
(* reports it if there still is something to read.  The order within one   *)
(* epoll_wait is left open.  A process is its place in the order of forks, *)
(* and process numbers are not used again.  Browsers send whole, masked    *)
(* frames that fit the receive buffer together (WebSocketFrames has the    *)
(* others), name one of the three protocols, and send nothing between their*)
(* handshake and the answer; a browser may stay silent for ever.           *)
(***************************************************************************)
EXTENDS Integers, Sequences

CONSTANTS
    MaxConns,         \* bound: connections browsers make
    MaxMessages       \* bound: operations they send

ASSUME ConstantsAssumption == MaxConns \in Nat /\ MaxMessages \in Nat

Conns == 1 .. MaxConns
Listen == 0                                    \* listenfd
Unset == 0                                     \* what malloc left in process_pid
Ops == {"start", "continue", "stop", "delete"}

VARIABLES
    pc,         \* main: "wait", "batch", "shake" or "dead"
    batch,      \* events of the last epoll_wait still to be handled
    cur,        \* connection shake_hands works on, else Listen
    accepted,   \* connections accepted, the last of them is e_ptr's
    fds,        \* connections main holds open
    watched,    \* connections in the epoll set
    ready,      \* the kernel's ready list, less the listening socket
    pidOf,      \* process_pid in the event_ptr of each connection
    kids,       \* download processes, in the order of their forks
    zombies,    \* those that ended and were not waited for
    failedDel,  \* connection whose EPOLL_CTL_DEL failed in main, else Listen
    connected,  \* connections made
    cli,        \* what the browser of each connection has done
    sock,       \* frames not yet received on each connection
    eof,        \* what follows them: nothing yet, a FIN or a RST
    sent        \* operations sent so far

mainVars == <<pc, batch, cur, accepted, fds, pidOf, failedDel>>
kidVars == <<kids, zombies>>
clientVars == <<connected, cli, sent>>
vars == <<pc, batch, cur, accepted, fds, watched, ready, pidOf, kids, zombies,
          failedDel, connected, cli, sock, eof, sent>>

Pids == DOMAIN kids
Running(k) == kids[k].st = "run"

(* A start that ran to its end: its process took the connection out of the   *)
(* epoll set, which it shares with main.                                     *)
StartFinished(c) ==
    \E k \in Pids : kids[k].conn = c /\ kids[k].op = "start" /\ kids[k].st = "finished"

Readable(c) == sock[c] # <<>> \/ eof[c] # "no"

Init ==
    /\ pc = "wait" /\ batch = {} /\ cur = Listen /\ accepted = 0
    /\ fds = {} /\ watched = {} /\ ready = {}
    /\ pidOf = [c \in Conns |-> Unset]
    /\ kids = <<>> /\ zombies = {} /\ failedDel = Listen
    /\ connected = 0
    /\ cli = [c \in Conns |-> "out"]
    /\ sock = [c \in Conns |-> <<>>]
    /\ eof = [c \in Conns |-> "no"]
    /\ sent = 0

-------------------------------------------------------------------------------
(* The event loop *)

(* Mutation: waitpid is called once, not until there is nothing to wait for. *)
ReapOne ==
    /\ pc = "batch" /\ batch = {}
    /\ pc' = "wait"
    /\ IF zombies = {} THEN zombies' = {} ELSE \E k \in zombies : zombies' = zombies \ {k}
    /\ UNCHANGED <<batch, cur, accepted, fds, watched, ready, pidOf, kids, failedDel,
                   clientVars, sock, eof>>

(* The events are handled: every child that has ended is waited for.         *)
Reap ==
    /\ pc = "batch" /\ batch = {}
    /\ pc' = "wait"
    /\ zombies' = {}
    /\ UNCHANGED <<batch, cur, accepted, fds, watched, ready, pidOf, kids, failedDel,
                   clientVars, sock, eof>>

(* epoll_wait. *)
Wait ==
    LET events == {c \in ready : Readable(c)}
                    \cup (IF accepted < connected THEN {Listen} ELSE {})
    IN  /\ pc = "wait" /\ events # {}
        /\ pc' = "batch" /\ batch' = events /\ ready' = {}
        /\ UNCHANGED <<cur, accepted, fds, watched, pidOf, kidVars, failedDel, clientVars, sock, eof>>

(* accept, and on to the recv of shake_hands. *)
Accept ==
    /\ pc = "batch" /\ Listen \in batch
    /\ batch' = batch \ {Listen}
    /\ accepted' = accepted + 1 /\ cur' = accepted + 1
    /\ fds' = fds \cup {accepted + 1}
    /\ pc' = "shake"
    /\ UNCHANGED <<watched, ready, pidOf, kidVars, failedDel, clientVars, sock, eof>>

(* Mutation: the first operation is read right after the handshake. *)
ShakeHandsAndRead ==
    /\ pc = "shake" /\ (sock[cur] # <<>> \/ eof[cur] = "fin")
    /\ sock' = [sock EXCEPT ![cur] = <<>>]
    /\ eof' = [eof EXCEPT ![cur] = IF @ = "rst" THEN "fin" ELSE @]
    /\ cli' = [cli EXCEPT ![cur] = IF @ = "asked" THEN "open" ELSE @]
    /\ watched' = watched \cup {cur}
    /\ ready' = IF eof[cur] # "no" THEN ready \cup {cur} ELSE ready
    /\ pc' = "batch" /\ cur' = Listen /\ batch' = batch \cup {cur}
    /\ UNCHANGED <<accepted, fds, pidOf, kidVars, failedDel, connected, sent>>

(* recv returned, the answer is sent and the connection is added to the epoll*)
(* set, which reports it if there is more to read.  The error of a reset is  *)
(* returned by the recv, if it has no data to return, and otherwise by the   *)
(* send; later calls find an end of stream.                                  *)
ShakeHands ==
    /\ pc = "shake" /\ (sock[cur] # <<>> \/ eof[cur] = "fin")
    /\ sock' = [sock EXCEPT ![cur] = <<>>]
    /\ eof' = [eof EXCEPT ![cur] = IF @ = "rst" THEN "fin" ELSE @]
    /\ cli' = [cli EXCEPT ![cur] = IF @ = "asked" THEN "open" ELSE @]
    /\ watched' = watched \cup {cur}
    /\ ready' = IF eof[cur] # "no" THEN ready \cup {cur} ELSE ready
    /\ pc' = "batch" /\ cur' = Listen
    /\ UNCHANGED <<batch, accepted, fds, pidOf, kidVars, failedDel, connected, sent>>

(* The recv took the error of a reset, so the send raises SIGPIPE. *)
ShakeReset ==
    /\ pc = "shake" /\ sock[cur] = <<>> /\ eof[cur] = "rst"
    /\ pc' = "dead"
    /\ UNCHANGED <<batch, cur, accepted, fds, watched, ready, pidOf, kidVars, failedDel,
                   clientVars, sock, eof>>

(* Mutation: the events behind the first of a batch are dropped. *)
ReceivedAlone(c, op) ==
    /\ pc = "batch" /\ c \in batch \cap Conns
    /\ sock[c] # <<>> /\ op = Head(sock[c])
    /\ sock' = [sock EXCEPT ![c] = <<>>]
    /\ batch' = {}

(* analy_data returned the first of the frames one recv took, op is its      *)
(* operation.  The other frames are lost.                                    *)
Received(c, op) ==
    /\ pc = "batch" /\ c \in batch \cap Conns
    /\ sock[c] # <<>> /\ op = Head(sock[c])
    /\ sock' = [sock EXCEPT ![c] = <<>>]
    /\ batch' = batch \ {c}

Fork(c, op) == Append(kids, [conn |-> c, op |-> op, st |-> "run"])

(* Mutations: a "continue" does not note its process; the number goes to the *)
(* connection accepted first.                                                *)
StartOrContinueForgets(c) ==
    /\ \E op \in {"start", "continue"} :
         /\ Received(c, op)
         /\ kids' = Fork(c, op)
         /\ pidOf' = IF op = "start" THEN [pidOf EXCEPT ![accepted] = Len(kids) + 1] ELSE pidOf
    /\ UNCHANGED <<pc, cur, accepted, fds, watched, ready, zombies, failedDel, clientVars, eof>>

StartOrContinueFirst(c) ==
    /\ \E op \in {"start", "continue"} : Received(c, op) /\ kids' = Fork(c, op)
    /\ pidOf' = [pidOf EXCEPT ![1] = Len(kids) + 1]
    /\ UNCHANGED <<pc, cur, accepted, fds, watched, ready, zombies, failedDel, clientVars, eof>>

(* "start" and "continue" fork.  The process number goes to e_ptr, which is  *)
(* the connection accepted last, not to e_ptr_tem.                           *)
StartOrContinue(c) ==
    /\ \E op \in {"start", "continue"} : Received(c, op) /\ kids' = Fork(c, op)
    /\ pidOf' = [pidOf EXCEPT ![accepted] = Len(kids) + 1]
    /\ UNCHANGED <<pc, cur, accepted, fds, watched, ready, zombies, failedDel, clientVars, eof>>

Hit(K) == {k \in K : Running(k)}

StoppedKids(K) == [k \in Pids |-> IF k \in Hit(K)
                                  THEN [kids[k] EXCEPT !.st = "dead"] ELSE kids[k]]

(* waitpid does not wait: those just killed may not have ended yet. *)
WaitedFor(K) == \E late \in SUBSET Hit(K) : zombies' = (zombies \ K) \cup late

(* "stop": kill, with the number noted for the connection, and waitpid. *)
Stop(c) ==
    /\ Received(c, "stop") /\ pidOf[c] # Unset
    /\ kids' = StoppedKids({pidOf[c]}) /\ WaitedFor({pidOf[c]})
    /\ UNCHANGED <<pc, cur, accepted, fds, watched, ready, pidOf, failedDel, clientVars, eof>>

(* "stop" where none was noted: process_pid is what malloc returned, a number*)
(* of nobody or of one of the processes, or 0, which kills the process group.*)
StopUnset(c) ==
    /\ Received(c, "stop") /\ pidOf[c] = Unset
    /\ \/ \E K \in {{}} \cup {{k} : k \in Pids} :
            kids' = StoppedKids(K) /\ WaitedFor(K) /\ pc' = pc
       \/ kids' = StoppedKids(Pids) /\ zombies' = {} /\ pc' = "dead"
    /\ UNCHANGED <<cur, accepted, fds, watched, ready, pidOf, failedDel, clientVars, eof>>

(* "delete" prints a line. *)
Delete(c) ==
    /\ Received(c, "delete")
    /\ UNCHANGED <<pc, cur, accepted, fds, watched, ready, pidOf, kidVars, failedDel, clientVars, eof>>

(* An end of stream, or the eight bytes of a close frame alone. *)
AtEnd(c) == sock[c] = <<"close">> \/ (sock[c] = <<>> /\ eof[c] = "fin")

Close(c) ==
    /\ pc = "batch" /\ c \in batch \cap Conns /\ AtEnd(c) /\ c \in watched
    /\ batch' = batch \ {c}
    /\ sock' = [sock EXCEPT ![c] = <<>>]
    /\ watched' = watched \ {c} /\ ready' = ready \ {c} /\ fds' = fds \ {c}
    /\ UNCHANGED <<pc, cur, accepted, pidOf, kidVars, failedDel, clientVars, eof>>

(* EPOLL_CTL_DEL fails: a download process was there first.  main exits.     *)
CloseFails(c) ==
    /\ pc = "batch" /\ c \in batch \cap Conns /\ AtEnd(c) /\ c \notin watched
    /\ pc' = "dead" /\ failedDel' = c
    /\ sock' = [sock EXCEPT ![c] = <<>>]
    /\ UNCHANGED <<batch, cur, accepted, fds, watched, ready, pidOf, kidVars, clientVars, eof>>

(* recv returned -1, analy_data NULL, and strlen faults. *)
ReceiveReset(c) ==
    /\ pc = "batch" /\ c \in batch \cap Conns /\ sock[c] = <<>> /\ eof[c] = "rst"
    /\ pc' = "dead"
    /\ UNCHANGED <<batch, cur, accepted, fds, watched, ready, pidOf, kidVars, failedDel,
                   clientVars, sock, eof>>

HandleEvent(c) ==
    \/ StartOrContinue(c) \/ Stop(c) \/ StopUnset(c) \/ Delete(c)
    \/ Close(c) \/ CloseFails(c) \/ ReceiveReset(c)

MainStep == Reap \/ Wait \/ Accept \/ ShakeHands \/ ShakeReset \/ \E c \in Conns : HandleEvent(c)

-------------------------------------------------------------------------------
(* Download processes.  What they do until they end is the matter of other   *)
(* modules.                                                                  *)

KidFrame == UNCHANGED <<mainVars, clientVars, sock>>

(* The process ends and stays until it is waited for. *)
Ends(k, st) ==
    /\ Running(k)
    /\ kids' = [kids EXCEPT ![k].st = st]
    /\ zombies' = zombies \cup {k}

(* Mutation: the end of a "continue" also takes the connection out. *)
KidFinishesAndLeaves(k) ==
    /\ Ends(k, "finished")
    /\ watched' = watched \ {kids[k].conn} /\ ready' = ready \ {kids[k].conn}
    /\ KidFrame /\ UNCHANGED eof

(* The mission is done: a "start" takes the connection out of the epoll set, *)
(* if it still is in it, a "continue" does not.  Then the process exits.     *)
KidFinishes(k) ==
    LET out == IF kids[k].op = "start" THEN {kids[k].conn} ELSE {} IN
    /\ Ends(k, "finished")
    /\ watched' = watched \ out /\ ready' = ready \ out
    /\ KidFrame /\ UNCHANGED eof

(* It crashes, or SIGPIPE ends it when the browser is gone. *)
KidDies(k) ==
    /\ Ends(k, "dead")
    /\ KidFrame /\ UNCHANGED <<watched, ready, eof>>

(* A progress message to a browser that is gone: it is answered by a reset,  *)
(* which is an event, or takes the error of the reset that came before.      *)
KidSends(k) ==
    LET c == kids[k].conn IN
    /\ Running(k) /\ eof[c] # "no"
    /\ eof' = [eof EXCEPT ![c] = "fin"]
    /\ ready' = IF eof[c] = "fin" THEN ready \cup ({c} \cap watched) ELSE ready
    /\ KidFrame /\ UNCHANGED <<watched, kidVars>>

-------------------------------------------------------------------------------
(* Browsers *)

ClientFrame == UNCHANGED <<mainVars, watched, kidVars>>

(* Something happens on connection c. *)
Event(c) == ready' = ready \cup ({c} \cap watched)

(* There is someone to talk to. *)
Reached(c) == pc # "dead" /\ c <= connected /\ (c > accepted \/ c \in fds)

Connect ==
    /\ pc # "dead" /\ connected < MaxConns
    /\ connected' = connected + 1
    /\ cli' = [cli EXCEPT ![connected + 1] = "new"]
    /\ ClientFrame /\ UNCHANGED <<ready, sock, eof, sent>>

SendHandshake(c) ==
    /\ Reached(c) /\ cli[c] = "new" /\ eof[c] = "no"
    /\ cli' = [cli EXCEPT ![c] = "asked"]
    /\ sock' = [sock EXCEPT ![c] = Append(@, "handshake")]
    /\ Event(c)
    /\ ClientFrame /\ UNCHANGED <<connected, eof, sent>>

SendOperation(c) ==
    /\ Reached(c) /\ cli[c] = "open" /\ sent < MaxMessages
    /\ sent' = sent + 1
    /\ \E op \in Ops : sock' = [sock EXCEPT ![c] = Append(@, op)]
    /\ Event(c)
    /\ ClientFrame /\ UNCHANGED <<connected, cli, eof>>

(* A close frame. *)
SendClose(c) ==
    /\ Reached(c) /\ cli[c] = "open"
    /\ cli' = [cli EXCEPT ![c] = "left"]
    /\ sock' = [sock EXCEPT ![c] = Append(@, "close")]
    /\ Event(c)
    /\ ClientFrame /\ UNCHANGED <<connected, eof, sent>>

(* The browser closes the connection, with or without a close frame before. *)
Leave(c) ==
    /\ Reached(c) /\ eof[c] = "no"
    /\ cli' = [cli EXCEPT ![c] = "left"]
    /\ \E e \in {"fin", "rst"} : eof' = [eof EXCEPT ![c] = e]
    /\ Event(c)
    /\ ClientFrame /\ UNCHANGED <<connected, sock, sent>>

-------------------------------------------------------------------------------
(* The model ends with the server. *)
Next ==
    \/ MainStep
    \/ pc # "dead" /\ \E k \in Pids : KidFinishes(k) \/ KidDies(k) \/ KidSends(k)
    \/ Connect
    \/ \E c \in Conns : SendHandshake(c) \/ SendOperation(c) \/ SendClose(c) \/ Leave(c)

Spec == Init /\ [][Next]_vars

(* The kernel runs the server.  Nothing is assumed of browsers or downloads. *)
FairSpec == Spec /\ WF_vars(MainStep)

-------------------------------------------------------------------------------
(* Properties *)

Frames == Ops \cup {"handshake", "close"}
Kid == [conn : Conns, op : {"start", "continue"}, st : {"run", "finished", "dead"}]

ServerTypeOK ==
    /\ pc \in {"wait", "batch", "shake", "dead"}
    /\ accepted \in 0 .. MaxConns /\ connected \in accepted .. MaxConns
    /\ cur \in Conns \cup {Listen} /\ failedDel \in Conns \cup {Listen}
    /\ batch \subseteq Conns \cup {Listen}

EpollTypeOK == fds \subseteq 1 .. accepted /\ watched \subseteq fds /\ ready \subseteq watched

KidTypeOK ==
    /\ kids \in Seq(Kid)
    /\ zombies \subseteq {k \in Pids : ~Running(k)}
    /\ pidOf \in [Conns -> 0 .. Len(kids)]

BrowserTypeOK ==
    /\ cli \in [Conns -> {"out", "new", "asked", "open", "left"}]
    /\ sock \in [Conns -> Seq(Frames)]
    /\ eof \in [Conns -> {"no", "fin", "rst"}]
    /\ sent \in 0 .. MaxMessages

(* The type of every variable. *)
TypeOK == ServerTypeOK /\ EpollTypeOK /\ KidTypeOK /\ BrowserTypeOK

(* Events and arrivals agree, although connections are edge triggered, one   *)
(* recv takes all there is and only the first frame of it is used.  Whatever *)
(* is in the batch finds something to read, also if the connection became    *)
(* ready again while it waited there: no recv blocks the server, although    *)
(* every descriptor is blocking (main.c:144).  And what a browser the server *)
(* listens to has sent and main has not received has an event, in the batch  *)
(* or in the kernel's list: no message is overlooked.                        *)
EventsReadable == pc = "batch" => \A c \in batch \cap Conns : Readable(c) /\ c \in fds

NoneOverlooked ==
    pc # "dead" => \A c \in watched : sock[c] # <<>> => c \in ready \cup batch

EventsAreArrivals == EventsReadable /\ NoneOverlooked

(* Whatever main.c:200 and 218 note for a connection is a download of that   *)
(* connection or of one accepted before it: a "stop" whose process number was*)
(* noted reaches no download of a browser that came later.                   *)
PidsOfEarlier == \A c \in Conns : pidOf[c] # Unset => kids[pidOf[c]].conn <= c

(* As long as the browser connected last is the only one that downloads, the *)
(* number its "stop" uses (main.c:233) is that of its newest download, over  *)
(* repeated starts and continues and over browsers that left before it.      *)
SoleDownloaderStopsNewest ==
    (kids # <<>> /\ \A k \in Pids : kids[k].conn = accepted) => pidOf[accepted] = Len(kids)

(* A browser that has neither left nor seen a "start" of its own run to the  *)
(* end is listened to, whatever the downloads of others do to the epoll set  *)
(* they share with the server (main.c:185, 249).                             *)
StaysWatched ==
    \A c \in 1 .. accepted :
        (pc # "dead" /\ cur # c /\ cli[c] # "left" /\ ~StartFinished(c)) => c \in watched

(* The server gives up over a failed EPOLL_CTL_DEL (main.c:250-254) only when*)
(* a "start" of the same browser ran to its end.                             *)
GivesUpOnlyAfterStart == failedDel # Listen => StartFinished(failedDel)

(* The server waits in the recv of the handshake for a browser that says     *)
(* nothing (main.c:121).                                                     *)
WaitsForHandshake == pc = "shake" /\ sock[cur] = <<>> /\ eof[cur] = "no"

(* What a browser the server listens to sends is received, unless the server *)
(* dies: with edge triggering and one recv per event no arrival is missed.   *)
(* Only a browser that stays silent after its connect can put this off, and  *)
(* only as long as it is silent.                                             *)
MessagesReceived ==
    \/ <>[]WaitsForHandshake
    \/ \A c \in Conns : (c \in watched /\ sock[c] # <<>>)
                          ~> (sock[c] = <<>> \/ c \notin watched \/ pc = "dead")

(* A child that ends while the server is not asleep, or any ended child once *)
(* an event woke it, is waited for before it sleeps again (main.c:104): the  *)
(* ended children of a batch, however many, do not pile up.                  *)
EndedAreWaitedFor ==
    \/ <>[]WaitsForHandshake
    \/ \A k \in 1 .. MaxMessages :
          (pc # "wait" /\ k \in zombies) ~> (k \notin zombies \/ pc = "dead")

(* "stop" pauses the download (main.c:24) of the browser that sends it.      *)
StopPausesOwn ==
    [][\A c \in Conns : Stop(c) =>
         \A k \in Pids : (Running(k) /\ kids'[k].st # "run") => kids[k].conn = c]_vars

-------------------------------------------------------------------------------
(* The inductive invariant behind the properties above *)

(* Where main is and what it works on: a connection that is in the batch was *)
(* accepted, has something to read and is not the one in its handshake.      *)
MainInv ==
    /\ pc \in {"wait", "batch"} => cur = Listen
    /\ pc = "shake" => cur = accepted /\ cur \in fds \ batch
    /\ Listen \in batch => accepted < connected
    /\ pc # "dead" => \A c \in batch \cap Conns : Readable(c) /\ c \in fds

(* Nothing comes from a browser before it connects, and nothing ends a       *)
(* connection but its browser.                                               *)
ClientInv ==
    /\ \A c \in Conns : c > connected => cli[c] = "out" /\ sock[c] = <<>> /\ eof[c] = "no"
    /\ \A c \in Conns : (eof[c] # "no" \/ sock[c] = <<"close">>) => cli[c] = "left"

(* What main holds open it listens to, but for the connection in its         *)
(* handshake and those a finished "start" took out.                          *)
WatchInv ==
    /\ \A c \in fds : c \in watched \/ c = cur \/ StartFinished(c)
    /\ pc # "dead" => \A c \in 1 .. accepted : cli[c] # "left" => c \in fds

(* A batch is handled to its end before the next epoll_wait, which takes over*)
(* the whole ready list.                                                     *)
EventInv == (pc = "wait" => batch = {}) /\ NoneOverlooked

KidInv == \A k \in Pids : kids[k].conn <= accepted

IInv ==
    /\ MainInv /\ ClientInv /\ WatchInv /\ KidInv
    /\ PidsOfEarlier /\ SoleDownloaderStopsNewest /\ GivesUpOnlyAfterStart
===============================================================================
