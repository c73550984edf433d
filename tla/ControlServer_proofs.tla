-------------------------- MODULE ControlServer_proofs -------------------------
(***************************************************************************)
(* Proofs about ControlServer, for any number of connections browsers make *)
(* and of operations they send.                                            *)
(***************************************************************************)
EXTENDS ControlServer, TLAPS

-------------------------------------------------------------------------------
(* The list of processes *)

(* A function on 1 .. n is a sequence of length n.                           *)
LEMMA SequenceOf ==
    ASSUME NEW S, NEW n \in Nat, NEW f \in [1 .. n -> S]
    PROVE  f \in Seq(S) /\ Len(f) = n
OBVIOUS

LEMMA KidsTypes ==
    ASSUME TypeOK
    PROVE  /\ Len(kids) \in Nat /\ Pids = 1 .. Len(kids) /\ kids \in [Pids -> Kid]
           /\ \A k \in Pids : /\ kids[k].conn \in Conns
                              /\ kids[k].op \in {"start", "continue"}
                              /\ kids[k].st \in {"run", "finished", "dead"}
<1>1. kids \in Seq(Kid)
  BY DEF TypeOK, KidTypeOK
<1>2. Len(kids) \in Nat /\ Pids = 1 .. Len(kids) /\ kids \in [Pids -> Kid]
  BY <1>1 DEF Pids
<1> QED BY <1>2 DEF Kid

(* How a step may change the processes: it forks or ends some, and the       *)
(* connection and operation of each, and that it finished, stay.             *)
KidsGoOn ==
    /\ Pids \subseteq Pids'
    /\ \A k \in Pids : /\ kids'[k].conn = kids[k].conn
                       /\ kids'[k].op = kids[k].op
                       /\ kids[k].st # "run" => kids'[k].st = kids[k].st

SameKids == Len(kids') = Len(kids) /\ Pids' = Pids

LEMMA ForkedKids ==
    ASSUME TypeOK, NEW c \in Conns, NEW o \in {"start", "continue"}, kids' = Fork(c, o)
    PROVE  /\ kids' \in Seq(Kid) /\ Len(kids') = Len(kids) + 1
           /\ Pids' = 1 .. Len(kids) + 1 /\ KidsGoOn
           /\ kids'[Len(kids) + 1].conn = c
           /\ \A k \in Pids : kids'[k] = kids[k]
<1> DEFINE new == [conn |-> c, op |-> o, st |-> "run"]
<1>1. kids \in Seq(Kid) /\ new \in Kid /\ kids' = Append(kids, new)
  BY DEF TypeOK, KidTypeOK, Kid, Fork
<1>2. new.conn = c
  OBVIOUS
<1> HIDE DEF new
<1>3. /\ kids' \in Seq(Kid) /\ Len(kids') = Len(kids) + 1
      /\ kids'[Len(kids) + 1] = new
      /\ \A k \in 1 .. Len(kids) : kids'[k] = kids[k]
  BY <1>1
<1>4. Pids' = 1 .. Len(kids) + 1
  BY <1>3 DEF Pids
<1>5. \A k \in Pids : kids'[k] = kids[k]
  BY <1>3, KidsTypes
<1>6. KidsGoOn
  BY <1>4, <1>5, KidsTypes DEF KidsGoOn
<1> QED BY <1>2, <1>3, <1>4, <1>5, <1>6

LEMMA StoppedKidsType ==
    ASSUME TypeOK, NEW K, kids' = StoppedKids(K)
    PROVE  /\ kids' \in Seq(Kid) /\ SameKids /\ KidsGoOn
           /\ \A k \in Hit(K) : k \in Pids => kids'[k].st = "dead"
<1>1. ASSUME NEW k \in Pids
      PROVE  /\ kids'[k] \in Kid
             /\ kids'[k].conn = kids[k].conn /\ kids'[k].op = kids[k].op
             /\ k \in Hit(K) => kids'[k].st = "dead"
             /\ kids[k].st # "run" => kids'[k].st = kids[k].st
  <2>1. kids[k] \in Kid
    BY KidsTypes
  <2>2. kids'[k] = IF k \in Hit(K) THEN [kids[k] EXCEPT !.st = "dead"] ELSE kids[k]
    BY DEF StoppedKids
  <2>3. k \in Hit(K) => kids[k].st = "run"
    BY DEF Hit, Running
  <2> QED BY <2>1, <2>2, <2>3 DEF Kid
<1>2. kids' \in [1 .. Len(kids) -> Kid]
  BY <1>1, KidsTypes DEF StoppedKids
<1>3. kids' \in Seq(Kid) /\ Len(kids') = Len(kids)
  BY <1>2, KidsTypes, SequenceOf
<1>4. Pids' = Pids
  BY <1>2, KidsTypes DEF Pids
<1> QED BY <1>1, <1>3, <1>4 DEF SameKids, KidsGoOn

LEMMA EndedKids ==
    ASSUME TypeOK, NEW k \in Pids, NEW st \in {"finished", "dead"}, Ends(k, st)
    PROVE  /\ kids' \in Seq(Kid) /\ SameKids /\ KidsGoOn
           /\ kids'[k].st = st
<1>0. kids[k] \in Kid /\ kids[k].st = "run" /\ kids' = [kids EXCEPT ![k].st = st]
  BY KidsTypes DEF Ends, Running
<1>1. ASSUME NEW j \in Pids
      PROVE  /\ kids'[j] \in Kid
             /\ kids'[j].conn = kids[j].conn /\ kids'[j].op = kids[j].op
             /\ j = k => kids'[j].st = st
             /\ kids[j].st # "run" => kids'[j].st = kids[j].st
  <2>1. kids[j] \in Kid
    BY KidsTypes
  <2>2. kids'[j] = IF j = k THEN [kids[k] EXCEPT !.st = st] ELSE kids[j]
    BY <1>0, KidsTypes
  <2> QED BY <1>0, <2>1, <2>2 DEF Kid
<1>2. kids' \in [1 .. Len(kids) -> Kid]
  BY <1>0, <1>1, KidsTypes
<1>3. kids' \in Seq(Kid) /\ Len(kids') = Len(kids)
  BY <1>2, KidsTypes, SequenceOf
<1>4. Pids' = Pids
  BY <1>2, KidsTypes DEF Pids
<1> QED BY <1>1, <1>3, <1>4 DEF SameKids, KidsGoOn

(* A finished "start" stays one.                                             *)
LEMMA FinishedStays ==
    ASSUME KidsGoOn, NEW c, StartFinished(c)
    PROVE  StartFinished(c)'
BY DEF KidsGoOn, StartFinished

-------------------------------------------------------------------------------
(* Types *)

LEMMA InitType == Init => TypeOK
<1> SUFFICES ASSUME Init PROVE TypeOK
  OBVIOUS
<1>1. kids \in Seq(Kid) /\ Len(kids) = 0 /\ zombies = {}
  BY DEF Init
<1>2. sock \in [Conns -> Seq(Frames)]
  BY DEF Init
<1> QED BY <1>1, <1>2, ConstantsAssumption
       DEF Init, TypeOK, ServerTypeOK, EpollTypeOK, KidTypeOK, BrowserTypeOK, Conns, Listen, Unset

(* What receiving does to the frames and the batch.                          *)
LEMMA ReceivedType ==
    ASSUME TypeOK, NEW c \in Conns, NEW o, Received(c, o)
    PROVE  /\ sock' \in [Conns -> Seq(Frames)] /\ batch' \subseteq Conns \cup {Listen}
           /\ pc = "batch" /\ c \in batch
           /\ sock'[c] = <<>> /\ \A d \in Conns \ {c} : sock'[d] = sock[d]
           /\ batch' = batch \ {c}
BY DEF TypeOK, ServerTypeOK, BrowserTypeOK, Received

(* Ending processes ends and leaves them to be waited for, or not.           *)
LEMMA ZombiesType ==
    ASSUME TypeOK, NEW K \in SUBSET Pids, kids' = StoppedKids(K), WaitedFor(K) \/ zombies' = {}
    PROVE  zombies' \subseteq {k \in Pids' : ~Running(k)'}
<1>1. SameKids /\ KidsGoOn /\ \A k \in Hit(K) : k \in Pids => kids'[k].st = "dead"
  BY StoppedKidsType
<1>2. zombies' \subseteq zombies \cup Hit(K)
  BY DEF WaitedFor
<1>3. ASSUME NEW k \in zombies' PROVE k \in Pids' /\ kids'[k].st # "run"
  <2>1. CASE k \in zombies
    BY <1>1, <2>1 DEF TypeOK, KidTypeOK, Running, KidsGoOn, SameKids
  <2>2. CASE k \in Hit(K)
    <3>1. k \in Pids
      BY <2>2 DEF Hit
    <3> QED BY <1>1, <2>2, <3>1 DEF SameKids
  <2> QED BY <1>2, <2>1, <2>2
<1> QED BY <1>3 DEF Running

(* Steps that leave the processes alone, or the browsers and what they sent. *)
LEMMA SameKidsType ==
    ASSUME KidTypeOK, UNCHANGED <<kids, zombies, pidOf>>
    PROVE  KidTypeOK'
BY DEF KidTypeOK, Pids, Running

LEMMA SameBrowsersType ==
    ASSUME BrowserTypeOK, UNCHANGED <<cli, sock, eof, sent>>
    PROVE  BrowserTypeOK'
BY DEF BrowserTypeOK

LEMMA SameEpollType ==
    ASSUME EpollTypeOK, UNCHANGED <<accepted, fds, watched, ready>>
    PROVE  EpollTypeOK'
BY DEF EpollTypeOK

(* A step of main. *)
LEMMA MainStepType == TypeOK /\ IInv /\ MainStep => TypeOK'
<1> SUFFICES ASSUME TypeOK, IInv, MainStep PROVE TypeOK'
  OBVIOUS
<1>0. ServerTypeOK /\ EpollTypeOK /\ KidTypeOK /\ BrowserTypeOK /\ MainInv
  BY DEF TypeOK, IInv
<1>1. CASE Reap
  <2>1. KidTypeOK'
    BY <1>0, <1>1 DEF Reap, KidTypeOK, Pids, Running
  <2> QED BY <1>0, <1>1, <2>1, SameEpollType, SameBrowsersType
          DEF Reap, TypeOK, ServerTypeOK, clientVars
<1>2. CASE Wait
  <2>1. /\ pc' = "batch" /\ batch' \subseteq ready \cup {Listen} /\ ready' = {}
        /\ UNCHANGED <<cur, accepted, fds, watched, pidOf, kids, zombies, failedDel,
                       connected, cli, sent, sock, eof>>
    BY <1>2 DEF Wait, kidVars, clientVars
  <2>2. ServerTypeOK'
    <3>1. \A c \in ready : c \in Conns
      BY <1>0, ConstantsAssumption DEF ServerTypeOK, EpollTypeOK, Conns
    <3>2. batch' \subseteq Conns \cup {Listen}
      BY <2>1, <3>1
    <3> QED BY <1>0, <2>1, <3>2 DEF ServerTypeOK
  <2>3. EpollTypeOK'
    BY <1>0, <2>1 DEF EpollTypeOK
  <2> QED BY <1>0, <2>1, <2>2, <2>3, SameKidsType, SameBrowsersType DEF TypeOK
<1>3. CASE Accept
  <2>1. /\ Listen \in batch /\ batch' = batch \ {Listen} /\ pc' = "shake"
        /\ accepted' = accepted + 1 /\ cur' = accepted + 1 /\ fds' = fds \cup {accepted + 1}
        /\ UNCHANGED <<watched, ready, pidOf, kids, zombies, failedDel,
                       connected, cli, sent, sock, eof>>
    BY <1>3 DEF Accept, kidVars, clientVars
  <2>2. accepted < connected
    BY <1>0, <2>1 DEF MainInv
  <2>3. ServerTypeOK'
    BY <1>0, <2>1, <2>2, ConstantsAssumption DEF ServerTypeOK, Conns
  <2>4. EpollTypeOK'
    BY <1>0, <2>1, ConstantsAssumption DEF EpollTypeOK, ServerTypeOK
  <2> QED BY <1>0, <2>1, <2>3, <2>4, SameKidsType, SameBrowsersType DEF TypeOK
<1>4. CASE ShakeHands
  <2>1. /\ pc = "shake" /\ pc' = "batch" /\ cur' = Listen
        /\ sock' = [sock EXCEPT ![cur] = <<>>]
        /\ eof' = [eof EXCEPT ![cur] = IF @ = "rst" THEN "fin" ELSE @]
        /\ cli' = [cli EXCEPT ![cur] = IF @ = "asked" THEN "open" ELSE @]
        /\ watched' = watched \cup {cur}
        /\ ready' \subseteq ready \cup {cur}
        /\ UNCHANGED <<batch, accepted, fds, pidOf, kids, zombies, failedDel, connected, sent>>
    BY <1>4 DEF ShakeHands, kidVars
  <2>2. cur \in fds /\ cur \in Conns
    BY <1>0, <2>1 DEF MainInv, ServerTypeOK, EpollTypeOK, Conns
  <2>3. BrowserTypeOK'
    BY <1>0, <2>1, <2>2 DEF BrowserTypeOK
  <2>4. ServerTypeOK'
    BY <1>0, <2>1 DEF ServerTypeOK
  <2>5. EpollTypeOK'
    BY <1>0, <2>1, <2>2, <1>4 DEF EpollTypeOK, ShakeHands
  <2> QED BY <1>0, <2>1, <2>3, <2>4, <2>5, SameKidsType DEF TypeOK
<1>5. CASE ShakeReset
  BY <1>0, <1>5, SameKidsType, SameBrowsersType, SameEpollType
     DEF ShakeReset, TypeOK, ServerTypeOK, kidVars, clientVars
<1>6. ASSUME NEW c \in Conns, StartOrContinue(c) PROVE TypeOK'
  <2>1. PICK o \in {"start", "continue"} : Received(c, o) /\ kids' = Fork(c, o)
    BY <1>6 DEF StartOrContinue
  <2>2. /\ pidOf' = [pidOf EXCEPT ![accepted] = Len(kids) + 1]
        /\ UNCHANGED <<pc, cur, accepted, fds, watched, ready, zombies, failedDel,
                       connected, cli, sent, eof>>
    BY <1>6 DEF StartOrContinue, clientVars
  <2>3. KidTypeOK'
    <3>1. /\ kids' \in Seq(Kid) /\ Len(kids') = Len(kids) + 1 /\ KidsGoOn
          /\ \A k \in Pids : kids'[k] = kids[k]
      BY <2>1, ForkedKids
    <3>2. pidOf' \in [Conns -> 0 .. Len(kids')]
      <4>1. \A d \in Conns : pidOf'[d] \in {pidOf[d], Len(kids) + 1}
        BY <1>0, <2>2 DEF KidTypeOK
      <4>2. \A d \in Conns : pidOf'[d] \in 0 .. Len(kids')
        BY <1>0, <3>1, <4>1, KidsTypes DEF KidTypeOK
      <4>3. pidOf' = [d \in Conns |-> pidOf'[d]]
        BY <1>0, <2>2 DEF KidTypeOK
      <4> QED BY <4>2, <4>3
    <3>3. zombies' \subseteq {k \in Pids' : ~Running(k)'}
      BY <1>0, <2>2, <3>1 DEF KidTypeOK, Running, KidsGoOn
    <3> QED BY <3>1, <3>2, <3>3 DEF KidTypeOK
  <2>4. BrowserTypeOK' /\ ServerTypeOK'
    BY <1>0, <2>1, <2>2, ReceivedType DEF BrowserTypeOK, ServerTypeOK
  <2> QED BY <1>0, <2>2, <2>3, <2>4, SameEpollType DEF TypeOK
<1>7. ASSUME NEW c \in Conns, Stop(c) \/ StopUnset(c) PROVE TypeOK'
  <2>1. /\ Received(c, "stop") /\ pc' \in {pc, "dead"}
        /\ UNCHANGED <<cur, accepted, fds, watched, ready, pidOf, failedDel,
                       connected, cli, sent, eof>>
    BY <1>7 DEF Stop, StopUnset, clientVars
  <2>2. \E K \in SUBSET Pids : kids' = StoppedKids(K) /\ (WaitedFor(K) \/ zombies' = {})
    <3>1. CASE Stop(c)
      <4>1. pidOf[c] \in Pids
        BY <1>0, <3>1, KidsTypes DEF Stop, KidTypeOK, Unset
      <4> QED BY <3>1, <4>1 DEF Stop
    <3>2. CASE StopUnset(c)
      BY <3>2 DEF StopUnset
    <3> QED BY <1>7, <3>1, <3>2
  <2>3. KidTypeOK'
    <3>1. PICK K \in SUBSET Pids : kids' = StoppedKids(K) /\ (WaitedFor(K) \/ zombies' = {})
      BY <2>2
    <3>2. kids' \in Seq(Kid) /\ SameKids
      BY <3>1, StoppedKidsType
    <3>3. zombies' \subseteq {k \in Pids' : ~Running(k)'}
      BY <3>1, ZombiesType
    <3> QED BY <1>0, <2>1, <3>2, <3>3 DEF KidTypeOK, SameKids
  <2>4. BrowserTypeOK' /\ ServerTypeOK'
    BY <1>0, <2>1, ReceivedType DEF BrowserTypeOK, ServerTypeOK
  <2> QED BY <1>0, <2>1, <2>3, <2>4, SameEpollType DEF TypeOK
<1>8. ASSUME NEW c \in Conns, Delete(c) PROVE TypeOK'
  <2>1. /\ Received(c, "delete")
        /\ UNCHANGED <<pc, cur, accepted, fds, watched, ready, pidOf, kids, zombies, failedDel,
                       connected, cli, sent, eof>>
    BY <1>8 DEF Delete, clientVars, kidVars
  <2>2. BrowserTypeOK' /\ ServerTypeOK'
    BY <1>0, <2>1, ReceivedType DEF BrowserTypeOK, ServerTypeOK
  <2> QED BY <1>0, <2>1, <2>2, SameEpollType, SameKidsType DEF TypeOK
<1>9. ASSUME NEW c \in Conns, Close(c) PROVE TypeOK'
  <2>1. /\ batch' = batch \ {c} /\ sock' = [sock EXCEPT ![c] = <<>>]
        /\ watched' = watched \ {c} /\ ready' = ready \ {c} /\ fds' = fds \ {c}
        /\ UNCHANGED <<pc, cur, accepted, pidOf, kids, zombies, failedDel,
                       connected, cli, sent, eof>>
    BY <1>9 DEF Close, clientVars, kidVars
  <2>2. BrowserTypeOK' /\ ServerTypeOK'
    BY <1>0, <2>1 DEF BrowserTypeOK, ServerTypeOK
  <2>3. EpollTypeOK'
    BY <1>0, <2>1 DEF EpollTypeOK
  <2> QED BY <1>0, <2>1, <2>2, <2>3, SameKidsType DEF TypeOK
<1>10. ASSUME NEW c \in Conns, CloseFails(c) \/ ReceiveReset(c) PROVE TypeOK'
  <2>1. /\ pc' = "dead" /\ failedDel' \in {c, failedDel}
        /\ sock' = sock \/ sock' = [sock EXCEPT ![c] = <<>>]
        /\ UNCHANGED <<batch, cur, accepted, fds, watched, ready, pidOf, kids, zombies,
                       connected, cli, sent, eof>>
    BY <1>10 DEF CloseFails, ReceiveReset, clientVars, kidVars
  <2>2. BrowserTypeOK' /\ ServerTypeOK'
    <3>1. BrowserTypeOK'
      <4>1. CASE sock' = sock
        BY <1>0, <2>1, <4>1 DEF BrowserTypeOK
      <4>2. CASE sock' = [sock EXCEPT ![c] = <<>>]
        BY <1>0, <2>1, <4>2 DEF BrowserTypeOK
      <4> QED BY <2>1, <4>1, <4>2
    <3>2. ServerTypeOK'
      BY <1>0, <2>1 DEF ServerTypeOK
    <3> QED BY <3>1, <3>2
  <2> QED BY <1>0, <2>1, <2>2, SameEpollType, SameKidsType DEF TypeOK
<1> QED BY <1>1, <1>2, <1>3, <1>4, <1>5, <1>6, <1>7, <1>8, <1>9, <1>10 DEF MainStep, HandleEvent

(* A step of a download process. *)
LEMMA KidStepType ==
    ASSUME TypeOK, NEW k \in Pids, KidFinishes(k) \/ KidDies(k) \/ KidSends(k)
    PROVE  TypeOK'
<1>0. ServerTypeOK /\ EpollTypeOK /\ KidTypeOK /\ BrowserTypeOK
  BY DEF TypeOK
<1>1. /\ UNCHANGED <<pc, batch, cur, accepted, fds, pidOf, failedDel, connected, cli, sent, sock>>
  BY DEF KidFinishes, KidDies, KidSends, KidFrame, mainVars, clientVars
<1>2. CASE KidFinishes(k) \/ KidDies(k)
  <2>1. PICK st \in {"finished", "dead"} : Ends(k, st)
    BY <1>2 DEF KidFinishes, KidDies
  <2>2. kids' \in Seq(Kid) /\ SameKids /\ KidsGoOn /\ kids'[k].st = st
    BY <2>1, EndedKids
  <2>3. zombies' \subseteq {j \in Pids' : ~Running(j)'}
    BY <1>0, <2>1, <2>2 DEF KidTypeOK, Running, KidsGoOn, SameKids, Ends
  <2>4. KidTypeOK'
    BY <1>0, <1>1, <2>2, <2>3 DEF KidTypeOK, SameKids
  <2>5. eof' = eof /\ \E out : watched' = watched \ out /\ ready' = ready \ out
    <3>1. CASE KidFinishes(k)
      BY <3>1 DEF KidFinishes
    <3>2. CASE KidDies(k)
      <4>1. watched' = watched \ {} /\ ready' = ready \ {}
        BY <3>2 DEF KidDies
      <4> QED BY <3>2, <4>1 DEF KidDies
    <3> QED BY <1>2, <3>1, <3>2
  <2>6. EpollTypeOK'
    BY <1>0, <1>1, <2>5 DEF EpollTypeOK
  <2> QED BY <1>0, <1>1, <2>4, <2>5, <2>6, SameBrowsersType DEF TypeOK, ServerTypeOK
<1>3. CASE KidSends(k)
  <2>1. /\ UNCHANGED <<watched, kids, zombies>>
        /\ eof' = [eof EXCEPT ![kids[k].conn] = "fin"]
        /\ ready' \subseteq ready \cup watched
    BY <1>3 DEF KidSends, kidVars
  <2>2. BrowserTypeOK'
    BY <1>0, <1>1, <2>1 DEF BrowserTypeOK
  <2>3. EpollTypeOK'
    BY <1>0, <1>1, <2>1, <1>3 DEF EpollTypeOK, KidSends
  <2> QED BY <1>0, <1>1, <2>1, <2>2, <2>3, SameKidsType DEF TypeOK, ServerTypeOK
<1> QED BY <1>2, <1>3

(* A step of a browser. *)
LEMMA BrowserStepType ==
    ASSUME TypeOK,
           Connect \/ \E c \in Conns : SendHandshake(c) \/ SendOperation(c) \/ SendClose(c) \/ Leave(c)
    PROVE  TypeOK'
<1>0. ServerTypeOK /\ EpollTypeOK /\ KidTypeOK /\ BrowserTypeOK
  BY DEF TypeOK
<1>1. /\ UNCHANGED <<pc, batch, cur, accepted, fds, pidOf, failedDel, watched, kids, zombies>>
  BY DEF Connect, SendHandshake, SendOperation, SendClose, Leave, ClientFrame, mainVars, kidVars
<1>2. CASE Connect
  <2>1. /\ connected < MaxConns /\ connected' = connected + 1
        /\ cli' = [cli EXCEPT ![connected + 1] = "new"]
        /\ UNCHANGED <<ready, sock, eof, sent>>
    BY <1>2 DEF Connect
  <2>2. BrowserTypeOK' /\ ServerTypeOK'
    <3>1. BrowserTypeOK'
      BY <1>0, <1>1, <2>1 DEF BrowserTypeOK
    <3>2. connected' \in accepted' .. MaxConns
      BY <1>0, <1>1, <2>1, ConstantsAssumption DEF ServerTypeOK
    <3>3. ServerTypeOK'
      BY <1>0, <1>1, <3>2 DEF ServerTypeOK
    <3> QED BY <3>1, <3>3
  <2> QED BY <1>0, <1>1, <2>1, <2>2, SameKidsType, SameEpollType DEF TypeOK
<1>3. ASSUME NEW c \in Conns, SendHandshake(c) \/ SendOperation(c) \/ SendClose(c) \/ Leave(c)
      PROVE  TypeOK'
  <2>1. connected' = connected /\ ready' = ready \cup ({c} \cap watched)
    BY <1>3 DEF SendHandshake, SendOperation, SendClose, Leave, Event
  <2>2. EpollTypeOK'
    BY <1>0, <1>1, <2>1 DEF EpollTypeOK
  <2>3. ServerTypeOK'
    BY <1>0, <1>1, <2>1 DEF ServerTypeOK
  <2>4. BrowserTypeOK'
    <3>1. \A s \in Seq(Frames), f \in Frames : Append(s, f) \in Seq(Frames)
      OBVIOUS
    <3>2. "handshake" \in Frames /\ "close" \in Frames /\ Ops \subseteq Frames
      BY DEF Frames
    <3>3. CASE SendHandshake(c)
      BY <1>0, <3>1, <3>2, <3>3 DEF BrowserTypeOK, SendHandshake
    <3>4. CASE SendOperation(c)
      <4>1. PICK o \in Ops : sock' = [sock EXCEPT ![c] = Append(@, o)]
        BY <3>4 DEF SendOperation
      <4>2. sock' \in [Conns -> Seq(Frames)]
        BY <1>0, <3>1, <3>2, <4>1 DEF BrowserTypeOK
      <4> QED BY <1>0, <3>4, <4>2, ConstantsAssumption DEF BrowserTypeOK, SendOperation
    <3>5. CASE SendClose(c)
      BY <1>0, <3>1, <3>2, <3>5 DEF BrowserTypeOK, SendClose
    <3>6. CASE Leave(c)
      BY <1>0, <3>6 DEF BrowserTypeOK, Leave
    <3> QED BY <1>3, <3>3, <3>4, <3>5, <3>6
  <2> QED BY <1>0, <1>1, <2>2, <2>3, <2>4, SameKidsType DEF TypeOK
<1> QED BY <1>2, <1>3

LEMMA TypeInductive == TypeOK /\ IInv /\ [Next]_vars => TypeOK'
<1> SUFFICES ASSUME TypeOK, IInv, [Next]_vars PROVE TypeOK'
  OBVIOUS
<1>1. CASE UNCHANGED vars
  BY <1>1, SameKidsType, SameBrowsersType, SameEpollType DEF vars, TypeOK, ServerTypeOK
<1> QED BY <1>1, MainStepType, KidStepType, BrowserStepType DEF Next

(* The components of TypeOK and IInv a step may rest on. *)
LEMMA Parts ==
    TypeOK /\ IInv =>
      /\ ServerTypeOK /\ EpollTypeOK /\ KidTypeOK /\ BrowserTypeOK
      /\ MainInv /\ ClientInv /\ WatchInv /\ KidInv
      /\ PidsOfEarlier /\ SoleDownloaderStopsNewest /\ GivesUpOnlyAfterStart
BY DEF TypeOK, IInv

-------------------------------------------------------------------------------
(* IInv is inductive *)

LEMMA SameKidsGoOn == kids' = kids => KidsGoOn /\ SameKids
BY DEF KidsGoOn, SameKids, Pids

(* What is known of the processes and their numbers survives every step that *)
(* forks and accepts nobody.                                                 *)
KidPart == KidInv /\ PidsOfEarlier /\ SoleDownloaderStopsNewest

LEMMA KidPartStays ==
    ASSUME TypeOK, KidPart, kids' \in Seq(Kid), KidsGoOn, SameKids,
           pidOf' = pidOf, accepted' = accepted
    PROVE  KidPart'
<1>1. KidInv'
  BY DEF KidPart, KidInv, KidsGoOn, SameKids
<1>2. PidsOfEarlier'
  <2> SUFFICES ASSUME NEW c \in Conns, pidOf[c] # Unset
               PROVE  kids'[pidOf[c]].conn <= c
    BY DEF PidsOfEarlier
  <2>1. pidOf[c] \in Pids
    BY KidsTypes DEF TypeOK, KidTypeOK, Unset
  <2> QED BY <2>1 DEF KidPart, PidsOfEarlier, KidsGoOn
<1>3. SoleDownloaderStopsNewest'
  <2> SUFFICES ASSUME kids' # <<>>, \A k \in Pids : kids'[k].conn = accepted
               PROVE  pidOf[accepted] = Len(kids)
    BY DEF SoleDownloaderStopsNewest, SameKids
  <2>1. kids # <<>>
    <3>1. Len(kids') # 0
      OBVIOUS
    <3> QED BY <3>1 DEF SameKids
  <2>2. \A k \in Pids : kids[k].conn = accepted
    BY DEF KidsGoOn
  <2> QED BY <2>1, <2>2 DEF KidPart, SoleDownloaderStopsNewest
<1> QED BY <1>1, <1>2, <1>3 DEF KidPart

LEMMA SameKidPart ==
    ASSUME TypeOK, KidPart, kids' = kids, pidOf' = pidOf, accepted' = accepted
    PROVE  KidPart'
BY SameKidsGoOn, KidPartStays DEF TypeOK, KidTypeOK

(* ClientInv after a step that at most takes what a connection sent. *)
LEMMA ClientInvStays ==
    ASSUME TypeOK, ClientInv, NEW c,
           sock' = sock \/ sock' = [sock EXCEPT ![c] = <<>>],
           UNCHANGED <<connected, cli, eof>>
    PROVE  ClientInv'
<1>1. \A d \in Conns : sock'[d] \in {sock[d], <<>>}
  BY DEF TypeOK, BrowserTypeOK
<1> QED BY <1>1 DEF ClientInv

LEMMA WatchInvStays ==
    ASSUME WatchInv, KidsGoOn, pc = "dead" => pc' = "dead",
           UNCHANGED <<cur, fds, watched, accepted, cli>>
    PROVE  WatchInv'
<1>1. \A c \in fds : StartFinished(c) => StartFinished(c)'
  BY FinishedStays
<1> QED BY <1>1 DEF WatchInv

LEMMA GivesUpStays ==
    ASSUME GivesUpOnlyAfterStart, KidsGoOn, failedDel' = failedDel
    PROVE  GivesUpOnlyAfterStart'
BY FinishedStays DEF GivesUpOnlyAfterStart

(* The event of connection c is handled. *)
LEMMA MainInvAfter ==
    ASSUME TypeOK, MainInv, pc = "batch", pc' \in {"batch", "dead"}, NEW c \in Conns,
           batch' = batch \ {c}, sock' = [sock EXCEPT ![c] = <<>>],
           UNCHANGED <<cur, accepted, connected, eof>>, fds' = fds \/ fds' = fds \ {c}
    PROVE  MainInv'
<1>1. \A d \in Conns \ {c} : sock'[d] = sock[d]
  BY DEF TypeOK, BrowserTypeOK
<1>2. \A d \in batch' \cap Conns : Readable(d)' /\ d \in fds'
  BY <1>1 DEF MainInv, Readable
<1>3. Listen \in batch' => accepted' < connected'
  BY DEF MainInv
<1>4. cur' = Listen
  BY DEF MainInv
<1> QED BY <1>2, <1>3, <1>4 DEF MainInv

LEMMA MainStepIInv == TypeOK /\ IInv /\ MainStep => IInv'
<1> SUFFICES ASSUME TypeOK, IInv, MainStep PROVE IInv'
  OBVIOUS
<1>0. /\ ServerTypeOK /\ EpollTypeOK /\ KidTypeOK /\ BrowserTypeOK
      /\ MainInv /\ ClientInv /\ WatchInv /\ KidPart /\ GivesUpOnlyAfterStart
  BY Parts DEF KidPart
<1>q. ASSUME MainInv', ClientInv', WatchInv', KidPart', GivesUpOnlyAfterStart' PROVE IInv'
  BY <1>q DEF IInv, KidPart
<1>f. fds \subseteq Conns /\ \A c \in fds : c <= accepted
  BY <1>0, ConstantsAssumption DEF ServerTypeOK, EpollTypeOK, Conns
<1>1. CASE Reap
  <2>1. /\ pc = "batch" /\ batch = {} /\ pc' = "wait"
        /\ UNCHANGED <<batch, cur, accepted, fds, watched, ready, pidOf, kids, failedDel,
                       connected, cli, sent, sock, eof>>
    BY <1>1 DEF Reap, clientVars
  <2>2. MainInv'
    BY <1>0, <2>1 DEF MainInv
  <2> QED BY <1>0, <1>q, <2>1, <2>2, SameKidsGoOn, SameKidPart, ClientInvStays, WatchInvStays,
             GivesUpStays
<1>2. CASE Wait
  <2>1. /\ pc = "wait" /\ pc' = "batch"
        /\ batch' = {c \in ready : Readable(c)}
                      \cup (IF accepted < connected THEN {Listen} ELSE {})
        /\ UNCHANGED <<cur, accepted, fds, watched, pidOf, kids, failedDel,
                       connected, cli, sent, sock, eof>>
    BY <1>2 DEF Wait, clientVars, kidVars
  <2>2. MainInv'
    <3>1. cur' = Listen
      BY <1>0, <2>1 DEF MainInv
    <3>2. ASSUME NEW c \in batch' \cap Conns PROVE Readable(c)' /\ c \in fds'
      <4>1. c # Listen
        BY DEF Conns, Listen
      <4>2. c \in ready /\ Readable(c)
        BY <2>1, <4>1
      <4> QED BY <1>0, <2>1, <4>2 DEF EpollTypeOK, Readable
    <3>3. Listen \in batch' => accepted < connected
      <4>1. Listen \notin ready
        BY <1>0, <1>f DEF EpollTypeOK, Conns, Listen
      <4> QED BY <2>1, <4>1
    <3> QED BY <2>1, <3>1, <3>2, <3>3 DEF MainInv
  <2> QED BY <1>0, <1>q, <2>1, <2>2, SameKidsGoOn, SameKidPart, ClientInvStays, WatchInvStays,
             GivesUpStays
<1>3. CASE Accept
  <2>1. /\ pc = "batch" /\ Listen \in batch /\ batch' = batch \ {Listen} /\ pc' = "shake"
        /\ accepted' = accepted + 1 /\ cur' = accepted + 1 /\ fds' = fds \cup {accepted + 1}
        /\ UNCHANGED <<watched, pidOf, kids, failedDel, connected, cli, sent, sock, eof>>
    BY <1>3 DEF Accept, kidVars, clientVars
  <2>2. accepted \in Nat /\ accepted + 1 \notin fds /\ cur = Listen /\ accepted < connected
    BY <1>0, <1>f, <2>1 DEF ServerTypeOK, MainInv
  <2>3. MainInv'
    <3>1. \A c \in batch \cap Conns : Readable(c)' /\ c \in fds
      BY <1>0, <2>1 DEF MainInv, Readable
    <3>2. accepted + 1 \in Conns
      BY <1>0, <2>2, ConstantsAssumption DEF ServerTypeOK, Conns
    <3>3. accepted + 1 \notin batch
      BY <2>2, <3>1, <3>2
    <3> QED BY <2>1, <3>1, <3>3, <2>2 DEF MainInv, Listen
  <2>4. WatchInv'
    <3>1. \A c : StartFinished(c)' <=> StartFinished(c)
      BY <2>1 DEF StartFinished, Pids
    <3>2. \A c \in fds : c # cur
      BY <1>f, <2>2 DEF Conns, Listen
    <3>3. \A c \in fds' : c \in watched' \/ c = cur' \/ StartFinished(c)'
      BY <1>0, <2>1, <3>1, <3>2 DEF WatchInv
    <3>4. \A c \in 1 .. accepted + 1 : c \in 1 .. accepted \/ c = accepted + 1
      BY <2>2
    <3>5. \A c \in 1 .. accepted' : cli'[c] # "left" => c \in fds'
      BY <1>0, <2>1, <3>4 DEF WatchInv
    <3> QED BY <3>3, <3>5 DEF WatchInv
  <2>5. KidPart'
    <3>1. \A k \in Pids : kids[k].conn \in Nat /\ kids[k].conn <= accepted
      BY <1>0, KidsTypes DEF KidPart, KidInv, Conns
    <3>2. KidInv' /\ PidsOfEarlier'
      BY <1>0, <2>1, <2>2, <3>1 DEF KidPart, KidInv, PidsOfEarlier, Pids
    <3>3. kids # <<>> => 1 \in Pids
      BY KidsTypes, <1>0 DEF KidTypeOK
    <3>4. SoleDownloaderStopsNewest'
      BY <2>1, <2>2, <3>1, <3>3 DEF SoleDownloaderStopsNewest, Pids
    <3> QED BY <3>2, <3>4 DEF KidPart
  <2> QED BY <1>0, <1>q, <2>1, <2>3, <2>4, <2>5, SameKidsGoOn, ClientInvStays, GivesUpStays
<1>4. CASE ShakeHands
  <2>1. /\ pc = "shake" /\ pc' = "batch" /\ cur' = Listen
        /\ sock' = [sock EXCEPT ![cur] = <<>>]
        /\ eof' = [eof EXCEPT ![cur] = IF @ = "rst" THEN "fin" ELSE @]
        /\ cli' = [cli EXCEPT ![cur] = IF @ = "asked" THEN "open" ELSE @]
        /\ watched' = watched \cup {cur}
        /\ UNCHANGED <<batch, accepted, fds, pidOf, kids, failedDel, connected>>
    BY <1>4 DEF ShakeHands, kidVars
  <2>2. cur = accepted /\ cur \in fds /\ cur \notin batch /\ cur \in Conns
    BY <1>0, <1>f, <2>1 DEF MainInv
  <2>3. \A d \in Conns \ {cur} : sock'[d] = sock[d] /\ eof'[d] = eof[d] /\ cli'[d] = cli[d]
    BY <1>0, <2>1 DEF BrowserTypeOK
  <2>4. /\ sock'[cur] = <<>>
        /\ eof'[cur] # "no" => eof[cur] # "no"
        /\ cli'[cur] = "left" <=> cli[cur] = "left"
    BY <1>0, <2>1, <2>2 DEF BrowserTypeOK
  <2>5. MainInv'
    BY <1>0, <2>1, <2>2, <2>3 DEF MainInv, Readable
  <2>6. ClientInv'
    <3>1. cur <= connected
      BY <1>0, <2>2 DEF ServerTypeOK
    <3>2. ASSUME NEW d \in Conns, d > connected
          PROVE  cli'[d] = "out" /\ sock'[d] = <<>> /\ eof'[d] = "no"
      <4>1. d # cur
        BY <1>0, <2>2, <3>1, <3>2 DEF ServerTypeOK, Conns
      <4> QED BY <1>0, <2>3, <3>2, <4>1 DEF ClientInv
    <3>3. ASSUME NEW d \in Conns, eof'[d] # "no" \/ sock'[d] = <<"close">>
          PROVE  cli'[d] = "left"
      <4>1. CASE d = cur
        <5>1. sock'[d] # <<"close">>
          BY <2>4, <4>1
        <5> QED BY <1>0, <2>4, <3>3, <4>1, <5>1 DEF ClientInv
      <4>2. CASE d # cur
        BY <1>0, <2>3, <3>3, <4>2 DEF ClientInv
      <4> QED BY <4>1, <4>2
    <3> QED BY <2>1, <3>2, <3>3 DEF ClientInv
  <2>7. WatchInv'
    <3>1. \A d : StartFinished(d)' <=> StartFinished(d)
      BY <2>1 DEF StartFinished, Pids
    <3>2. \A d \in fds' : d \in watched' \/ d = cur' \/ StartFinished(d)'
      BY <1>0, <2>1, <3>1 DEF WatchInv
    <3>3. ASSUME NEW d \in 1 .. accepted, cli'[d] # "left" PROVE d \in fds
      <4>1. d \in Conns
        BY <1>0, ConstantsAssumption DEF ServerTypeOK, Conns
      <4> QED BY <1>0, <2>1, <2>3, <2>4, <3>3, <4>1 DEF WatchInv
    <3> QED BY <2>1, <3>2, <3>3 DEF WatchInv
  <2> QED BY <1>0, <1>q, <2>1, <2>5, <2>6, <2>7, SameKidsGoOn, SameKidPart, GivesUpStays
<1>5. CASE ShakeReset
  <2>1. /\ pc' = "dead"
        /\ UNCHANGED <<batch, cur, accepted, fds, watched, pidOf, kids, failedDel,
                       connected, cli, sock, eof>>
    BY <1>5 DEF ShakeReset, kidVars, clientVars
  <2>2. MainInv'
    BY <1>0, <2>1 DEF MainInv
  <2> QED BY <1>0, <1>q, <2>1, <2>2, SameKidsGoOn, SameKidPart, ClientInvStays, WatchInvStays,
             GivesUpStays
<1>6. ASSUME NEW c \in Conns, StartOrContinue(c) PROVE IInv'
  <2>1. PICK o \in {"start", "continue"} : Received(c, o) /\ kids' = Fork(c, o)
    BY <1>6 DEF StartOrContinue
  <2>2. /\ pidOf' = [pidOf EXCEPT ![accepted] = Len(kids) + 1]
        /\ UNCHANGED <<pc, cur, accepted, fds, watched, failedDel, connected, cli, eof>>
    BY <1>6 DEF StartOrContinue, clientVars
  <2>3. /\ pc = "batch" /\ c \in batch /\ batch' = batch \ {c}
        /\ sock' = [sock EXCEPT ![c] = <<>>]
    BY <2>1 DEF Received
  <2>4. /\ Len(kids') = Len(kids) + 1 /\ Pids' = 1 .. Len(kids) + 1 /\ KidsGoOn
        /\ kids'[Len(kids) + 1].conn = c
        /\ \A k \in Pids : kids'[k] = kids[k]
    BY <2>1, ForkedKids
  <2>5. c <= accepted /\ accepted \in Conns
    <3>1. c \in fds
      BY <1>0, <2>3 DEF MainInv
    <3>2. c <= accepted
      BY <1>f, <3>1
    <3> QED BY <1>0, <3>2, ConstantsAssumption DEF ServerTypeOK, Conns
  <2>6. KidPart'
    <3>1. Len(kids) \in Nat /\ Pids = 1 .. Len(kids)
      BY KidsTypes
    <3>2. KidInv'
      <4> SUFFICES ASSUME NEW k \in Pids' PROVE kids'[k].conn <= accepted
        BY <2>2 DEF KidInv
      <4>1. k \in Pids \/ k = Len(kids) + 1
        BY <2>4, <3>1
      <4> QED BY <1>0, <2>4, <2>5, <4>1 DEF KidPart, KidInv
    <3>3. PidsOfEarlier'
      <4> SUFFICES ASSUME NEW d \in Conns, pidOf'[d] # Unset PROVE kids'[pidOf'[d]].conn <= d
        BY DEF PidsOfEarlier
      <4>1. CASE d = accepted
        <5>1. pidOf'[d] = Len(kids) + 1
          BY <1>0, <2>2, <4>1 DEF KidTypeOK
        <5> QED BY <2>4, <2>5, <4>1, <5>1
      <4>2. CASE d # accepted
        <5>1. pidOf'[d] = pidOf[d] /\ pidOf[d] \in Pids
          BY <1>0, <2>2, <4>2, <3>1 DEF KidTypeOK, Unset
        <5> QED BY <1>0, <2>4, <5>1 DEF KidPart, PidsOfEarlier
      <4> QED BY <4>1, <4>2
    <3>4. SoleDownloaderStopsNewest'
      BY <1>0, <2>2, <2>4, <2>5 DEF SoleDownloaderStopsNewest, KidTypeOK
    <3> QED BY <3>2, <3>3, <3>4 DEF KidPart
  <2>7. MainInv'
    BY <1>0, <2>2, <2>3, MainInvAfter
  <2> QED BY <1>0, <1>q, <2>2, <2>3, <2>4, <2>6, <2>7, ClientInvStays, WatchInvStays, GivesUpStays
<1>7. ASSUME NEW c \in Conns, Stop(c) \/ StopUnset(c) PROVE IInv'
  <2>1. /\ Received(c, "stop") /\ pc' \in {pc, "dead"}
        /\ UNCHANGED <<cur, accepted, fds, watched, pidOf, failedDel, connected, cli, eof>>
    BY <1>7 DEF Stop, StopUnset, clientVars
  <2>2. \E K : kids' = StoppedKids(K)
    BY <1>7 DEF Stop, StopUnset
  <2>3. kids' \in Seq(Kid) /\ SameKids /\ KidsGoOn
    BY <2>2, StoppedKidsType
  <2>4. /\ pc = "batch" /\ c \in batch /\ batch' = batch \ {c}
        /\ sock' = [sock EXCEPT ![c] = <<>>]
    BY <2>1 DEF Received
  <2>5. MainInv'
    BY <1>0, <2>1, <2>4, MainInvAfter
  <2>6. KidPart'
    BY <1>0, <2>1, <2>3, KidPartStays
  <2> QED BY <1>0, <1>q, <2>1, <2>3, <2>4, <2>5, <2>6, ClientInvStays, WatchInvStays, GivesUpStays
<1>8. ASSUME NEW c \in Conns, Delete(c) PROVE IInv'
  <2>1. /\ Received(c, "delete")
        /\ UNCHANGED <<pc, cur, accepted, fds, watched, pidOf, kids, failedDel, connected, cli, eof>>
    BY <1>8 DEF Delete, clientVars, kidVars
  <2>2. /\ pc = "batch" /\ c \in batch /\ batch' = batch \ {c}
        /\ sock' = [sock EXCEPT ![c] = <<>>]
    BY <2>1 DEF Received
  <2>3. MainInv'
    BY <1>0, <2>1, <2>2, MainInvAfter
  <2> QED BY <1>0, <1>q, <2>1, <2>2, <2>3, SameKidsGoOn, SameKidPart, ClientInvStays,
             WatchInvStays, GivesUpStays
<1>9. ASSUME NEW c \in Conns, Close(c) PROVE IInv'
  <2>1. /\ pc = "batch" /\ c \in batch /\ AtEnd(c)
        /\ batch' = batch \ {c} /\ sock' = [sock EXCEPT ![c] = <<>>]
        /\ watched' = watched \ {c} /\ fds' = fds \ {c}
        /\ UNCHANGED <<pc, cur, accepted, pidOf, kids, failedDel, connected, cli, eof>>
    BY <1>9 DEF Close, clientVars, kidVars
  <2>2. MainInv'
    BY <1>0, <2>1, MainInvAfter
  <2>3. cli[c] = "left"
    BY <1>0, <2>1 DEF ClientInv, AtEnd
  <2>4. WatchInv'
    <3>1. \A d : StartFinished(d)' <=> StartFinished(d)
      BY <2>1 DEF StartFinished, Pids
    <3> QED BY <1>0, <2>1, <2>3, <3>1 DEF WatchInv
  <2> QED BY <1>0, <1>q, <2>1, <2>2, <2>4, SameKidsGoOn, SameKidPart, ClientInvStays, GivesUpStays
<1>10. ASSUME NEW c \in Conns, CloseFails(c) PROVE IInv'
  <2>1. /\ pc = "batch" /\ c \in batch /\ c \notin watched /\ pc' = "dead" /\ failedDel' = c
        /\ sock' = [sock EXCEPT ![c] = <<>>]
        /\ UNCHANGED <<batch, cur, accepted, fds, watched, pidOf, kids, connected, cli, eof>>
    BY <1>10 DEF CloseFails, clientVars, kidVars
  <2>2. MainInv'
    BY <1>0, <2>1 DEF MainInv
  <2>3. StartFinished(c)
    BY <1>0, <2>1 DEF MainInv, WatchInv, Conns, Listen
  <2>4. GivesUpOnlyAfterStart'
    BY <2>1, <2>3 DEF GivesUpOnlyAfterStart, StartFinished, Pids
  <2> QED BY <1>0, <1>q, <2>1, <2>2, <2>4, SameKidsGoOn, SameKidPart, ClientInvStays, WatchInvStays
<1>11. ASSUME NEW c \in Conns, ReceiveReset(c) PROVE IInv'
  <2>1. /\ pc' = "dead"
        /\ UNCHANGED <<batch, cur, accepted, fds, watched, pidOf, kids, failedDel,
                       connected, cli, sock, eof>>
    BY <1>11 DEF ReceiveReset, kidVars, clientVars
  <2>2. MainInv'
    BY <1>0, <2>1 DEF MainInv
  <2> QED BY <1>0, <1>q, <2>1, <2>2, SameKidsGoOn, SameKidPart, ClientInvStays, WatchInvStays,
             GivesUpStays
<1> QED BY <1>1, <1>2, <1>3, <1>4, <1>5, <1>6, <1>7, <1>8, <1>9, <1>10, <1>11
        DEF MainStep, HandleEvent

LEMMA KidStepIInv ==
    ASSUME TypeOK, IInv, NEW k \in Pids, KidFinishes(k) \/ KidDies(k) \/ KidSends(k)
    PROVE  IInv'
<1>0. /\ ServerTypeOK /\ EpollTypeOK /\ KidTypeOK /\ BrowserTypeOK
      /\ MainInv /\ ClientInv /\ WatchInv /\ KidPart /\ GivesUpOnlyAfterStart
  BY Parts DEF KidPart
<1>q. ASSUME MainInv', ClientInv', WatchInv', KidPart', GivesUpOnlyAfterStart' PROVE IInv'
  BY <1>q DEF IInv, KidPart
<1>s. UNCHANGED <<pc, batch, cur, accepted, fds, pidOf, failedDel, connected, cli, sent, sock>>
  BY DEF KidFinishes, KidDies, KidSends, KidFrame, mainVars, clientVars
<1>1. CASE KidFinishes(k)
  <2>1. /\ Ends(k, "finished") /\ eof' = eof
        /\ watched' = watched \ (IF kids[k].op = "start" THEN {kids[k].conn} ELSE {})
    BY <1>1 DEF KidFinishes
  <2>2. kids' \in Seq(Kid) /\ SameKids /\ KidsGoOn /\ kids'[k].st = "finished"
    BY <2>1, EndedKids
  <2>3. WatchInv'
    <3>1. ASSUME NEW c \in fds PROVE c \in watched' \/ c = cur \/ StartFinished(c)'
      <4>1. CASE kids[k].op = "start" /\ kids[k].conn = c
        BY <2>2, <4>1 DEF StartFinished, KidsGoOn, SameKids
      <4>2. CASE ~(kids[k].op = "start" /\ kids[k].conn = c)
        <5>1. c \in watched => c \in watched'
          BY <2>1, <4>2
        <5> QED BY <1>0, <2>2, <5>1, FinishedStays DEF WatchInv
      <4> QED BY <4>1, <4>2
    <3> QED BY <1>0, <1>s, <3>1 DEF WatchInv
  <2>4. MainInv' /\ ClientInv'
    BY <1>0, <1>s, <2>1 DEF MainInv, ClientInv, Readable
  <2> QED BY <1>0, <1>q, <1>s, <2>2, <2>3, <2>4, KidPartStays, GivesUpStays
<1>2. CASE KidDies(k)
  <2>1. Ends(k, "dead") /\ eof' = eof /\ watched' = watched
    BY <1>2 DEF KidDies
  <2>2. kids' \in Seq(Kid) /\ SameKids /\ KidsGoOn
    BY <2>1, EndedKids
  <2>3. MainInv' /\ ClientInv'
    BY <1>0, <1>s, <2>1 DEF MainInv, ClientInv, Readable
  <2> QED BY <1>0, <1>q, <1>s, <2>1, <2>2, <2>3, KidPartStays, WatchInvStays, GivesUpStays
<1>3. CASE KidSends(k)
  <2>1. /\ kids' = kids /\ watched' = watched
        /\ eof[kids[k].conn] # "no" /\ eof' = [eof EXCEPT ![kids[k].conn] = "fin"]
    BY <1>3 DEF KidSends, kidVars
  <2>2. \A c \in Conns : eof'[c] # "no" <=> eof[c] # "no"
    BY <1>0, <2>1 DEF BrowserTypeOK
  <2>3. MainInv'
    BY <1>0, <1>s, <2>2 DEF MainInv, Readable
  <2>4. ClientInv'
    BY <1>0, <1>s, <2>2 DEF ClientInv
  <2> QED BY <1>0, <1>q, <1>s, <2>1, <2>3, <2>4, SameKidsGoOn, SameKidPart, WatchInvStays,
             GivesUpStays
<1> QED BY <1>1, <1>2, <1>3

(* Whatever is sent after a handshake or an operation, it is not a close     *)
(* frame alone that waits then.                                              *)
LEMMA AppendedFrame ==
    ASSUME NEW s \in Seq(Frames), NEW f \in Frames
    PROVE  Append(s, f) # <<>> /\ (f # "close" => Append(s, f) # <<"close">>)
<1> DEFINE t == Append(s, f)
           n == Len(s)
<1>2. n \in Nat /\ Len(t) = n + 1
  OBVIOUS
<1>3. t[n + 1] = f
  OBVIOUS
<1> HIDE DEF t, n
<1>4. t # <<>>
  BY <1>2, Len(<<>>) = 0
<1>5. ASSUME t = <<"close">> PROVE f = "close"
  <2>1. Len(<<"close">>) = 1 /\ <<"close">>[1] = "close"
    OBVIOUS
  <2>2. Len(t) = 1
    BY ONLY <1>5, <2>1, Zenon
  <2>3. t[1] = "close"
    BY ONLY <1>5, <2>1, Zenon
  <2>4. n + 1 = 1
    BY <1>2, <2>2
  <2> QED BY <1>3, <2>3, <2>4
<1> QED BY <1>4, <1>5 DEF t

LEMMA BrowserStepIInv ==
    ASSUME TypeOK, IInv,
           Connect \/ \E c \in Conns : SendHandshake(c) \/ SendOperation(c) \/ SendClose(c) \/ Leave(c)
    PROVE  IInv'
<1>0. /\ ServerTypeOK /\ EpollTypeOK /\ KidTypeOK /\ BrowserTypeOK
      /\ MainInv /\ ClientInv /\ WatchInv /\ KidPart /\ GivesUpOnlyAfterStart
  BY Parts DEF KidPart
<1>q. ASSUME MainInv', ClientInv', WatchInv', KidPart', GivesUpOnlyAfterStart' PROVE IInv'
  BY <1>q DEF IInv, KidPart
<1>s. UNCHANGED <<pc, batch, cur, accepted, fds, pidOf, failedDel, watched, kids, zombies>>
  BY DEF Connect, SendHandshake, SendOperation, SendClose, Leave, ClientFrame, mainVars, kidVars
<1>k. KidPart' /\ GivesUpOnlyAfterStart' /\ \A c : StartFinished(c)' <=> StartFinished(c)
  BY <1>0, <1>s, SameKidsGoOn, SameKidPart, GivesUpStays DEF StartFinished, Pids
<1>1. CASE Connect
  <2>1. /\ connected' = connected + 1 /\ connected \in Nat /\ accepted \in 0 .. connected
        /\ cli' = [cli EXCEPT ![connected + 1] = "new"]
        /\ UNCHANGED <<sock, eof>>
    BY <1>0, <1>1, ConstantsAssumption DEF Connect, ServerTypeOK
  <2>2. \A d \in Conns : d # connected + 1 => cli'[d] = cli[d]
    BY <1>0, <2>1 DEF BrowserTypeOK
  <2>3. MainInv'
    <3>1. accepted < connected => accepted < connected + 1
      BY <2>1
    <3> QED BY <1>0, <1>s, <2>1, <3>1 DEF MainInv, Readable
  <2>4. ClientInv'
    <3>1. ASSUME NEW d \in Conns, d > connected + 1
          PROVE  cli'[d] = "out" /\ sock'[d] = <<>> /\ eof'[d] = "no"
      <4>1. d > connected /\ d # connected + 1
        BY <2>1, <3>1 DEF Conns
      <4> QED BY <1>0, <2>1, <2>2, <4>1 DEF ClientInv
    <3>2. ASSUME NEW d \in Conns, eof[d] # "no" \/ sock[d] = <<"close">>
          PROVE  cli'[d] = "left"
      <4>1. d # connected + 1
        <5>1. CASE d = connected + 1
          <6>1. sock[d] = <<>> /\ eof[d] = "no"
            BY <1>0, <2>1, <5>1 DEF ClientInv, Conns
          <6>2. <<>> # <<"close">>
            BY Len(<<>>) = 0, Len(<<"close">>) = 1
          <6> QED BY <3>2, <6>1, <6>2
        <5> QED BY <5>1
      <4> QED BY <1>0, <2>2, <3>2, <4>1 DEF ClientInv
    <3> QED BY <2>1, <3>1, <3>2 DEF ClientInv
  <2>5. WatchInv'
    <3>1. ASSUME NEW d \in 1 .. accepted PROVE cli'[d] = cli[d]
      <4>1. d # connected + 1 /\ d \in Conns
        BY <1>0, <2>1, ConstantsAssumption DEF ServerTypeOK, Conns
      <4> QED BY <2>2, <4>1
    <3> QED BY <1>0, <1>s, <1>k, <3>1 DEF WatchInv
  <2> QED BY <1>q, <1>k, <2>3, <2>4, <2>5
<1>2. ASSUME NEW c \in Conns, SendHandshake(c) \/ SendOperation(c) \/ SendClose(c) \/ Leave(c)
      PROVE  IInv'
  <2>1. c <= connected /\ connected' = connected
    BY <1>2 DEF SendHandshake, SendOperation, SendClose, Leave, Reached
  <2>2. \A d \in Conns \ {c} : cli'[d] = cli[d] /\ sock'[d] = sock[d] /\ eof'[d] = eof[d]
    <3>1. DOMAIN cli = Conns /\ DOMAIN sock = Conns /\ DOMAIN eof = Conns
      BY <1>0 DEF BrowserTypeOK
    <3> HIDE <1>0
    <3>2. CASE SendHandshake(c) \/ SendClose(c)
      BY <3>1, <3>2 DEF SendHandshake, SendClose
    <3>3. CASE SendOperation(c)
      BY <3>1, <3>3 DEF SendOperation
    <3>4. CASE Leave(c)
      BY <3>1, <3>4 DEF Leave
    <3> QED BY <1>2, <3>2, <3>3, <3>4
  <2>3. ASSUME NEW f \in Frames, sock' = [sock EXCEPT ![c] = Append(@, f)]
        PROVE  sock'[c] # <<>> /\ (f # "close" => sock'[c] # <<"close">>)
    <3>1. sock[c] \in Seq(Frames) /\ sock'[c] = Append(sock[c], f)
      BY <1>0, <2>3 DEF BrowserTypeOK
    <3> QED BY <3>1, AppendedFrame
  <2>4. /\ Readable(c) => Readable(c)'
        /\ (eof'[c] # "no" \/ sock'[c] = <<"close">>) => cli'[c] = "left"
        /\ cli'[c] # "left" => cli[c] # "left"
    <3>1. CASE SendHandshake(c)
      <4>0. "handshake" \in Frames /\ "handshake" # "close"
        BY DEF Frames
      <4>1. sock'[c] # <<>> /\ sock'[c] # <<"close">>
        BY <2>3, <3>1, <4>0 DEF SendHandshake
      <4> QED BY <1>0, <3>1, <4>1 DEF SendHandshake, Readable, BrowserTypeOK
    <3>2. CASE SendOperation(c)
      <4>1. PICK o \in Ops : sock' = [sock EXCEPT ![c] = Append(@, o)]
        BY <3>2 DEF SendOperation
      <4>2. o \in Frames /\ o # "close"
        BY DEF Ops, Frames
      <4>3. sock'[c] # <<>> /\ sock'[c] # <<"close">>
        BY <2>3, <4>1, <4>2
      <4>4. cli' = cli /\ eof' = eof
        BY <3>2 DEF SendOperation
      <4> QED BY <1>0, <4>3, <4>4 DEF Readable, ClientInv
    <3>3. CASE SendClose(c)
      <4>1. sock'[c] # <<>>
        BY <2>3, <3>3 DEF SendClose, Frames
      <4> QED BY <1>0, <3>3, <4>1 DEF SendClose, Readable, BrowserTypeOK
    <3>4. CASE Leave(c)
      BY <1>0, <3>4 DEF Leave, Readable, BrowserTypeOK
    <3> QED BY <1>2, <3>1, <3>2, <3>3, <3>4
  <2>5. MainInv'
    BY <1>0, <1>s, <2>1, <2>2, <2>4 DEF MainInv, Readable
  <2>6. ClientInv'
    <3>1. ~(c > connected)
      BY <1>0, <2>1 DEF ServerTypeOK, Conns
    <3> QED BY <1>0, <2>1, <2>2, <2>4, <3>1 DEF ClientInv
  <2>7. WatchInv'
    <3>1. ASSUME NEW d \in 1 .. accepted, cli'[d] # "left" PROVE cli[d] # "left"
      <4>1. d \in Conns
        BY <1>0, ConstantsAssumption DEF ServerTypeOK, Conns
      <4> QED BY <2>2, <2>4, <3>1, <4>1
    <3> QED BY <1>0, <1>s, <1>k, <3>1 DEF WatchInv
  <2> QED BY <1>q, <1>k, <2>5, <2>6, <2>7
<1> QED BY <1>1, <1>2

LEMMA InitIInv == Init => IInv
<1> SUFFICES ASSUME Init PROVE IInv
  OBVIOUS
<1>1. Pids = {}
  BY DEF Init, Pids
<1>2. <<>> # <<"close">>
  BY Len(<<>>) = 0, Len(<<"close">>) = 1
<1>3. MainInv /\ ClientInv
  BY <1>2 DEF Init, MainInv, ClientInv
<1>4. WatchInv /\ GivesUpOnlyAfterStart
  BY DEF Init, WatchInv, GivesUpOnlyAfterStart
<1>5. KidInv /\ PidsOfEarlier /\ SoleDownloaderStopsNewest
  BY <1>1 DEF Init, KidInv, PidsOfEarlier, SoleDownloaderStopsNewest
<1> QED BY <1>3, <1>4, <1>5 DEF IInv

LEMMA IInvInductive == TypeOK /\ IInv /\ [Next]_vars => IInv'
<1> SUFFICES ASSUME TypeOK, IInv, [Next]_vars PROVE IInv'
  OBVIOUS
<1>1. CASE UNCHANGED vars
  BY <1>1 DEF vars, IInv, MainInv, ClientInv, WatchInv, KidInv, PidsOfEarlier,
              SoleDownloaderStopsNewest, GivesUpOnlyAfterStart, StartFinished, Readable, Pids
<1> QED BY <1>1, MainStepIInv, KidStepIInv, BrowserStepIInv DEF Next

-------------------------------------------------------------------------------
(* No message is overlooked *)

(* Events of a batch are taken one by one, with all there is to receive.     *)
LEMMA EventTaken ==
    ASSUME EventInv, NEW c \in Conns, pc = "batch", pc' \in {pc, "dead"},
           DOMAIN sock = Conns, watched \subseteq Conns, batch' = batch \ {c},
           sock' = [sock EXCEPT ![c] = <<>>],
           \/ watched' = watched /\ ready' = ready
           \/ watched' = watched \ {c} /\ ready' = ready \ {c}
    PROVE  EventInv'
<1>1. ASSUME NEW d \in watched', pc' # "dead", sock'[d] # <<>>
      PROVE  d \in ready' \cup batch'
  <2>1. d # c /\ sock[d] # <<>> /\ d \in watched
    BY <1>1
  <2>2. d \in ready \cup batch
    BY <1>1, <2>1 DEF EventInv, NoneOverlooked
  <2> QED BY <2>1, <2>2
<1> QED BY <1>1 DEF EventInv, NoneOverlooked

(* epoll_wait hands the ready list over to the batch, and nothing else main  *)
(* does takes an event away with messages left.                              *)
LEMMA MainStepEvents ==
    ASSUME TypeOK, MainInv, EventInv, MainStep
    PROVE  EventInv'
<1>0. /\ ServerTypeOK /\ EpollTypeOK /\ BrowserTypeOK /\ MainInv
      /\ NoneOverlooked /\ (pc = "wait" => batch = {})
  BY DEF TypeOK, EventInv
<1>w. watched \subseteq Conns /\ Listen \notin Conns
  BY <1>0, ConstantsAssumption DEF ServerTypeOK, EpollTypeOK, Conns, Listen
<1>s. DOMAIN sock = Conns
  BY <1>0 DEF BrowserTypeOK
<1>1. CASE Reap
  BY <1>0, <1>1 DEF Reap, EventInv, NoneOverlooked
<1>2. CASE Wait
  <2>1. /\ pc = "wait" /\ pc' = "batch" /\ watched' = watched /\ sock' = sock
        /\ {c \in ready : Readable(c)} \subseteq batch'
    BY <1>2 DEF Wait
  <2>2. ASSUME NEW c \in watched, sock[c] # <<>> PROVE c \in batch'
    BY <1>0, <2>1, <2>2 DEF NoneOverlooked, Readable
  <2> QED BY <2>1, <2>2 DEF EventInv, NoneOverlooked
<1>3. CASE Accept
  <2>1. /\ pc = "batch" /\ pc' = "shake" /\ batch' = batch \ {Listen}
        /\ UNCHANGED <<watched, ready, sock>>
    BY <1>3 DEF Accept
  <2> QED BY <1>0, <1>w, <2>1 DEF EventInv, NoneOverlooked
<1>4. CASE ShakeHands
  <2>1. /\ pc = "shake" /\ pc' = "batch" /\ batch' = batch /\ watched' = watched \cup {cur}
        /\ cur \in Conns
        /\ sock' = [sock EXCEPT ![cur] = <<>>] /\ ready \subseteq ready'
    <3>1. pc = "shake" => cur \in Conns
      BY <1>0 DEF MainInv, EpollTypeOK, ServerTypeOK, Conns
    <3> QED BY <1>4, <3>1 DEF ShakeHands
  <2>2. ASSUME NEW c \in watched', sock'[c] # <<>> PROVE c \in ready' \cup batch'
    <3>1. CASE c = cur
      BY <1>s, <2>1, <2>2, <3>1
    <3>2. CASE c # cur
      BY <1>0, <1>s, <2>1, <2>2, <3>2 DEF NoneOverlooked
    <3> QED BY <3>1, <3>2
  <2> QED BY <2>1, <2>2 DEF EventInv, NoneOverlooked
<1>5. CASE ShakeReset
  BY <1>5 DEF ShakeReset, EventInv, NoneOverlooked
<1>6. ASSUME NEW c \in Conns, StartOrContinue(c) \/ Stop(c) \/ StopUnset(c) \/ Delete(c)
      PROVE  EventInv'
  <2>1. /\ \E o : Received(c, o)
        /\ pc' \in {pc, "dead"} /\ UNCHANGED <<watched, ready>>
    BY <1>6 DEF StartOrContinue, Stop, StopUnset, Delete
  <2>2. /\ pc = "batch" /\ batch' = batch \ {c}
        /\ sock' = [sock EXCEPT ![c] = <<>>]
    BY <2>1 DEF Received
  <2> QED BY <1>0, <1>s, <1>w, <2>1, <2>2, EventTaken
<1>7. ASSUME NEW c \in Conns, Close(c) PROVE EventInv'
  <2>1. /\ pc = "batch" /\ pc' = pc /\ batch' = batch \ {c}
        /\ sock' = [sock EXCEPT ![c] = <<>>]
        /\ watched' = watched \ {c} /\ ready' = ready \ {c}
    BY <1>7 DEF Close
  <2> QED BY <1>0, <1>s, <1>w, <2>1, EventTaken
<1>8. ASSUME NEW c \in Conns, CloseFails(c) \/ ReceiveReset(c) PROVE EventInv'
  BY <1>8 DEF CloseFails, ReceiveReset, EventInv, NoneOverlooked
<1> QED BY <1>1, <1>2, <1>3, <1>4, <1>5, <1>6, <1>7, <1>8 DEF MainStep, HandleEvent

(* A download process can only take its connection out, or cause an event.   *)
LEMMA KidStepEvents ==
    ASSUME EventInv, NEW k \in Pids, KidFinishes(k) \/ KidDies(k) \/ KidSends(k)
    PROVE  EventInv'
<1>1. UNCHANGED <<pc, batch, sock>>
  BY DEF KidFinishes, KidDies, KidSends, KidFrame, mainVars
<1>2. \/ \E out : watched' = watched \ out /\ ready' = ready \ out
      \/ watched' = watched /\ ready \subseteq ready'
  <2>1. CASE KidFinishes(k)
    BY <2>1 DEF KidFinishes
  <2>2. CASE KidDies(k)
    BY <2>2 DEF KidDies
  <2>3. CASE KidSends(k)
    BY <2>3 DEF KidSends
  <2> QED BY <2>1, <2>2, <2>3
<1> QED BY <1>1, <1>2 DEF EventInv, NoneOverlooked

(* Whatever arrives on a watched connection is an event.                     *)
LEMMA BrowserStepEvents ==
    ASSUME TypeOK, EventInv,
           Connect \/ \E c \in Conns : SendHandshake(c) \/ SendOperation(c) \/ SendClose(c) \/ Leave(c)
    PROVE  EventInv'
<1>1. UNCHANGED <<pc, batch, watched>>
  BY DEF Connect, SendHandshake, SendOperation, SendClose, Leave, ClientFrame, mainVars
<1>2. DOMAIN sock = Conns
  BY DEF TypeOK, BrowserTypeOK
<1>3. CASE Connect
  BY <1>1, <1>3 DEF Connect, EventInv, NoneOverlooked
<1>4. ASSUME NEW c \in Conns, SendHandshake(c) \/ SendOperation(c) \/ SendClose(c) \/ Leave(c)
      PROVE  EventInv'
  <2>1. ready' = ready \cup ({c} \cap watched)
    BY <1>4 DEF SendHandshake, SendOperation, SendClose, Leave, Event
  <2>2. \A d \in Conns \ {c} : sock'[d] = sock[d]
    <3>1. CASE SendHandshake(c) \/ SendClose(c)
      BY <1>2, <3>1 DEF SendHandshake, SendClose
    <3>2. CASE SendOperation(c)
      BY <1>2, <3>2 DEF SendOperation
    <3>3. CASE Leave(c)
      BY <3>3 DEF Leave
    <3> QED BY <1>4, <3>1, <3>2, <3>3
  <2>3. watched \subseteq Conns
    BY ConstantsAssumption DEF TypeOK, ServerTypeOK, EpollTypeOK, Conns
  <2> QED BY <1>1, <2>1, <2>2, <2>3 DEF EventInv, NoneOverlooked
<1> QED BY <1>3, <1>4

LEMMA EventsInductive == TypeOK /\ MainInv /\ EventInv /\ [Next]_vars => EventInv'
<1> SUFFICES ASSUME TypeOK, MainInv, EventInv, [Next]_vars PROVE EventInv'
  OBVIOUS
<1>1. CASE UNCHANGED vars
  BY <1>1 DEF vars, EventInv, NoneOverlooked
<1> QED BY <1>1, MainStepEvents, KidStepEvents, BrowserStepEvents DEF Next

-------------------------------------------------------------------------------
(* Theorems *)

(* In every reachable state, whatever the number of browsers and messages,   *)
(* the variables have their types and IInv relates them.                     *)
THEOREM IInvCorrect == Spec => [](TypeOK /\ IInv)
<1>1. Init => TypeOK /\ IInv
  BY InitType, InitIInv
<1>2. TypeOK /\ IInv /\ [Next]_vars => (TypeOK /\ IInv)'
  BY TypeInductive, IInvInductive
<1> QED BY <1>1, <1>2, PTL DEF Spec

(* The variables of the event loop, the epoll set, the processes and the     *)
(* browsers have their types.                                                *)
THEOREM TypeCorrect == Spec => []TypeOK
BY IInvCorrect, PTL

(* No recv of an event blocks the server, and nothing a watched browser sent *)
(* is overlooked (main.c:144).                                               *)
THEOREM EventsCorrect == Spec => []EventsAreArrivals
<1>1. Init => EventInv
  BY DEF Init, EventInv, NoneOverlooked
<1>2. TypeOK /\ IInv /\ EventInv /\ [Next]_vars => EventInv'
  BY EventsInductive DEF IInv
<1>3. TypeOK /\ IInv /\ EventInv => EventsAreArrivals
  BY DEF IInv, MainInv, EventInv, EventsReadable, EventsAreArrivals
<1> QED BY <1>1, <1>2, <1>3, IInvCorrect, PTL DEF Spec

(* A noted process number is that of a download of the connection or of one  *)
(* accepted before it (main.c:200, 218).                                     *)
THEOREM PidsOfEarlierCorrect == Spec => []PidsOfEarlier
<1>1. TypeOK /\ IInv => PidsOfEarlier
  BY DEF IInv
<1> QED BY <1>1, IInvCorrect, PTL

(* A lone downloader connected last stops its newest download (main.c:233).  *)
THEOREM SoleDownloaderCorrect == Spec => []SoleDownloaderStopsNewest
<1>1. TypeOK /\ IInv => SoleDownloaderStopsNewest
  BY DEF IInv
<1> QED BY <1>1, IInvCorrect, PTL

(* Only its own finished "start", or its leaving, ends that the server       *)
(* listens to a browser (main.c:185, 249).                                   *)
THEOREM StaysWatchedCorrect == Spec => []StaysWatched
<1>1. TypeOK /\ IInv => StaysWatched
  <2> SUFFICES ASSUME TypeOK, IInv, NEW c \in 1 .. accepted,
                      pc # "dead", cur # c, cli[c] # "left", ~StartFinished(c)
               PROVE  c \in watched
    BY DEF StaysWatched
  <2> QED BY DEF IInv, WatchInv
<1> QED BY <1>1, IInvCorrect, PTL

(* The server exits over EPOLL_CTL_DEL only after a "start" of the browser   *)
(* ran to its end (main.c:250).                                              *)
THEOREM GivesUpCorrect == Spec => []GivesUpOnlyAfterStart
<1>1. TypeOK /\ IInv => GivesUpOnlyAfterStart
  BY DEF IInv
<1> QED BY <1>1, IInvCorrect, PTL
================================================================================
