-------------------------- MODULE P2PDownload_proofs --------------------------
(***************************************************************************)
(* Proofs about P2PDownload for every file size, number of threads and     *)
(* servers, block size, number of processes and of server failures.  A     *)
(* download that loses nothing to a race or to a dying server merges the   *)
(* whole file and implements ResumableTransfer, none of its threads waits  *)
(* in vain, a continue gives up no byte, and the counter never overstates. *)
(***************************************************************************)
EXTENDS P2PImplementsTransfer, PartLemmas, FiniteSetTheorems

-------------------------------------------------------------------------------
(* Types *)

(* Parts, their sizes and their starts. *)
LEMMA PartTypes ==
    /\ T \subseteq Nat /\ Unlocked \notin T
    /\ \A t \in T : t < Threads
    /\ \A i \in 0 .. Threads : i < Threads => i \in T
    /\ \A t \in T : Size(t) \in Nat /\ Start(t) \in Nat /\ Start(t) + Size(t) <= FileSize
<1>1. T \subseteq Nat /\ Unlocked \notin T /\ \A t \in T : t < Threads
  BY ConstantsAssumption DEF T, Parts, Unlocked
<1>2. \A i \in 0 .. Threads : i < Threads => i \in T
  BY ConstantsAssumption DEF T, Parts
<1>3. ASSUME NEW t \in T
      PROVE  Size(t) \in Nat /\ Start(t) \in Nat /\ Start(t) + Size(t) <= FileSize
  BY ConstantsAssumption, PartInFile DEF T, Size, Start
<1> QED BY <1>1, <1>2, <1>3

(* A server sends a number of bytes, at most as many as it was asked for.    *)
LEMMA GrantedType ==
    ASSUME NEW size \in Int, NEW start \in Nat
    PROVE  /\ Granted(size, start) \in Nat
           /\ size >= 0 => Granted(size, start) <= size
BY ConstantsAssumption DEF Granted, Lesser

(* The death of the process keeps the types.                                 *)
LEMMA DieType == TypeOK /\ Die => TypeOK'
<1> SUFFICES ASSUME TypeOK, Die PROVE TypeOK'
  OBVIOUS
<1>1. MainTypeOK'
  BY ConstantsAssumption DEF TypeOK, MainTypeOK, Die, MainPcs
<1>2. SharedTypeOK'
  BY DEF SharedTypeOK, Die, Request
<1>3. DataTypeOK'
  <2>1. \A t \in T : Unflushed(part[t]) \in PartFile
    BY DEF TypeOK, DataTypeOK, Unflushed, Lesser, PartFile
  <2>2. NoThread \in Thread
    BY DEF NoThread, Thread, Workers
  <2>3. NoConn \in Connection
    BY DEF NoConn, Connection
  <2> QED BY <2>1, <2>2, <2>3 DEF DataTypeOK, Die
<1>4. WorldTypeOK'
  BY DEF TypeOK, WorldTypeOK, Die
<1>5. BooleanTypeOK'
  BY DEF TypeOK, BooleanTypeOK, Die
<1> QED BY <1>1, <1>2, <1>3, <1>4, <1>5 DEF TypeOK

(* What no thread touches keeps its type under every step of a thread.       *)
LEMMA ThreadFrameType ==
    ASSUME TypeOK, ThreadFrame, tainted' \in BOOLEAN
    PROVE  MainTypeOK' /\ WorldTypeOK' /\ BooleanTypeOK'
<1>1. MainTypeOK' /\ WorldTypeOK'
  BY DEF TypeOK, ThreadFrame, mainVars, MainTypeOK, WorldTypeOK
<1>2. BooleanTypeOK'
  BY DEF TypeOK, ThreadFrame, mainVars, BooleanTypeOK
<1> QED BY <1>1, <1>2

LEMMA GotoType ==
    ASSUME TypeOK, NEW t \in T, NEW pc \in Workers, Goto(t, pc)
    PROVE  w' \in [T -> Thread]
BY DEF TypeOK, DataTypeOK, Goto, Thread

LEMMA ThreadStepType ==
    ASSUME TypeOK, NEW t \in T, ThreadStep(t)
    PROVE  TypeOK'
<1> DEFINE Quiet == UNCHANGED <<rate, lock, buf>>
<1>0. /\ w \in [T -> Thread] /\ conn \in [T -> Connection] /\ part \in [T -> PartFile]
      /\ rate \in Nat /\ lock \in T \cup {Unlocked} /\ buf \in Request
      /\ tainted \in BOOLEAN
  BY DEF TypeOK, DataTypeOK, SharedTypeOK, BooleanTypeOK
<1>a. ASSUME ThreadFrame, tainted' \in BOOLEAN, UNCHANGED <<rate, lock, buf>>, DataTypeOK'
      PROVE  TypeOK'
  BY <1>0, <1>a, ThreadFrameType DEF TypeOK, SharedTypeOK
<1>1. CASE Connect(t)
  <2>1. w' \in [T -> Thread]
    BY <1>1, GotoType DEF Connect, Workers
  <2>2. conn' \in [T -> Connection]
    BY <1>0, <1>1 DEF Connect, Connection
  <2> QED BY <1>0, <1>1, <1>a, <2>1, <2>2 DEF Connect, DataTypeOK
<1>2. CASE FormatSize(t)
  <2>1. w' \in [T -> Thread]
    BY <1>2, GotoType DEF FormatSize, Workers
  <2>2. buf' \in Request
    BY <1>0, <1>2 DEF FormatSize, Request, Thread
  <2>3. tainted' \in BOOLEAN
    BY <1>2 DEF FormatSize, BufferBusy
  <2> QED BY <1>0, <1>2, <2>1, <2>2, <2>3, ThreadFrameType
          DEF FormatSize, TypeOK, DataTypeOK, SharedTypeOK
<1>3. CASE FormatStart(t)
  <2>1. w' \in [T -> Thread]
    BY <1>3, GotoType DEF FormatStart, Workers
  <2>2. buf' \in Request
    BY <1>0, <1>3 DEF FormatStart, Request, Thread
  <2>3. tainted' \in BOOLEAN
    BY <1>3 DEF FormatStart, BufferBusy
  <2> QED BY <1>0, <1>3, <2>1, <2>2, <2>3, ThreadFrameType
          DEF FormatStart, TypeOK, DataTypeOK, SharedTypeOK
<1>4. CASE Send(t)
  <2>1. w' \in [T -> Thread]
    BY <1>4, GotoType DEF Send, Workers
  <2>2. Granted(buf.size, buf.start) \in Nat /\ buf.start \in Nat
    BY <1>0, GrantedType DEF Request
  <2>3. conn' \in [T -> Connection]
    <3> DEFINE hang == [conn[t] EXCEPT !.st = "hang"]
               sent == [conn[t] EXCEPT !.pos = buf.start, !.left = Granted(buf.size, buf.start)]
               new == IF conn[t].st # "open" THEN conn[t]
                      ELSE IF TextLen(w[t].size, w[t].start) < TextLen(buf.size, buf.start)
                      THEN hang ELSE sent
    <3>1. conn \in [T -> Connection] /\ conn[t] \in Connection
      BY <1>0
    <3>2. hang \in Connection /\ sent \in Connection
      <4> HIDE <1>0
      <4> QED BY <2>2, <3>1 DEF Connection
    <3>3. conn' = [conn EXCEPT ![t] = new]
      BY <1>4, <3>1 DEF Send
    <3> HIDE <1>0
    <3> HIDE DEF hang, sent
    <3>4. new \in Connection
      BY <3>1, <3>2
    <3> HIDE DEF new
    <3> QED BY <3>1, <3>3, <3>4
  <2> QED BY <1>0, <1>4, <1>a, <2>1, <2>3 DEF Send, DataTypeOK
<1>5. CASE SendOnRefused(t)
  BY <1>5, DieType DEF SendOnRefused
<1>6. CASE Response(t)
  <2>1. w' \in [T -> Thread]
    BY <1>6, GotoType DEF Response, Workers
  <2>2. Opened(part[t]) \in PartFile
    BY <1>0 DEF Opened, NoPart, PartFile
  <2>3. part' \in [T -> PartFile]
    BY <1>0, <1>6, <2>2 DEF Response
  <2> QED BY <1>0, <1>6, <1>a, <2>1, <2>3 DEF Response, DataTypeOK
<1>7. CASE NoResponse(t)
  <2>1. w' \in [T -> Thread]
    BY <1>7, GotoType DEF NoResponse, Workers
  <2>2. conn' \in [T -> Connection]
    BY <1>0, <1>7 DEF NoResponse, NoConn, Connection
  <2> QED BY <1>0, <1>7, <1>a, <2>1, <2>2 DEF NoResponse, DataTypeOK
<1>8. CASE Recv(t)
  <2>1. PICK n \in 1 .. Lesser(Block, conn[t].left) :
          /\ \E f \in 0 .. part[t].mem + n :
               part' = [part EXCEPT ![t] =
                          Appended(@, n, conn[t].pos = Start(t) + Held(@), f)]
          /\ conn' = [conn EXCEPT ![t].pos = @ + n, ![t].left = @ - n]
          /\ w' = [w EXCEPT ![t].pc = "lock", ![t].all = @ + n, ![t].got = n]
    BY <1>8 DEF Recv
  <2>2. PICK f \in 0 .. part[t].mem + n :
          part' = [part EXCEPT ![t] = Appended(@, n, conn[t].pos = Start(t) + Held(@), f)]
    BY <2>1
  <2>3. n \in Nat /\ n <= conn[t].left
    BY <1>0, ConstantsAssumption DEF Connection, Lesser
  <2>4. Appended(part[t], n, conn[t].pos = Start(t) + Held(part[t]), f) \in PartFile
    <3>1. part[t] \in PartFile
      BY <1>0
    <3>2. f \in Nat /\ f <= part[t].mem + n
      BY <1>0, <2>3 DEF PartFile
    <3> HIDE <1>0
    <3> QED BY <2>3, <3>1, <3>2 DEF Appended, PartFile
  <2>5. part' \in [T -> PartFile]
    BY <1>0, <2>2, <2>4
  <2>6. conn' \in [T -> Connection]
    <3> DEFINE pos == conn[t].pos + n
               left == conn[t].left - n
               new == [[conn[t] EXCEPT !.pos = pos] EXCEPT !.left = left]
    <3>1. conn[t] \in Connection /\ DOMAIN conn = T
      BY <1>0
    <3>2. pos \in Nat /\ left \in Nat
      BY <2>3, <3>1 DEF Connection
    <3>3. conn' = [conn EXCEPT ![t].pos = pos, ![t].left = left]
      BY <2>1
    <3> HIDE <1>0
    <3> HIDE DEF pos, left
    <3>4. conn' = [conn EXCEPT ![t] = new]
      BY <3>1, <3>3
    <3>5. new \in Connection
      BY <3>1, <3>2 DEF Connection
    <3> HIDE DEF new
    <3> QED BY <1>0, <3>4, <3>5
  <2>7. w' \in [T -> Thread]
    <3> DEFINE all == w[t].all + n
               new == [[[w[t] EXCEPT !.pc = "lock"] EXCEPT !.all = all] EXCEPT !.got = n]
    <3>1. w[t] \in Thread /\ DOMAIN w = T
      BY <1>0
    <3>2. all \in Nat
      BY <2>3, <3>1 DEF Thread
    <3>3. w' = [w EXCEPT ![t].pc = "lock", ![t].all = all, ![t].got = n]
      BY <2>1
    <3> HIDE <1>0
    <3> HIDE DEF all
    <3>4. w' = [w EXCEPT ![t] = new]
      BY <3>1, <3>3
    <3>5. new \in Thread
      BY <2>3, <3>1, <3>2 DEF Thread, Workers
    <3> HIDE DEF new
    <3> QED BY <1>0, <3>4, <3>5
  <2> QED BY <1>0, <1>8, <1>a, <2>5, <2>6, <2>7 DEF Recv, DataTypeOK
<1>9. CASE RecvEnd(t)
  <2>1. w' \in [T -> Thread]
    BY <1>9, GotoType DEF RecvEnd, Workers
  <2> QED BY <1>0, <1>9, <1>a, <2>1 DEF RecvEnd, DataTypeOK
<1>10. CASE RecvError(t)
  <2>1. PICK n \in 1 .. Block :
         /\ part' = [part EXCEPT ![t] = Appended(@, n, FALSE, 0)]
         /\ w' = [w EXCEPT ![t].pc = "lock", ![t].all = @ + n, ![t].got = n]
    BY <1>10 DEF RecvError
  <2>2. n \in Nat
    BY ConstantsAssumption
  <2>3. Appended(part[t], n, FALSE, 0) \in PartFile
    <3>1. part[t] \in PartFile
      BY <1>0
    <3> HIDE <1>0
    <3> QED BY <2>2, <3>1 DEF Appended, PartFile
  <2>4. part' \in [T -> PartFile]
    BY <1>0, <2>1, <2>3
  <2>5. conn' \in [T -> Connection]
    BY <1>0, <1>10 DEF RecvError, Connection
  <2>6. w' \in [T -> Thread]
    <3> DEFINE all == w[t].all + n
               new == [w[t] EXCEPT !.pc = "lock", !.all = all, !.got = n]
    <3>1. w \in [T -> Thread] /\ w[t] \in Thread
      BY <1>0
    <3>2. new \in Thread
      <4> HIDE <1>0
      <4>1. all \in Nat
        BY <2>2, <3>1 DEF Thread
      <4> HIDE DEF all
      <4> QED BY <2>2, <3>1, <4>1 DEF Thread, Workers
    <3>3. w' = [w EXCEPT ![t] = new]
      BY <2>1, <3>1
    <3> HIDE <1>0
    <3> HIDE DEF new
    <3> QED BY <3>1, <3>2, <3>3
  <2> QED BY <1>0, <1>10, <1>a, <2>4, <2>5, <2>6 DEF RecvError, DataTypeOK
<1>11. CASE RecvFault(t)
  BY <1>11, DieType DEF RecvFault
<1>12. CASE LockRate(t)
  <2>1. w' \in [T -> Thread]
    <3> DEFINE new == [w[t] EXCEPT !.pc = "store", !.ld = rate]
    <3>1. w \in [T -> Thread] /\ w[t] \in Thread /\ rate \in Nat
      BY <1>0
    <3>2. new \in Thread
      <4> HIDE <1>0
      <4> QED BY <3>1 DEF Thread, Workers
    <3>3. w' = [w EXCEPT ![t] = new]
      BY <1>12, <3>1 DEF LockRate
    <3> HIDE <1>0
    <3> HIDE DEF new
    <3> QED BY <3>1, <3>2, <3>3
  <2> QED BY <1>0, <1>12, <2>1, ThreadFrameType DEF LockRate, TypeOK, DataTypeOK, SharedTypeOK
<1>13. CASE StoreRate(t)
  <2>1. w' \in [T -> Thread]
    <3>1. w' = [w EXCEPT ![t].pc = "recv", ![t].got = 0, ![t].ld = 0]
      BY <1>13 DEF StoreRate
    <3>2. w \in [T -> Thread] /\ w[t] \in Thread
      BY <1>0
    <3>3. [w[t] EXCEPT !.pc = "recv", !.got = 0, !.ld = 0] \in Thread
      <4> HIDE <1>0
      <4> QED BY <3>2 DEF Thread, Workers
    <3>4. w' = [w EXCEPT ![t] = [w[t] EXCEPT !.pc = "recv", !.got = 0, !.ld = 0]]
      BY <3>1, <3>2
    <3> HIDE <1>0
    <3> QED BY <3>2, <3>3, <3>4
  <2>2. rate' \in Nat
    BY <1>0, <1>13 DEF StoreRate, Thread
  <2> QED BY <1>0, <1>13, <2>1, <2>2, ThreadFrameType
          DEF StoreRate, TypeOK, DataTypeOK, SharedTypeOK
<1>14. CASE Finish(t)
  <2>1. w' \in [T -> Thread]
    BY <1>14, GotoType DEF Finish, Workers
  <2>2. part' \in [T -> PartFile]
    <3> DEFINE new == [[part[t] EXCEPT !.disk = Held(part[t])] EXCEPT !.mem = 0]
    <3>1. part[t] \in PartFile /\ DOMAIN part = T
      BY <1>0
    <3>2. Held(part[t]) \in Nat
      BY <3>1 DEF Held, PartFile
    <3>3. new \in PartFile
      BY <3>1, <3>2 DEF PartFile
    <3>4. part' = [part EXCEPT ![t] = new]
      BY <1>14, <3>1 DEF Finish
    <3> HIDE DEF new
    <3> QED BY <1>0, <3>3, <3>4
  <2>3. conn' \in [T -> Connection]
    BY <1>0, <1>14 DEF Finish, NoConn, Connection
  <2> QED BY <1>0, <1>14, <1>a, <2>1, <2>2, <2>3 DEF Finish, DataTypeOK
<1> QED BY <1>1, <1>2, <1>3, <1>4, <1>5, <1>6, <1>7, <1>8, <1>9, <1>10, <1>11, <1>12,
           <1>13, <1>14 DEF ThreadStep

LEMMA MainStepBooleans == TypeOK /\ MainStep => BooleanTypeOK'
<1> SUFFICES ASSUME TypeOK, MainStep PROVE BooleanTypeOK'
  OBVIOUS
<1>0. tempDir \in BOOLEAN /\ aborted \in BOOLEAN /\ tainted \in BOOLEAN
      /\ peerUp \in [{0, 1} -> BOOLEAN]
  BY DEF TypeOK, BooleanTypeOK
<1>1. CASE MeasureMissing \/ MergeMissing
  BY <1>0, <1>1 DEF MeasureMissing, MergeMissing, Die, BooleanTypeOK
<1>2. CASE MergeEmpty
  BY <1>0, <1>2 DEF MergeEmpty, MainFrame, BooleanTypeOK
<1>3. CASE Cleanup
  BY <1>0, <1>3 DEF Cleanup, MainFrame, BooleanTypeOK
<1>4. CASE CreateThread \/ MeasurePart \/ ContinuePart \/ Join \/ MergePart \/ MergeEnd
  BY <1>0, <1>4 DEF CreateThread, MeasurePart, ContinuePart, Join, MergePart, MergeEnd,
                    MainFrame, BooleanTypeOK
<1> QED BY <1>1, <1>2, <1>3, <1>4 DEF MainStep

LEMMA MainStepType == TypeOK /\ MainStep => TypeOK'
<1> SUFFICES ASSUME TypeOK, MainStep PROVE TypeOK'
  OBVIOUS
<1>0. /\ w \in [T -> Thread] /\ conn \in [T -> Connection] /\ part \in [T -> PartFile]
      /\ rate \in Nat /\ lock \in T \cup {Unlocked} /\ buf \in Request
  BY DEF TypeOK, DataTypeOK, SharedTypeOK
<1>b. BooleanTypeOK'
  BY MainStepBooleans
<1>i. \A i \in 0 .. Threads : i < Threads => i \in T /\ i + 1 \in 0 .. Threads
  BY PartTypes, ConstantsAssumption
<1>1. CASE CreateThread
  <2>1. idx \in T /\ idx + 1 \in 0 .. Threads
    BY <1>i, <1>1 DEF TypeOK, MainTypeOK, CreateThread
  <2>2. NewThread(Size(idx), Start(idx)) \in Thread
    <3>1. Size(idx) \in Nat /\ Start(idx) \in Nat
      BY <2>1, PartTypes
    <3> HIDE <1>0
    <3> QED BY <3>1 DEF NewThread, Thread, Workers
  <2>3. w' \in [T -> Thread]
    BY <1>0, <1>1, <2>1, <2>2 DEF CreateThread
  <2> QED BY <1>b, <1>1, <2>1, <2>3 DEF TypeOK, MainTypeOK, SharedTypeOK, DataTypeOK, WorldTypeOK,
                                  CreateThread, MainFrame
<1>2. CASE MeasurePart
  <2>1. MainTypeOK'
    <3>1. idx \in T
      BY <1>2, PartTypes DEF TypeOK, MainTypeOK, MeasurePart
    <3> QED BY <1>0, <1>2, <3>1 DEF TypeOK, MainTypeOK, MeasurePart, MainFrame, MainPcs
  <2> QED BY <1>b, <1>2, <2>1 DEF TypeOK, SharedTypeOK, DataTypeOK, WorldTypeOK, MeasurePart,
                                  MainFrame
<1>3. CASE ContinuePart
  <2>1. idx \in T /\ idx + 1 \in 0 .. Threads
    BY <1>3, PartTypes, ConstantsAssumption DEF TypeOK, MainTypeOK, ContinuePart, T, Parts
  <2>2. Held(part[idx]) \in Nat
    BY <1>0, <2>1 DEF Held, PartFile
  <2>3. NewThread(Size(idx) - Held(part[idx]), Start(idx) + Held(part[idx])) \in Thread
    <3>1. Size(idx) \in Nat /\ Start(idx) \in Nat
      BY <2>1, PartTypes
    <3> QED BY <2>2, <3>1 DEF NewThread, Thread, Workers
  <2>4. w' \in [T -> Thread]
    BY <1>0, <1>3, <2>1, <2>3 DEF ContinuePart
  <2>5. rate' \in Nat
    BY <1>3, <2>2 DEF ContinuePart, TypeOK, MainTypeOK
  <2> QED BY <1>b, <1>3, <2>1, <2>4, <2>5 DEF TypeOK, MainTypeOK, SharedTypeOK, DataTypeOK,
                                        WorldTypeOK, ContinuePart, MainFrame, MainPcs
<1>4. CASE MeasureMissing
  BY <1>4, DieType DEF MeasureMissing
<1>5. CASE Join
  <2>1. w' \in [T -> Thread]
    <3>1. NoThread \in Thread
      BY DEF NoThread, Thread, Workers
    <3> QED BY <1>5, <3>1 DEF Join
  <2>2. MainTypeOK'
    BY <1>5, ConstantsAssumption DEF TypeOK, MainTypeOK, Join, MainFrame, MainPcs
  <2>3. WorldTypeOK'
    BY <1>5 DEF TypeOK, WorldTypeOK, Join, MainFrame, Target
  <2> QED BY <1>b, <1>5, <2>1, <2>2, <2>3 DEF TypeOK, SharedTypeOK, DataTypeOK, Join, MainFrame
<1>6. CASE MergePart
  <2>1. idx \in T /\ idx + 1 \in 0 .. Threads
    BY <1>i, <1>6 DEF TypeOK, MainTypeOK, MergePart
  <2>2. Held(part[idx]) \in Nat
    BY <1>0, <2>1 DEF Held, PartFile
  <2>3. WorldTypeOK'
    <3>1. target.len \in Nat
      BY DEF TypeOK, WorldTypeOK, Target
    <3>2. part[idx].clean \in Nat /\ target.clean \in Nat
      BY <1>0, <2>1 DEF TypeOK, WorldTypeOK, Target, PartFile
    <3>3. target' = [len |-> target.len + Held(part[idx]),
                     clean |-> IF target.clean = target.len /\ target.len = Start(idx)
                               THEN target.clean + part[idx].clean
                               ELSE target.clean]
      BY <1>6 DEF MergePart
    <3>4. target' \in Target
      BY <2>2, <3>1, <3>2, <3>3 DEF Target
    <3> QED BY <1>6, <3>4 DEF TypeOK, WorldTypeOK, MergePart, MainFrame
  <2> QED BY <1>b, <1>6, <2>1, <2>3 DEF TypeOK, MainTypeOK, SharedTypeOK, DataTypeOK, MergePart,
                                        MainFrame
<1>7. CASE MergeEmpty
  BY <1>b, <1>7 DEF TypeOK, MainTypeOK, SharedTypeOK, DataTypeOK, WorldTypeOK, MergeEmpty,
              MainFrame, MainPcs
<1>8. CASE MergeMissing
  BY <1>8, DieType DEF MergeMissing
<1>9. CASE MergeEnd
  BY <1>b, <1>9 DEF TypeOK, MainTypeOK, SharedTypeOK, DataTypeOK, WorldTypeOK, MergeEnd,
              MainFrame, MainPcs
<1>10. CASE Cleanup
  <2>1. part' \in [T -> PartFile]
    BY <1>0, <1>10 DEF Cleanup, NoPart, PartFile
  <2>2. MainTypeOK'
    BY <1>10, ConstantsAssumption DEF TypeOK, MainTypeOK, Cleanup, MainFrame, MainPcs
  <2>3. WorldTypeOK'
    BY <1>10 DEF TypeOK, WorldTypeOK, Cleanup, MainFrame
  <2> QED BY <1>b, <1>10, <2>1, <2>2, <2>3 DEF TypeOK, SharedTypeOK, DataTypeOK, Cleanup, MainFrame
<1> QED BY <1>1, <1>2, <1>3, <1>4, <1>5, <1>6, <1>7, <1>8, <1>9, <1>10 DEF MainStep

LEMMA SpawnType == ASSUME TypeOK, NEW o \in Ops, Spawn(o) PROVE TypeOK'
<1>1. MainTypeOK'
  BY ConstantsAssumption DEF TypeOK, MainTypeOK, Spawn, MainPcs
<1>2. SharedTypeOK'
  BY DEF SharedTypeOK, Spawn, Request
<1>3. DataTypeOK'
  BY DEF TypeOK, DataTypeOK, Spawn
<1>4. WorldTypeOK'
  BY ConstantsAssumption DEF TypeOK, WorldTypeOK, Spawn
<1>5. BooleanTypeOK'
  BY DEF TypeOK, BooleanTypeOK, Spawn
<1> QED BY <1>1, <1>2, <1>3, <1>4, <1>5 DEF TypeOK

(* What the death of server k does to the connections. *)
LEMMA PeerDiesConnections ==
    ASSUME TypeOK, NEW k \in {0, 1}, PeerDies(k), NEW t \in T
    PROVE  /\ conn'[t] \in Connection
           /\ conn'[t].pos = conn[t].pos
           /\ conn'[t].left <= conn[t].left
<1> DEFINE hit == {u \in T : Server(u) = k /\ conn[u].st \in {"open", "hang"}}
<1>1. PICK how \in [hit -> {"eof", "reset"}], arrives \in [hit -> 0 .. FileSize] :
         conn' = [u \in T |->
                    IF u \in hit
                    THEN [st |-> how[u], pos |-> conn[u].pos,
                          left |-> IF how[u] = "eof" THEN Lesser(arrives[u], conn[u].left) ELSE 0]
                    ELSE conn[u]]
  BY DEF PeerDies
<1>2. conn[t] \in Connection /\ conn[t].left \in Nat
  BY DEF TypeOK, DataTypeOK, Connection
<1>3. CASE t \in hit
  <2> HIDE DEF hit
  <2>1. how[t] \in {"eof", "reset"} /\ arrives[t] \in Nat
    BY <1>3, ConstantsAssumption
  <2>2. Lesser(arrives[t], conn[t].left) \in Nat /\ Lesser(arrives[t], conn[t].left) <= conn[t].left
    BY <1>2, <2>1 DEF Lesser
  <2>3. conn'[t] = [st |-> how[t], pos |-> conn[t].pos,
                    left |-> IF how[t] = "eof" THEN Lesser(arrives[t], conn[t].left) ELSE 0]
    BY <1>1, <1>3
  <2>4. conn'[t].pos = conn[t].pos /\ conn'[t].left <= conn[t].left
    BY <1>2, <2>2, <2>3
  <2>5. conn'[t] \in Connection
    BY <1>2, <2>1, <2>2, <2>3 DEF Connection
  <2> QED BY <2>4, <2>5
<1>4. CASE t \notin hit
  <2> HIDE DEF hit
  <2>1. conn'[t] = conn[t]
    BY <1>1, <1>4
  <2> QED BY <1>2, <2>1
<1> QED BY <1>3, <1>4

LEMMA PeerDiesType == ASSUME TypeOK, NEW k \in {0, 1}, PeerDies(k) PROVE TypeOK'
<1>1. conn' \in [T -> Connection]
  <2>1. conn' = [t \in T |-> conn'[t]]
    BY DEF PeerDies
  <2> QED BY <2>1, PeerDiesConnections
<1>2. WorldTypeOK'
  BY ConstantsAssumption DEF TypeOK, WorldTypeOK, PeerDies, fileVars
<1>3. MainTypeOK' /\ SharedTypeOK'
  BY DEF TypeOK, MainTypeOK, SharedTypeOK, PeerDies, mainVars
<1>4. BooleanTypeOK'
  <2>1. tempDir \in BOOLEAN /\ aborted \in BOOLEAN /\ tainted \in BOOLEAN
        /\ peerUp' \in [{0, 1} -> BOOLEAN]
    BY DEF TypeOK, BooleanTypeOK, PeerDies
  <2> QED BY <2>1 DEF BooleanTypeOK, PeerDies, mainVars, fileVars
<1> QED BY <1>1, <1>2, <1>3, <1>4 DEF TypeOK, DataTypeOK, PeerDies, fileVars

LEMMA InitType == Init => TypeOK
<1> SUFFICES ASSUME Init PROVE TypeOK
  OBVIOUS
<1>1. MainTypeOK
  BY ConstantsAssumption DEF Init, MainTypeOK, Ops, MainPcs
<1>2. SharedTypeOK
  BY DEF Init, SharedTypeOK, Request
<1>3. DataTypeOK
  BY DEF Init, DataTypeOK, NoThread, NoConn, NoPart, Thread, Connection, PartFile, Workers
<1>4. WorldTypeOK
  BY ConstantsAssumption DEF Init, WorldTypeOK, Target
<1>5. BooleanTypeOK
  BY DEF Init, BooleanTypeOK
<1> QED BY <1>1, <1>2, <1>3, <1>4, <1>5 DEF TypeOK

LEMMA TypeInductive == TypeOK /\ [Next]_vars => TypeOK'
<1> SUFFICES ASSUME TypeOK, [Next]_vars PROVE TypeOK'
  OBVIOUS
<1>1. CASE Next
  BY <1>1, SpawnType, MainStepType, ThreadStepType, DieType, PeerDiesType DEF Next, Kill
<1>2. CASE UNCHANGED vars
  BY <1>2 DEF TypeOK, MainTypeOK, SharedTypeOK, DataTypeOK, WorldTypeOK, BooleanTypeOK, vars
<1> QED BY <1>1, <1>2

(* Every variable keeps its type.                                            *)
THEOREM TypeCorrect == Spec => []TypeOK
BY InitType, TypeInductive, PTL DEF Spec

-------------------------------------------------------------------------------
(* Part files are prefixes: PrefixInv is inductive *)

(* What PrefixInv says of one thread, the request buffer left aside. *)
ThreadInv(t) == PartIsPrefix(t) /\ AskInv(t) /\ StreamInv(t)

(* The components of the records, for use where the record sets are too much.*)
LEMMA Components ==
    ASSUME TypeOK, NEW t \in T
    PROVE  /\ w[t].size \in Int /\ w[t].start \in Nat /\ w[t].all \in Nat
           /\ conn[t].pos \in Nat /\ conn[t].left \in Nat
           /\ part[t].disk \in Nat /\ part[t].mem \in Nat /\ part[t].clean \in Nat
           /\ Size(t) \in Nat /\ Start(t) \in Nat
<1>1. w[t] \in Thread /\ conn[t] \in Connection /\ part[t] \in PartFile
  BY DEF TypeOK, DataTypeOK
<1>2. w[t].size \in Int /\ w[t].start \in Nat /\ w[t].all \in Nat
  BY <1>1 DEF Thread
<1>3. conn[t].pos \in Nat /\ conn[t].left \in Nat
  BY <1>1 DEF Connection
<1>4. part[t].disk \in Nat /\ part[t].mem \in Nat /\ part[t].clean \in Nat
  BY <1>1 DEF PartFile
<1> QED BY <1>2, <1>3, <1>4, PartTypes

(* What a step leaves alone keeps what PrefixInv says of it. *)
LEMMA Untouched ==
    ASSUME NEW t \in T, ThreadInv(t), op' = op,
           w'[t] = w[t], conn'[t] = conn[t], part'[t] = part[t]
    PROVE  ThreadInv(t)'
BY DEF ThreadInv, PartIsPrefix, AskInv, StreamInv, Held, Remaining, Size, Start

(* A thread that does not come to hold the buffer leaves it to who does.     *)
LEMMA BufferUntouched ==
    ASSUME NEW t \in T, \A u \in T : BufInv(u), buf' = buf,
           \A u \in T \ {t} : w'[u] = w[u],
           w'[t].pc \notin {"format2", "send"}
    PROVE  \A u \in T : BufInv(u)'
BY DEF BufInv, BufferBusy

(* PrefixInv after a step of thread t that touches no other thread's state.  *)
LEMMA StepOfOne ==
    ASSUME TypeOK, PrefixInv, NEW t \in T, w[t].pc # "none",
           op' = op, mpc' = mpc, idx' = idx,
           \A u \in T \ {t} : w'[u] = w[u] /\ conn'[u] = conn[u] /\ part'[u] = part[u],
           ~tainted' => ~tainted,
           w'[t].pc \in {"none", "connect", "format", "done"} => conn'[t].left = 0,
           ~tainted' => (ThreadInv(t)' /\ \A u \in T : BufInv(u)')
    PROVE  PrefixInv'
<1>1. FrameInv'
  <2>1. FrameInv
    BY DEF PrefixInv
  <2>2. mpc \in {"create", "add"} /\ ~(t >= idx)
    BY <2>1 DEF FrameInv
  <2> QED BY <2>1, <2>2 DEF FrameInv
<1>2. ASSUME ~tainted', NEW u \in T
      PROVE  (PartIsPrefix(u) /\ AskInv(u) /\ BufInv(u) /\ StreamInv(u))'
  <2>1. BufInv(u)'
    BY <1>2
  <2>2. CASE u = t
    BY <1>2, <2>1, <2>2 DEF ThreadInv
  <2>3. CASE u # t
    <3>1. ThreadInv(u)
      BY <1>2 DEF PrefixInv, ThreadInv
    <3>2. ThreadInv(u)'
      BY <2>3, <3>1, Untouched
    <3> QED BY <2>1, <3>2 DEF ThreadInv
  <2> QED BY <2>2, <2>3
<1> QED BY <1>1, <1>2 DEF PrefixInv

(* The death of the process keeps PrefixInv: of each part what is on the     *)
(* disk remains, a prefix of a prefix.                                       *)
LEMMA DiePrefix == TypeOK /\ PrefixInv /\ Die => PrefixInv'
<1> SUFFICES ASSUME TypeOK, PrefixInv, Die PROVE PrefixInv'
  OBVIOUS
<1>1. FrameInv'
  BY DEF FrameInv, Die, NoThread, NoConn
<1>2. ASSUME ~tainted', NEW u \in T
      PROVE  (PartIsPrefix(u) /\ AskInv(u) /\ BufInv(u) /\ StreamInv(u))'
  <2>1. PartIsPrefix(u)
    BY <1>2 DEF PrefixInv, Die
  <2>2. part'[u] = Unflushed(part[u]) /\ w'[u] = NoThread
    BY DEF Die
  <2>3. /\ part'[u].mem = 0 /\ part'[u].disk = part[u].disk
        /\ part'[u].clean = Lesser(part[u].clean, part[u].disk)
    <3>1. part[u] \in PartFile
      BY DEF TypeOK, DataTypeOK
    <3> QED BY <2>2, <3>1 DEF Unflushed, PartFile
  <2>4. PartIsPrefix(u)'
    BY <2>1, <2>3, Components DEF PartIsPrefix, Held, Lesser, Size
  <2>5. AskInv(u)' /\ BufInv(u)' /\ StreamInv(u)'
    BY <2>2, <2>3 DEF NoThread, AskInv, BufInv, StreamInv, Requesting, Receiving
  <2> QED BY <2>4, <2>5
<1> QED BY <1>1, <1>2 DEF PrefixInv

LEMMA ThreadStepPrefix ==
    ASSUME TypeOK, PrefixInv, NEW t \in T, ThreadStep(t)
    PROVE  PrefixInv'
<1>0. /\ w[t].size \in Int /\ w[t].start \in Nat /\ w[t].all \in Nat
      /\ conn[t].pos \in Nat /\ conn[t].left \in Nat
      /\ part[t].disk \in Nat /\ part[t].mem \in Nat /\ part[t].clean \in Nat
      /\ Size(t) \in Nat /\ Start(t) \in Nat
  BY Components
<1>d. DOMAIN w = T /\ DOMAIN conn = T /\ DOMAIN part = T
      /\ w[t] \in Thread /\ conn[t] \in Connection /\ part[t] \in PartFile
  BY DEF TypeOK, DataTypeOK
<1>f. FrameInv
  BY DEF PrefixInv
<1>i. ~tainted => (PartIsPrefix(t) /\ AskInv(t) /\ StreamInv(t) /\ \A u \in T : BufInv(u))
  BY DEF PrefixInv
<1>1. CASE Connect(t)
  <2>1. /\ w[t].pc = "connect" /\ op' = op /\ mpc' = mpc /\ idx' = idx /\ tainted' = tainted
        /\ buf' = buf
        /\ \A u \in T \ {t} : w'[u] = w[u] /\ conn'[u] = conn[u] /\ part'[u] = part[u]
    BY <1>1, <1>d DEF Connect, Goto, ThreadFrame, mainVars, Remaining
  <2>2. /\ w'[t].pc = "format" /\ w'[t].size = w[t].size /\ w'[t].start = w[t].start
        /\ w'[t].all = w[t].all
    BY <1>1, <1>d DEF Connect, Goto, Thread
  <2>3. conn'[t].left = conn[t].left
    BY <1>1, <1>d DEF Connect, NoConn, Connection
  <2>4. part'[t] = part[t]
    BY <1>1, <1>d DEF Connect, ThreadFrame, PartFile
  <2>5. conn[t].left = 0
    BY <1>f, <2>1 DEF FrameInv
  <2>6. ASSUME ~tainted' PROVE ThreadInv(t)'
    BY <1>0, <1>i, <2>1, <2>2, <2>3, <2>4, <2>5, <2>6
       DEF ThreadInv, PartIsPrefix, AskInv, StreamInv, Held, Remaining, Size, Start,
           Requesting, Receiving
  <2>7. ASSUME ~tainted' PROVE \A u \in T : BufInv(u)'
    BY <1>i, <2>1, <2>2, <2>7, BufferUntouched
  <2>8. w'[t].pc \in {"none", "connect", "format", "done"} => conn'[t].left = 0
    BY <1>f, <2>1, <2>2, <2>3 DEF FrameInv
  <2> QED BY <2>1, <2>6, <2>7, <2>8, StepOfOne
<1>2. CASE FormatSize(t)
  <2>1. /\ w[t].pc = "format" /\ op' = op /\ mpc' = mpc /\ idx' = idx
        /\ tainted' = (tainted \/ BufferBusy(t))
        /\ conn' = conn /\ part' = part
        /\ \A u \in T \ {t} : w'[u] = w[u]
    BY <1>2, <1>d DEF FormatSize, Goto, ThreadFrame, mainVars
  <2>2. /\ w'[t].pc = "format2" /\ w'[t].size = w[t].size /\ w'[t].start = w[t].start
        /\ w'[t].all = w[t].all
    BY <1>2, <1>d DEF FormatSize, Goto, Thread
  <2>3. buf'.size = w[t].size /\ buf'.start = buf.start
    <3>1. buf \in Request
      BY DEF TypeOK, SharedTypeOK
    <3> QED BY <1>2, <3>1 DEF FormatSize, Request
  <2>4. ~tainted' => ~tainted /\ ~BufferBusy(t)
    BY <2>1
  <2>6. ASSUME ~tainted' PROVE ThreadInv(t)'
    BY <1>0, <1>f, <1>i, <2>1, <2>2, <2>4, <2>6
       DEF FrameInv, ThreadInv, PartIsPrefix, AskInv, StreamInv, Held, Remaining, Size, Start,
           Requesting, Receiving
  <2>7. ASSUME ~tainted', NEW u \in T PROVE BufInv(u)'
    BY <1>i, <2>1, <2>2, <2>3, <2>4, <2>7 DEF BufInv, BufferBusy
  <2> QED BY <2>1, <2>2, <2>4, <2>6, <2>7, StepOfOne
<1>3. CASE FormatStart(t)
  <2>1. /\ w[t].pc = "format2" /\ op' = op /\ mpc' = mpc /\ idx' = idx
        /\ tainted' = (tainted \/ BufferBusy(t))
        /\ conn' = conn /\ part' = part
        /\ \A u \in T \ {t} : w'[u] = w[u]
    BY <1>3, <1>d DEF FormatStart, Goto, ThreadFrame, mainVars
  <2>2. /\ w'[t].pc = "send" /\ w'[t].size = w[t].size /\ w'[t].start = w[t].start
        /\ w'[t].all = w[t].all
    BY <1>3, <1>d DEF FormatStart, Goto, Thread
  <2>3. buf'.start = w[t].start /\ buf'.size = buf.size
    <3>1. buf \in Request
      BY DEF TypeOK, SharedTypeOK
    <3> QED BY <1>3, <3>1 DEF FormatStart, Request
  <2>4. ~tainted' => ~tainted /\ ~BufferBusy(t)
    BY <2>1
  <2>6. ASSUME ~tainted' PROVE ThreadInv(t)'
    BY <1>0, <1>f, <1>i, <2>1, <2>2, <2>4, <2>6
       DEF FrameInv, ThreadInv, PartIsPrefix, AskInv, StreamInv, Held, Remaining, Size, Start,
           Requesting, Receiving
  <2>7. ASSUME ~tainted', NEW u \in T PROVE BufInv(u)'
    BY <1>i, <2>1, <2>2, <2>3, <2>4, <2>7 DEF BufInv, BufferBusy
  <2> QED BY <2>1, <2>2, <2>4, <2>6, <2>7, StepOfOne
<1>4. CASE Send(t)
  <2>1. /\ w[t].pc = "send" /\ op' = op /\ mpc' = mpc /\ idx' = idx /\ tainted' = tainted
        /\ buf' = buf /\ part' = part
        /\ \A u \in T \ {t} : w'[u] = w[u] /\ conn'[u] = conn[u]
    BY <1>4, <1>d DEF Send, Goto, ThreadFrame, mainVars
  <2>2. /\ w'[t].pc = "response" /\ w'[t].size = w[t].size /\ w'[t].start = w[t].start
        /\ w'[t].all = w[t].all
    BY <1>4, <1>d DEF Send, Goto, Thread
  <2>3. \/ conn'[t].left = conn[t].left
        \/ conn'[t].pos = buf.start /\ conn'[t].left = Granted(buf.size, buf.start)
    BY <1>4, <1>d DEF Send, Connection
  <2>4. ASSUME ~tainted
        PROVE  /\ conn[t].left = 0 /\ buf.start = w[t].start /\ w[t].all = 0
               /\ w[t].size >= 0 /\ Granted(buf.size, buf.start) <= w[t].size
    <3>1. conn[t].left = 0 /\ buf.start = w[t].start /\ buf.size = w[t].size
      BY <1>i, <2>1, <2>4 DEF StreamInv, BufInv
    <3>2. w[t].all = 0 /\ w[t].size >= 0
      BY <1>0, <1>i, <2>1, <2>4 DEF AskInv, PartIsPrefix, Requesting, Held
    <3> QED BY <1>0, <3>1, <3>2, GrantedType
  <2>6. ASSUME ~tainted' PROVE ThreadInv(t)'
    <3>1. PartIsPrefix(t)' /\ AskInv(t)'
      BY <1>0, <1>i, <2>1, <2>2, <2>6
         DEF PartIsPrefix, AskInv, Held, Size, Start, Requesting, Receiving
    <3>2. StreamInv(t)'
      BY <1>0, <2>1, <2>2, <2>3, <2>4, <2>6 DEF StreamInv, Remaining
    <3> QED BY <3>1, <3>2 DEF ThreadInv
  <2>7. ASSUME ~tainted' PROVE \A u \in T : BufInv(u)'
    BY <1>i, <2>1, <2>2, <2>7, BufferUntouched
  <2> QED BY <2>1, <2>2, <2>6, <2>7, StepOfOne
<1>5. CASE SendOnRefused(t)
  BY <1>5, DiePrefix DEF SendOnRefused
<1>6. CASE Response(t)
  <2>1. /\ w[t].pc = "response" /\ op' = op /\ mpc' = mpc /\ idx' = idx /\ tainted' = tainted
        /\ buf' = buf /\ conn' = conn /\ part'[t] = Opened(part[t])
        /\ \A u \in T \ {t} : w'[u] = w[u] /\ part'[u] = part[u]
    BY <1>6, <1>d DEF Response, Goto, ThreadFrame, mainVars
  <2>2. /\ w'[t].pc = "recv" /\ w'[t].size = w[t].size /\ w'[t].start = w[t].start
        /\ w'[t].all = w[t].all
    BY <1>6, <1>d DEF Response, Goto, Thread
  <2>3. /\ part'[t].is = "file"
        /\ op = "start" => part'[t].disk = 0 /\ part'[t].mem = 0 /\ part'[t].clean = 0
        /\ op # "start" => /\ part'[t].disk = part[t].disk /\ part'[t].mem = part[t].mem
                           /\ part'[t].clean = part[t].clean
    BY <1>d, <2>1 DEF Opened, NoPart, PartFile
  <2>6. ASSUME ~tainted' PROVE ThreadInv(t)'
    <3>1. PartIsPrefix(t)'
      BY <1>0, <1>i, <2>1, <2>3, <2>6 DEF PartIsPrefix, Held, Size
    <3>2. AskInv(t)'
      BY <1>0, <1>i, <2>1, <2>2, <2>3, <2>6
         DEF AskInv, Held, Size, Start, Requesting, Receiving
    <3>3. StreamInv(t)'
      BY <1>i, <2>1, <2>2, <2>6 DEF StreamInv, Remaining, Receiving
    <3> QED BY <3>1, <3>2, <3>3 DEF ThreadInv
  <2>7. ASSUME ~tainted' PROVE \A u \in T : BufInv(u)'
    BY <1>i, <2>1, <2>2, <2>7, BufferUntouched
  <2> QED BY <2>1, <2>2, <2>6, <2>7, StepOfOne
<1>7. CASE NoResponse(t)
  <2>1. /\ w[t].pc = "response" /\ op' = op /\ mpc' = mpc /\ idx' = idx /\ tainted' = tainted
        /\ buf' = buf
        /\ \A u \in T \ {t} : w'[u] = w[u] /\ conn'[u] = conn[u] /\ part'[u] = part[u]
    BY <1>7, <1>d DEF NoResponse, Goto, ThreadFrame, mainVars, Remaining
  <2>2. /\ w'[t].pc = "done" /\ w'[t].size = w[t].size /\ w'[t].start = w[t].start
        /\ w'[t].all = w[t].all
    BY <1>7, <1>d DEF NoResponse, Goto, Thread
  <2>3. conn'[t].left = 0
    BY <1>7, <1>d DEF NoResponse, NoConn, Connection
  <2>4. part'[t] = part[t]
    BY <1>7, <1>d DEF NoResponse, ThreadFrame, PartFile
  <2>6. ASSUME ~tainted' PROVE ThreadInv(t)'
    BY <1>0, <1>i, <2>1, <2>2, <2>3, <2>4, <2>6
       DEF ThreadInv, PartIsPrefix, AskInv, StreamInv, Held, Remaining, Size, Start,
           Requesting, Receiving
  <2>7. ASSUME ~tainted' PROVE \A u \in T : BufInv(u)'
    BY <1>i, <2>1, <2>2, <2>7, BufferUntouched
  <2>8. w'[t].pc \in {"none", "connect", "format", "done"} => conn'[t].left = 0
    BY <1>f, <2>1, <2>2, <2>3 DEF FrameInv
  <2> QED BY <2>1, <2>6, <2>7, <2>8, StepOfOne
<1>8. CASE Recv(t)
  <2>1. PICK n \in 1 .. Lesser(Block, conn[t].left) :
          /\ \E f \in 0 .. part[t].mem + n :
               part' = [part EXCEPT ![t] =
                          Appended(@, n, conn[t].pos = Start(t) + Held(@), f)]
          /\ conn' = [conn EXCEPT ![t].pos = @ + n, ![t].left = @ - n]
          /\ w' = [w EXCEPT ![t].pc = "lock", ![t].all = @ + n, ![t].got = n]
    BY <1>8 DEF Recv
  <2>2. PICK f \in 0 .. part[t].mem + n :
          part' = [part EXCEPT ![t] = Appended(@, n, conn[t].pos = Start(t) + Held(@), f)]
    BY <2>1
  <2>3. n \in Nat /\ n >= 1 /\ n <= conn[t].left /\ f \in Nat /\ f <= part[t].mem + n
    <3>1. n \in Nat /\ n >= 1 /\ n <= conn[t].left
      BY <1>0, ConstantsAssumption DEF Lesser
    <3> QED BY <1>0, <3>1
  <2>4. /\ w[t].pc = "recv" /\ op' = op /\ mpc' = mpc /\ idx' = idx /\ tainted' = tainted
        /\ buf' = buf
    BY <1>8 DEF Recv, ThreadFrame, mainVars
  <2>5. \A u \in T \ {t} : w'[u] = w[u] /\ conn'[u] = conn[u] /\ part'[u] = part[u]
    BY <1>d, <2>1, <2>2
  <2>6. /\ w'[t].pc = "lock" /\ w'[t].size = w[t].size /\ w'[t].start = w[t].start
        /\ w'[t].all = w[t].all + n
    BY <1>d, <2>1 DEF Thread
  <2>7. conn'[t].pos = conn[t].pos + n /\ conn'[t].left = conn[t].left - n
    BY <1>d, <2>1 DEF Connection
  <2>8. ASSUME ~tainted' PROVE ThreadInv(t)'
    <3>1. /\ PartIsPrefix(t)
          /\ Held(part[t]) + w[t].size = Size(t) + w[t].all
          /\ w[t].start + w[t].size = Start(t) + Size(t)
          /\ conn[t].pos = w[t].start + w[t].all
          /\ conn[t].left <= w[t].size - w[t].all
      <4>1. PartIsPrefix(t) /\ AskInv(t) /\ StreamInv(t)
        BY <1>i, <2>4, <2>8
      <4>2. conn[t].left > 0
        BY <1>0, <2>3
      <4>3. Held(part[t]) + w[t].size = Size(t) + w[t].all
        BY <2>4, <4>1 DEF AskInv, Receiving
      <4>4. w[t].start + w[t].size = Start(t) + Size(t)
        BY <2>4, <4>1 DEF AskInv
      <4>5. conn[t].pos = w[t].start + w[t].all /\ conn[t].left <= w[t].size - w[t].all
        BY <2>4, <4>1, <4>2 DEF StreamInv, Receiving, Remaining
      <4> QED BY <4>1, <4>3, <4>4, <4>5
    <3>2. conn[t].pos = Start(t) + Held(part[t]) /\ part[t].clean = Held(part[t])
      <4>1. Held(part[t]) \in Nat
        BY <1>0 DEF Held
      <4>2. conn[t].pos = Start(t) + Held(part[t])
        BY <1>0, <3>1, <4>1
      <4> QED BY <3>1, <4>2 DEF PartIsPrefix
    <3>3. /\ part'[t].is = part[t].is /\ part'[t].disk = part[t].disk + f
          /\ part'[t].mem = part[t].mem + n - f /\ part'[t].clean = part[t].clean + n
      BY <1>d, <2>2, <3>2 DEF Appended
    <3>4. Held(part'[t]) = Held(part[t]) + n
      BY <1>0, <2>3, <3>3 DEF Held
    <3>5. Held(part[t]) \in Nat
      BY <1>0 DEF Held
    <3>6. PartIsPrefix(t)'
      <4>1. part'[t].clean = Held(part'[t])
        BY <3>2, <3>3, <3>4
      <4>2. Held(part'[t]) <= Size(t)
        BY <1>0, <2>3, <3>1, <3>4, <3>5
      <4> QED BY <4>1, <4>2 DEF PartIsPrefix, Size
    <3>7. AskInv(t)'
      BY <1>0, <2>3, <2>6, <3>1, <3>4, <3>5
         DEF AskInv, Requesting, Receiving, Size, Start
    <3>8. StreamInv(t)'
      BY <1>0, <2>3, <2>6, <2>7, <3>1 DEF StreamInv, Remaining
    <3> QED BY <3>6, <3>7, <3>8 DEF ThreadInv
  <2>9. ASSUME ~tainted' PROVE \A u \in T : BufInv(u)'
    BY <1>i, <2>4, <2>5, <2>6, <2>9, BufferUntouched
  <2> QED BY <2>4, <2>5, <2>6, <2>8, <2>9, StepOfOne
<1>9. CASE RecvEnd(t)
  <2>1. /\ w[t].pc = "recv" /\ op' = op /\ mpc' = mpc /\ idx' = idx /\ tainted' = tainted
        /\ buf' = buf
        /\ \A u \in T \ {t} : w'[u] = w[u] /\ conn'[u] = conn[u] /\ part'[u] = part[u]
    BY <1>9, <1>d DEF RecvEnd, Goto, ThreadFrame, mainVars, Remaining
  <2>2. /\ w'[t].pc = "spin" /\ w'[t].size = w[t].size /\ w'[t].start = w[t].start
        /\ w'[t].all = w[t].all
    BY <1>9, <1>d DEF RecvEnd, Goto, Thread
  <2>3. conn'[t] = conn[t]
    BY <1>9, <1>d DEF RecvEnd, NoConn, Connection
  <2>4. part'[t] = part[t]
    BY <1>9, <1>d DEF RecvEnd, ThreadFrame, PartFile
  <2>6. ASSUME ~tainted' PROVE ThreadInv(t)'
    BY <1>0, <1>i, <2>1, <2>2, <2>3, <2>4, <2>6
       DEF ThreadInv, PartIsPrefix, AskInv, StreamInv, Held, Remaining, Size, Start,
           Requesting, Receiving
  <2>7. ASSUME ~tainted' PROVE \A u \in T : BufInv(u)'
    BY <1>i, <2>1, <2>2, <2>7, BufferUntouched
  <2>8. w'[t].pc \in {"none", "connect", "format", "done"} => conn'[t].left = 0
    BY <1>f, <2>1, <2>2, <2>3 DEF FrameInv
  <2> QED BY <2>1, <2>6, <2>7, <2>8, StepOfOne
<1>10. CASE RecvError(t)
  <2>1. /\ w[t].pc = "recv" /\ op' = op /\ mpc' = mpc /\ idx' = idx /\ tainted' = TRUE
        /\ \A u \in T \ {t} : w'[u] = w[u] /\ conn'[u] = conn[u] /\ part'[u] = part[u]
    BY <1>10, <1>d DEF RecvError, ThreadFrame, mainVars
  <2>2. w'[t].pc = "lock"
    BY <1>10, <1>d DEF RecvError, Thread
  <2> QED BY <2>1, <2>2, StepOfOne
<1>11. CASE RecvFault(t)
  BY <1>11, DiePrefix DEF RecvFault
<1>12. CASE LockRate(t)
  <2>1. /\ w[t].pc = "lock" /\ op' = op /\ mpc' = mpc /\ idx' = idx /\ tainted' = tainted
        /\ buf' = buf
        /\ \A u \in T \ {t} : w'[u] = w[u] /\ conn'[u] = conn[u] /\ part'[u] = part[u]
    BY <1>12, <1>d DEF LockRate, Goto, ThreadFrame, mainVars, Remaining
  <2>2. /\ w'[t].pc = "store" /\ w'[t].size = w[t].size /\ w'[t].start = w[t].start
        /\ w'[t].all = w[t].all
    BY <1>12, <1>d DEF LockRate, Goto, Thread
  <2>3. conn'[t] = conn[t]
    BY <1>12, <1>d DEF LockRate, NoConn, Connection
  <2>4. part'[t] = part[t]
    BY <1>12, <1>d DEF LockRate, ThreadFrame, PartFile
  <2>6. ASSUME ~tainted' PROVE ThreadInv(t)'
    BY <1>0, <1>i, <2>1, <2>2, <2>3, <2>4, <2>6
       DEF ThreadInv, PartIsPrefix, AskInv, StreamInv, Held, Remaining, Size, Start,
           Requesting, Receiving
  <2>7. ASSUME ~tainted' PROVE \A u \in T : BufInv(u)'
    BY <1>i, <2>1, <2>2, <2>7, BufferUntouched
  <2>8. w'[t].pc \in {"none", "connect", "format", "done"} => conn'[t].left = 0
    BY <1>f, <2>1, <2>2, <2>3 DEF FrameInv
  <2> QED BY <2>1, <2>6, <2>7, <2>8, StepOfOne
<1>13. CASE StoreRate(t)
  <2>1. /\ w[t].pc = "store" /\ op' = op /\ mpc' = mpc /\ idx' = idx /\ tainted' = tainted
        /\ buf' = buf
        /\ \A u \in T \ {t} : w'[u] = w[u] /\ conn'[u] = conn[u] /\ part'[u] = part[u]
    BY <1>13, <1>d DEF StoreRate, Goto, ThreadFrame, mainVars, Remaining
  <2>2. /\ w'[t].pc = "recv" /\ w'[t].size = w[t].size /\ w'[t].start = w[t].start
        /\ w'[t].all = w[t].all
    BY <1>13, <1>d DEF StoreRate, Goto, Thread
  <2>3. conn'[t] = conn[t]
    BY <1>13, <1>d DEF StoreRate, NoConn, Connection
  <2>4. part'[t] = part[t]
    BY <1>13, <1>d DEF StoreRate, ThreadFrame, PartFile
  <2>6. ASSUME ~tainted' PROVE ThreadInv(t)'
    BY <1>0, <1>i, <2>1, <2>2, <2>3, <2>4, <2>6
       DEF ThreadInv, PartIsPrefix, AskInv, StreamInv, Held, Remaining, Size, Start,
           Requesting, Receiving
  <2>7. ASSUME ~tainted' PROVE \A u \in T : BufInv(u)'
    BY <1>i, <2>1, <2>2, <2>7, BufferUntouched
  <2>8. w'[t].pc \in {"none", "connect", "format", "done"} => conn'[t].left = 0
    BY <1>f, <2>1, <2>2, <2>3 DEF FrameInv
  <2> QED BY <2>1, <2>6, <2>7, <2>8, StepOfOne
<1>14. CASE Finish(t)
  <2>1. /\ w[t].pc = "recv" /\ op' = op /\ mpc' = mpc /\ idx' = idx /\ tainted' = tainted
        /\ buf' = buf
        /\ \A u \in T \ {t} : w'[u] = w[u] /\ conn'[u] = conn[u] /\ part'[u] = part[u]
    BY <1>14, <1>d DEF Finish, Goto, ThreadFrame, mainVars, Remaining
  <2>2. /\ w'[t].pc = "done" /\ w'[t].size = w[t].size /\ w'[t].start = w[t].start
        /\ w'[t].all = w[t].all
    BY <1>14, <1>d DEF Finish, Goto, Thread
  <2>3. conn'[t].left = 0
    BY <1>14, <1>d DEF Finish, NoConn, Connection
  <2>4. part'[t].is = part[t].is /\ part'[t].disk = Held(part[t])
        /\ part'[t].mem = 0 /\ part'[t].clean = part[t].clean
    BY <1>14, <1>d DEF Finish, ThreadFrame, PartFile
  <2>6. ASSUME ~tainted' PROVE ThreadInv(t)'
    BY <1>0, <1>i, <2>1, <2>2, <2>3, <2>4, <2>6
       DEF ThreadInv, PartIsPrefix, AskInv, StreamInv, Held, Remaining, Size, Start,
           Requesting, Receiving
  <2>7. ASSUME ~tainted' PROVE \A u \in T : BufInv(u)'
    BY <1>i, <2>1, <2>2, <2>7, BufferUntouched
  <2>8. w'[t].pc \in {"none", "connect", "format", "done"} => conn'[t].left = 0
    BY <1>f, <2>1, <2>2, <2>3 DEF FrameInv
  <2> QED BY <2>1, <2>6, <2>7, <2>8, StepOfOne
<1> QED BY <1>1, <1>2, <1>3, <1>4, <1>5, <1>6, <1>7, <1>8, <1>9, <1>10, <1>11, <1>12,
           <1>13, <1>14 DEF ThreadStep

(* The steps of the main thread.  Those that create a thread create it where *)
(* the loop has not been, next to what the others keep.                      *)
LEMMA CreatedPrefix ==
    ASSUME TypeOK, PrefixInv, idx \in T, mpc \in {"create", "add"}, tainted' = tainted,
           op' = op, buf' = buf, conn' = conn, part' = part,
           mpc' = "create", idx' = idx + 1,
           NEW size \in Int, NEW start \in Nat,
           w' = [w EXCEPT ![idx] = NewThread(size, start)],
           start + size = Start(idx) + Size(idx),
           size = IF op = "start" THEN Size(idx) ELSE Size(idx) - Held(part[idx])
    PROVE  PrefixInv'
<1>f. FrameInv
  BY DEF PrefixInv
<1>1. DOMAIN w = T /\ idx \in Nat /\ T \subseteq Nat
  BY PartTypes DEF TypeOK, DataTypeOK
<1>2. w[idx].pc = "none"
  <2>1. idx >= idx
    BY <1>1
  <2> QED BY <1>f, <2>1 DEF FrameInv
<1>3. conn[idx].left = 0
  BY <1>f, <1>2 DEF FrameInv
<1>4. w'[idx] = NewThread(size, start) /\ \A u \in T \ {idx} : w'[u] = w[u]
  BY <1>1
<1>5. /\ w'[idx].pc = "connect" /\ w'[idx].size = size /\ w'[idx].start = start
      /\ w'[idx].all = 0
  BY <1>4 DEF NewThread
<1>6. FrameInv'
  <2>1. \A u \in T : u >= idx + 1 => u # idx /\ u >= idx
    BY <1>1
  <2>2. \A u \in T : u >= idx' => w'[u].pc = "none"
    BY <1>f, <1>4, <2>1 DEF FrameInv
  <2>3. \A u \in T : w'[u].pc \in {"none", "connect", "format", "done"} => conn'[u].left = 0
    BY <1>f, <1>3, <1>4 DEF FrameInv
  <2> QED BY <2>2, <2>3 DEF FrameInv
<1>7. ASSUME ~tainted', NEW u \in T
      PROVE  (PartIsPrefix(u) /\ AskInv(u) /\ BufInv(u) /\ StreamInv(u))'
  <2>1. ThreadInv(u) /\ \A v \in T : BufInv(v)
    BY <1>7 DEF PrefixInv, ThreadInv
  <2>2. BufInv(u)'
    BY <1>4, <1>5, <2>1, BufferUntouched
  <2>3. CASE u # idx
    BY <1>4, <2>1, <2>2, <2>3, Untouched DEF ThreadInv
  <2>4. CASE u = idx
    <3>1. PartIsPrefix(u)'
      BY <2>1 DEF ThreadInv, PartIsPrefix, Size, Held
    <3>2. part[u].mem = 0
      BY <1>2, <2>1, <2>4 DEF ThreadInv, AskInv
    <3>3. AskInv(u)'
      BY <1>5, <2>4, <3>2 DEF AskInv, Requesting, Receiving, Size, Start, Held
    <3>4. StreamInv(u)'
      BY <1>5, <2>4 DEF StreamInv, Receiving
    <3> QED BY <2>2, <3>1, <3>3, <3>4
  <2> QED BY <2>3, <2>4
<1> QED BY <1>6, <1>7 DEF PrefixInv

(* A step after which there are no threads, and which leaves the parts.      *)
LEMMA NoThreadsPrefix ==
    ASSUME TypeOK, PrefixInv, tainted' = tainted, op' = op, part' = part, conn' = conn,
           \A u \in T : w[u].pc \in {"none", "done"} /\ w'[u].pc = "none",
           mpc' # "add"
    PROVE  PrefixInv'
<1>1. FrameInv'
  BY DEF PrefixInv, FrameInv
<1>2. ASSUME ~tainted', NEW u \in T
      PROVE  (PartIsPrefix(u) /\ AskInv(u) /\ BufInv(u) /\ StreamInv(u))'
  <2>1. PartIsPrefix(u) /\ AskInv(u)
    BY <1>2 DEF PrefixInv
  <2>2. PartIsPrefix(u)'
    BY <2>1 DEF PartIsPrefix, Size, Held
  <2>3. AskInv(u)'
    BY <2>1 DEF AskInv, Requesting, Receiving
  <2>4. BufInv(u)' /\ StreamInv(u)'
    BY DEF BufInv, StreamInv, Receiving
  <2> QED BY <2>2, <2>3, <2>4
<1> QED BY <1>1, <1>2 DEF PrefixInv

LEMMA MainStepPrefix ==
    ASSUME TypeOK, PrefixInv, MainStep
    PROVE  PrefixInv'
<1>f. FrameInv
  BY DEF PrefixInv
<1>d. DOMAIN w = T /\ DOMAIN part = T /\ idx \in 0 .. Threads /\ op \in Ops
  BY DEF TypeOK, DataTypeOK, MainTypeOK
<1>1. CASE CreateThread
  <2>1. idx \in T
    BY <1>1, <1>d, PartTypes DEF CreateThread
  <2>2. Size(idx) \in Int /\ Start(idx) \in Nat
    BY <2>1, PartTypes
  <2>3. /\ tainted' = tainted /\ op' = op /\ buf' = buf /\ conn' = conn /\ part' = part
        /\ mpc = "create" /\ mpc' = "create" /\ idx' = idx + 1 /\ op = "start"
        /\ w' = [w EXCEPT ![idx] = NewThread(Size(idx), Start(idx))]
    BY <1>1 DEF CreateThread, MainFrame
  <2> QED BY <2>1, <2>2, <2>3, CreatedPrefix
<1>2. CASE MeasurePart
  <2>1. /\ w' = w /\ conn' = conn /\ part' = part /\ buf' = buf /\ tainted' = tainted
        /\ op' = op /\ idx' = idx /\ mpc = "create" /\ mpc' = "add" /\ op = "continue"
    BY <1>2 DEF MeasurePart, MainFrame
  <2>2. FrameInv'
    BY <1>f, <2>1 DEF FrameInv
  <2>3. ASSUME ~tainted', NEW u \in T
        PROVE  (PartIsPrefix(u) /\ AskInv(u) /\ BufInv(u) /\ StreamInv(u))'
    <3>1. ThreadInv(u) /\ BufInv(u)
      BY <2>1, <2>3 DEF PrefixInv, ThreadInv
    <3>2. ThreadInv(u)'
      BY <2>1, <3>1, Untouched
    <3>3. BufInv(u)'
      BY <2>1, <3>1 DEF BufInv, BufferBusy
    <3> QED BY <3>2, <3>3 DEF ThreadInv
  <2> QED BY <2>2, <2>3 DEF PrefixInv
<1>3. CASE ContinuePart
  <2>1. idx \in T /\ op = "continue"
    BY <1>3, <1>f DEF ContinuePart, FrameInv, TypeOK, MainTypeOK
  <2>2. /\ tainted' = tainted /\ op' = op /\ buf' = buf /\ conn' = conn /\ part' = part
        /\ mpc = "add" /\ mpc' = "create" /\ idx' = idx + 1
    BY <1>3 DEF ContinuePart, MainFrame
  <2>3. /\ Size(idx) \in Nat /\ Start(idx) \in Nat
        /\ part[idx].disk \in Nat /\ part[idx].mem \in Nat
    BY <2>1, Components
  <2>4. Held(part[idx]) \in Nat
    BY <2>3 DEF Held
  <2>5. CASE Held(part[idx]) = Size(idx)
    <3>1. w' = w
      BY <1>3, <2>5 DEF ContinuePart
    <3>2. FrameInv'
      <4>1. idx \in Nat /\ T \subseteq Nat
        BY <2>1, PartTypes
      <4>2. \A u \in T : u >= idx + 1 => u >= idx
        BY <4>1
      <4> QED BY <1>f, <2>2, <3>1, <4>2 DEF FrameInv
    <3>3. ASSUME ~tainted', NEW u \in T
          PROVE  (PartIsPrefix(u) /\ AskInv(u) /\ BufInv(u) /\ StreamInv(u))'
      <4>1. ThreadInv(u) /\ BufInv(u)
        BY <2>2, <3>3 DEF PrefixInv, ThreadInv
      <4>2. ThreadInv(u)'
        BY <2>2, <3>1, <4>1, Untouched
      <4>3. BufInv(u)'
        BY <2>2, <3>1, <4>1 DEF BufInv, BufferBusy
      <4> QED BY <4>2, <4>3 DEF ThreadInv
    <3> QED BY <3>2, <3>3 DEF PrefixInv
  <2>6. CASE Held(part[idx]) # Size(idx)
    <3> DEFINE size == Size(idx) - Held(part[idx])
               start == Start(idx) + Held(part[idx])
    <3>1. w' = [w EXCEPT ![idx] = NewThread(size, start)]
      BY <1>3, <2>6 DEF ContinuePart
    <3>2. size \in Int /\ start \in Nat /\ start + size = Start(idx) + Size(idx)
      BY <2>3, <2>4
    <3>3. size = IF op = "start" THEN Size(idx) ELSE Size(idx) - Held(part[idx])
      BY <2>1
    <3> HIDE DEF size, start
    <3> QED BY <2>1, <2>2, <3>1, <3>2, <3>3, CreatedPrefix
  <2> QED BY <2>5, <2>6
<1>4. CASE MeasureMissing
  BY <1>4, DiePrefix DEF MeasureMissing
<1>5. CASE Join
  <2>1. /\ tainted' = tainted /\ op' = op /\ part' = part /\ conn' = conn
        /\ mpc' = "merge" /\ w' = [u \in T |-> NoThread]
        /\ \A u \in T : w[u].pc \in {"none", "done"}
    BY <1>5 DEF Join, MainFrame
  <2>2. \A u \in T : w'[u].pc = "none"
    BY <2>1 DEF NoThread
  <2> QED BY <2>1, <2>2, NoThreadsPrefix
<1>6. CASE MergePart \/ MergeEmpty \/ MergeEnd
  <2>1. /\ tainted' = tainted /\ op' = op /\ part' = part /\ conn' = conn /\ w' = w
        /\ mpc = "merge" /\ mpc' # "add"
    BY <1>6 DEF MergePart, MergeEmpty, MergeEnd, MainFrame
  <2>2. \A u \in T : w[u].pc = "none"
    BY <1>f, <2>1 DEF FrameInv
  <2> QED BY <2>1, <2>2, NoThreadsPrefix
<1>7. CASE MergeMissing
  BY <1>7, DiePrefix DEF MergeMissing
<1>8. CASE Cleanup
  <2>1. /\ tainted' = tainted /\ op' = op /\ conn' = conn /\ w' = w
        /\ mpc = "cleanup" /\ mpc' = "done"
    BY <1>8 DEF Cleanup, MainFrame
  <2>2. \A u \in T : w[u].pc = "none"
    BY <1>f, <2>1 DEF FrameInv
  <2>3. CASE ~aborted
    <3>1. part' = part
      BY <1>8, <2>3 DEF Cleanup
    <3> QED BY <2>1, <2>2, <3>1, NoThreadsPrefix
  <2>4. CASE aborted
    <3>1. part' = [u \in T |-> NoPart]
      BY <1>8, <2>4 DEF Cleanup
    <3>2. FrameInv'
      BY <1>f, <2>1, <2>2 DEF FrameInv
    <3>3. ASSUME NEW u \in T
          PROVE  (PartIsPrefix(u) /\ AskInv(u) /\ BufInv(u) /\ StreamInv(u))'
      <4>1. w'[u].pc = "none"
        BY <2>1, <2>2
      <4>2. part'[u].disk = 0 /\ part'[u].mem = 0 /\ part'[u].clean = 0
        BY <3>1 DEF NoPart
      <4>3. Size(u) \in Nat
        BY PartTypes
      <4>4. PartIsPrefix(u)'
        BY <4>2, <4>3 DEF PartIsPrefix, Held, Size
      <4>5. AskInv(u)' /\ BufInv(u)' /\ StreamInv(u)'
        BY <4>1, <4>2 DEF AskInv, BufInv, StreamInv, Requesting, Receiving
      <4> QED BY <4>4, <4>5
    <3> QED BY <3>2, <3>3 DEF PrefixInv
  <2> QED BY <2>3, <2>4
<1> QED BY <1>1, <1>2, <1>3, <1>4, <1>5, <1>6, <1>7, <1>8 DEF MainStep

(* A new process finds no threads and writes nothing.                        *)
LEMMA SpawnPrefix ==
    ASSUME TypeOK, PrefixInv, NEW o \in Ops, Spawn(o)
    PROVE  PrefixInv'
<1>1. /\ w' = w /\ conn' = conn /\ part' = part /\ tainted' = tainted
      /\ mpc \in {"none", "done", "dead"} /\ mpc' = "create"
  BY DEF Spawn, Ended
<1>2. \A u \in T : w[u].pc = "none"
  BY <1>1 DEF PrefixInv, FrameInv
<1>3. FrameInv'
  BY <1>1, <1>2 DEF PrefixInv, FrameInv
<1>4. ASSUME ~tainted', NEW u \in T
      PROVE  (PartIsPrefix(u) /\ AskInv(u) /\ BufInv(u) /\ StreamInv(u))'
  <2>1. PartIsPrefix(u) /\ part[u].mem = 0
    BY <1>1, <1>2, <1>4 DEF PrefixInv, AskInv
  <2>2. PartIsPrefix(u)'
    BY <1>1, <2>1 DEF PartIsPrefix, Size, Held
  <2>3. w'[u].pc = "none" /\ part'[u].mem = 0
    BY <1>1, <1>2, <2>1
  <2> QED BY <2>2, <2>3 DEF AskInv, BufInv, StreamInv, Requesting, Receiving
<1> QED BY <1>3, <1>4 DEF PrefixInv

(* A server that dies takes back what is in flight and adds nothing to it.   *)
LEMMA PeerDiesPrefix ==
    ASSUME TypeOK, PrefixInv, NEW k \in {0, 1}, PeerDies(k)
    PROVE  PrefixInv'
<1>1. /\ w' = w /\ part' = part /\ tainted' = tainted /\ buf' = buf
      /\ op' = op /\ mpc' = mpc /\ idx' = idx
  BY DEF PeerDies, mainVars, fileVars
<1>2. ASSUME NEW u \in T
      PROVE  /\ conn'[u].pos = conn[u].pos /\ conn'[u].left <= conn[u].left
             /\ conn[u].left \in Nat /\ conn'[u].left \in Nat
  <2>1. conn'[u] \in Connection /\ conn[u].left \in Nat
    BY PeerDiesConnections, Components
  <2> QED BY <2>1, PeerDiesConnections DEF Connection
<1>3. \A u \in T : conn[u].left = 0 => conn'[u].left = 0
  BY <1>2
<1>4. FrameInv'
  BY <1>1, <1>3 DEF PrefixInv, FrameInv
<1>5. ASSUME ~tainted', NEW u \in T
      PROVE  (PartIsPrefix(u) /\ AskInv(u) /\ BufInv(u) /\ StreamInv(u))'
  <2>1. PartIsPrefix(u) /\ AskInv(u) /\ BufInv(u) /\ StreamInv(u)
    BY <1>1, <1>5 DEF PrefixInv
  <2>2. PartIsPrefix(u)' /\ AskInv(u)'
    BY <1>1, <2>1 DEF PartIsPrefix, AskInv, Size, Start, Held
  <2>3. BufInv(u)'
    BY <1>1, <2>1 DEF BufInv, BufferBusy
  <2>4. StreamInv(u)'
    <3>1. Remaining(u)' = Remaining(u) /\ Remaining(u) \in Int
      BY <1>1, Components DEF Remaining
    <3>2. /\ conn'[u].left > 0 => conn[u].left > 0
          /\ conn[u].left <= Remaining(u) => conn'[u].left <= Remaining(u)
      BY <1>2, <3>1
    <3>3. conn[u].left = 0 => conn'[u].left = 0
      BY <1>3
    <3> QED BY <1>1, <1>2, <2>1, <3>1, <3>2, <3>3 DEF StreamInv
  <2> QED BY <2>2, <2>3, <2>4
<1> QED BY <1>4, <1>5 DEF PrefixInv

LEMMA InitPrefix == Init => PrefixInv
<1> SUFFICES ASSUME Init PROVE PrefixInv
  OBVIOUS
<1>1. FrameInv
  BY DEF Init, FrameInv, NoThread, NoConn
<1>2. ASSUME NEW u \in T
      PROVE  PartIsPrefix(u) /\ AskInv(u) /\ BufInv(u) /\ StreamInv(u)
  <2>1. w[u].pc = "none" /\ part[u].disk = 0 /\ part[u].mem = 0 /\ part[u].clean = 0
    BY DEF Init, NoThread, NoPart
  <2>2. PartIsPrefix(u)
    BY <2>1, PartTypes DEF PartIsPrefix, Held
  <2> QED BY <2>1, <2>2 DEF AskInv, BufInv, StreamInv, Requesting, Receiving
<1> QED BY <1>1, <1>2 DEF PrefixInv

LEMMA PrefixInductive == TypeOK /\ PrefixInv /\ [Next]_vars => PrefixInv'
<1> SUFFICES ASSUME TypeOK, PrefixInv, [Next]_vars PROVE PrefixInv'
  OBVIOUS
<1>1. CASE Next
  BY <1>1, SpawnPrefix, MainStepPrefix, ThreadStepPrefix, DiePrefix, PeerDiesPrefix
     DEF Next, Kill
<1>2. CASE UNCHANGED vars
  <2>1. /\ w' = w /\ part' = part /\ conn' = conn /\ tainted' = tainted /\ buf' = buf
        /\ op' = op /\ mpc' = mpc /\ idx' = idx
    BY <1>2 DEF vars
  <2>2. FrameInv'
    BY <2>1 DEF PrefixInv, FrameInv
  <2>3. ASSUME ~tainted', NEW u \in T
        PROVE  (PartIsPrefix(u) /\ AskInv(u) /\ BufInv(u) /\ StreamInv(u))'
    <3>1. ThreadInv(u) /\ BufInv(u)
      BY <2>1, <2>3 DEF PrefixInv, ThreadInv
    <3>2. ThreadInv(u)'
      BY <2>1, <3>1, Untouched
    <3>3. BufInv(u)'
      BY <2>1, <3>1 DEF BufInv, BufferBusy
    <3> QED BY <3>2, <3>3 DEF ThreadInv
  <2> QED BY <2>2, <2>3 DEF PrefixInv
<1> QED BY <1>1, <1>2

(* PrefixInv holds in every state: who asks for what, who owns the request   *)
(* buffer and what is in flight agree with the part files.                   *)
THEOREM PrefixInvCorrect == Spec => []PrefixInv
<1>1. Init => TypeOK /\ PrefixInv
  BY InitType, InitPrefix
<1>2. TypeOK /\ PrefixInv /\ [Next]_vars => TypeOK' /\ PrefixInv'
  BY TypeInductive, PrefixInductive
<1> QED BY <1>1, <1>2, PTL DEF Spec

(* Over kills, restarts and dying servers every part file stays a prefix of  *)
(* its part of the file, unless requests met in the shared buffer or a failed*)
(* recv was written.                                                         *)
THEOREM PrefixCorrect == Spec => []PartsArePrefixes
<1>1. PrefixInv => PartsArePrefixes
  BY DEF PrefixInv, PartsArePrefixes
<1> QED BY <1>1, PrefixInvCorrect, PTL

-------------------------------------------------------------------------------
(* The progress counter: RateInv is inductive *)

(* What is counted of a part is a number, no greater than what its file holds.*)
LEMMA CountedType ==
    ASSUME TypeOK, NEW t \in T, CountInv(t)
    PROVE  /\ Counted(t) \in Nat /\ Counted(t) <= Held(part[t]) /\ Held(part[t]) \in Nat
           /\ Added(t) \in Nat
<1>1. w[t].got \in Nat /\ w[t].all \in Nat /\ Held(part[t]) \in Nat
  <2>1. w[t] \in Thread /\ part[t] \in PartFile
    BY DEF TypeOK, DataTypeOK
  <2> QED BY <2>1, HeldType DEF Thread
<1>2. w[t].got <= w[t].all /\ w[t].all <= Held(part[t])
  BY DEF CountInv
<1> QED BY <1>1, <1>2 DEF Counted, Added

(* The sum changes by what one part changes by. *)
LEMMA CountedOfOne ==
    ASSUME TypeOK, TypeOK', NEW t \in T,
           \A u \in T : CountInv(u) /\ CountInv(u)',
           \A u \in T \ {t} : Counted(u)' = Counted(u)
    PROVE  /\ CountedInAll \in Nat
           /\ CountedInAll' = CountedInAll + (Counted(t)' - Counted(t))
<1> DEFINE f == [u \in T |-> Counted(u)]
           g == [u \in T |-> Counted(u)']
<1>1. T = 0 .. Threads - 1 /\ Threads \in Nat
  BY ConstantsAssumption DEF T, Parts
<1>2. \A u \in T : Counted(u) \in Nat /\ Counted(u)' \in Nat
  <2>1. \A u \in T : Counted(u) \in Nat
    BY CountedType
  <2>2. ASSUME NEW u \in T PROVE Counted(u)' \in Nat
    <3>1. w'[u].got \in Nat /\ w'[u].all \in Nat /\ Held(part'[u]) \in Nat
      <4>1. w'[u] \in Thread /\ part'[u] \in PartFile
        BY DEF TypeOK, DataTypeOK
      <4> QED BY <4>1, HeldType DEF Thread
    <3>2. w'[u].got <= w'[u].all /\ w'[u].all <= Held(part'[u])
      BY DEF CountInv
    <3> QED BY <3>1, <3>2 DEF Counted, Added
  <2> QED BY <2>1, <2>2
<1>3. \A u \in T : /\ f[u] \in Nat /\ g[u] \in Nat /\ (u # t => g[u] = f[u])
                   /\ f[u] = Counted(u) /\ g[u] = Counted(u)'
  BY <1>2
<1>4. CountedInAll = Total(f, Threads) /\ CountedInAll' = Total(g, Threads)
  BY DEF CountedInAll
<1> HIDE DEF f, g
<1>5. Total(f, Threads) \in Nat
  BY <1>1, <1>3, TotalType
<1>6. Total(g, Threads) = Total(f, Threads) + (g[t] - f[t])
  <2>1. \A i \in 0 .. Threads - 1 : f[i] \in Int /\ g[i] \in Int /\ (i # t => g[i] = f[i])
    BY <1>1, <1>3
  <2> QED BY <1>1, <2>1, TotalStep
<1> QED BY <1>3, <1>4, <1>5, <1>6

(* What is counted was written.                                              *)
LEMMA CountedAtMost ==
    ASSUME TypeOK, \A u \in T : CountInv(u)
    PROVE  CountedInAll \in Nat /\ HeldInAll \in Nat /\ CountedInAll <= HeldInAll
<1> DEFINE f == [u \in T |-> Counted(u)]
           g == [u \in T |-> Held(part[u])]
<1>1. T = 0 .. Threads - 1 /\ Threads \in Nat
  BY ConstantsAssumption DEF T, Parts
<1>2. \A u \in T : f[u] \in Nat /\ g[u] \in Nat /\ f[u] <= g[u]
  BY CountedType
<1>3. CountedInAll = Total(f, Threads) /\ HeldInAll = Total(g, Threads)
  BY DEF CountedInAll, HeldInAll
<1> HIDE DEF f, g
<1>4. Total(f, Threads) \in Nat /\ Total(g, Threads) \in Nat
  BY <1>1, <1>2, TotalType
<1>5. \A i \in 0 .. Threads - 1 : f[i] \in Int /\ g[i] \in Int /\ f[i] <= g[i]
  BY <1>1, <1>2
<1>6. Total(f, Threads) <= Total(g, Threads)
  BY <1>1, <1>5, TotalMonotone
<1> QED BY <1>3, <1>4, <1>6

(* A step of thread t: it either leaves rate and what is counted alone, or   *)
(* stores what it added up.  To store it goes only with the lock.            *)
LEMMA CountStep ==
    ASSUME TypeOK, TypeOK', PrefixInv, RateInv, NEW t \in T, w[t].pc # "none",
           UNCHANGED <<mpc, op, idx, mld>>,
           \A u \in T \ {t} : w'[u] = w[u] /\ part'[u] = part[u],
           CountInv(t)', NEW d \in Nat, Counted(t)' = Counted(t) + d,
           \/ rate' = rate /\ d = 0
           \/ w[t].pc = "store" /\ rate' = w[t].ld + d,
           lock' = lock \/ lock = Unlocked \/ w[t].pc = "store",
           w'[t].pc = "store" => lock' = t /\ w'[t].ld = rate' /\ lock = Unlocked /\ rate' = rate
    PROVE  RateInv'
<1>1. mpc \in {"create", "add"}
  BY DEF PrefixInv, FrameInv
<1>2. \A u \in T : CountInv(u) /\ CountInv(u)'
  BY DEF RateInv, CountInv, Held
<1>3. \A u \in T \ {t} : Counted(u)' = Counted(u)
  BY DEF Counted, Added, Held
<1>4. Counted(t) \in Nat
  BY <1>2, CountedType
<1>5. CountedInAll \in Nat /\ CountedInAll' = CountedInAll + d
  BY <1>2, <1>3, <1>4, CountedOfOne
<1>6. /\ rate \in Nat /\ mld \in Nat /\ Unlocked \notin T
      /\ \A u \in T : w[u].ld \in Nat
  BY PartTypes DEF TypeOK, SharedTypeOK, MainTypeOK, DataTypeOK, Thread
<1>7. /\ rate <= CountedInAll
      /\ mpc = "add" => mld <= CountedInAll /\ op = "continue"
      /\ \A u \in T : w[u].pc = "store" => w[u].ld <= CountedInAll
  BY <1>1 DEF RateInv, AddInv
<1>8. rate' <= CountedInAll' /\ rate' \in Nat
  BY <1>5, <1>6, <1>7
<1>9. AddInv'
  <2>1. mpc = "add" => mld' <= CountedInAll' /\ op' = "continue"
    BY <1>5, <1>6, <1>7
  <2>2. ASSUME NEW u \in T, w'[u].pc = "store" PROVE w'[u].ld <= CountedInAll'
    <3>1. CASE u = t
      BY <1>8, <2>2, <3>1
    <3>2. CASE u # t
      BY <1>5, <1>6, <1>7, <2>2, <3>2
    <3> QED BY <3>1, <3>2
  <2> QED BY <1>8, <2>1, <2>2 DEF AddInv
<1>10. ExactInv'
  <2>1. SUFFICES ASSUME mpc = "create", op = "start"
                 PROVE  /\ rate' = CountedInAll'
                        /\ \A u \in T : w'[u].pc = "store" => lock' = u /\ w'[u].ld = rate'
    BY DEF ExactInv
  <2>2. /\ rate = CountedInAll
        /\ \A u \in T : w[u].pc = "store" => lock = u /\ w[u].ld = rate
    BY <2>1 DEF RateInv, ExactInv
  <2>3. rate' = CountedInAll'
    BY <1>5, <1>6, <2>2
  <2>4. ASSUME NEW u \in T, w'[u].pc = "store" PROVE lock' = u /\ w'[u].ld = rate'
    <3>1. CASE u = t
      BY <2>4, <3>1
    <3>2. CASE u # t
      BY <1>6, <2>2, <2>4, <3>2
    <3> QED BY <3>1, <3>2
  <2> QED BY <2>3, <2>4
<1> QED BY <1>1, <1>2, <1>9, <1>10 DEF RateInv

(* A step of a thread that received nothing and stores nothing.              *)
LEMMA QuietStep ==
    ASSUME TypeOK, TypeOK', PrefixInv, RateInv, NEW t \in T,
           w[t].pc \notin {"none", "lock", "store"},
           NEW pc \in Workers \ {"lock", "store"}, Goto(t, pc),
           UNCHANGED <<mpc, op, idx, mld, rate, lock>>,
           \/ pc \in Requesting /\ w[t].pc \in Requesting /\ part' = part
           \/ /\ pc \notin Requesting \cup {"none"}
              /\ \A u \in T \ {t} : part'[u] = part[u]
              /\ Held(part'[t]) = Held(part[t])
    PROVE  RateInv'
<1>1. /\ w'[t].pc = pc /\ w'[t].all = w[t].all /\ w'[t].got = w[t].got
      /\ \A u \in T \ {t} : w'[u] = w[u]
  <2>1. w \in [T -> Thread] /\ w[t] \in Thread
    BY DEF TypeOK, DataTypeOK
  <2> QED BY <2>1 DEF Goto, Thread
<1>2. Held(part'[t]) = Held(part[t]) /\ \A u \in T \ {t} : part'[u] = part[u]
  OBVIOUS
<1>3. CountInv(t) /\ Counted(t) \in Nat
  BY CountedType DEF RateInv
<1>4. CountInv(t)'
  <2>1. w'[t].got = 0 /\ w'[t].got <= w'[t].all /\ w'[t].all <= Held(part'[t])
    BY <1>1, <1>2, <1>3 DEF CountInv
  <2>2. w'[t].pc \in {"none"} \cup Requesting => w'[t].all = 0
    BY <1>1, <1>3 DEF CountInv
  <2> QED BY <2>1, <2>2 DEF CountInv
<1>5. Counted(t)' = Counted(t) + 0
  <2>1. Counted(t)' = Counted(t)
    BY <1>1, <1>2 DEF Counted, Added
  <2> QED BY <1>3, <2>1
<1> QED BY <1>1, <1>2, <1>4, <1>5, CountStep

LEMMA ThreadStepRate ==
    ASSUME TypeOK, TypeOK', PrefixInv, RateInv, NEW t \in T, ThreadStep(t), ~Die
    PROVE  RateInv'
<1>0. /\ w \in [T -> Thread] /\ part \in [T -> PartFile] /\ w[t] \in Thread
      /\ part[t] \in PartFile /\ Held(part[t]) \in Nat
  BY HeldType DEF TypeOK, DataTypeOK
<1>i. CountInv(t) /\ Counted(t) \in Nat
  BY CountedType DEF RateInv
<1>n. w[t].got \in Nat /\ w[t].all \in Nat /\ w[t].ld \in Nat
  BY <1>0 DEF Thread
<1>1. CASE Connect(t) \/ FormatSize(t) \/ FormatStart(t) \/ Send(t)
  <2>1. PICK pc \in {"format", "format2", "send", "response"} : Goto(t, pc)
    BY <1>1 DEF Connect, FormatSize, FormatStart, Send
  <2>2. /\ w[t].pc \in {"connect", "format", "format2", "send"}
        /\ UNCHANGED <<mpc, op, idx, mld, rate, lock, part>>
    BY <1>1 DEF Connect, FormatSize, FormatStart, Send, ThreadFrame, mainVars
  <2> QED BY <2>1, <2>2, QuietStep DEF Workers, Requesting
<1>2. CASE NoResponse(t) \/ RecvEnd(t)
  <2>1. PICK pc \in {"done", "spin"} : Goto(t, pc)
    BY <1>2 DEF NoResponse, RecvEnd
  <2>2. /\ w[t].pc \in {"response", "recv"}
        /\ UNCHANGED <<mpc, op, idx, mld, rate, lock, part>>
    BY <1>2 DEF NoResponse, RecvEnd, ThreadFrame, mainVars
  <2> QED BY <2>1, <2>2, QuietStep DEF Workers, Requesting
<1>3. CASE Finish(t)
  <2>1. Held(part'[t]) = Held(part[t]) /\ \A u \in T \ {t} : part'[u] = part[u]
    <3>1. part' = [part EXCEPT ![t].disk = Held(part[t]), ![t].mem = 0]
      BY <1>3 DEF Finish
    <3>2. part'[t].disk = Held(part[t]) /\ part'[t].mem = 0
      BY <1>0, <3>1 DEF PartFile
    <3>3. Held(part'[t]) = Held(part[t])
      BY <1>0, <3>2 DEF Held
    <3> QED BY <1>0, <3>1, <3>3
  <2> QED BY <1>3, <2>1, QuietStep DEF Finish, ThreadFrame, mainVars, Workers, Requesting
<1>4. CASE Response(t)
  <2>1. /\ w[t].pc = "response" /\ Goto(t, "recv")
        /\ part' = [part EXCEPT ![t] = Opened(part[t])]
        /\ UNCHANGED <<mpc, op, idx, mld, rate, lock>>
    BY <1>4 DEF Response, ThreadFrame, mainVars
  <2>2. /\ w'[t].pc = "recv" /\ w'[t].all = w[t].all /\ w'[t].got = w[t].got
        /\ \A u \in T \ {t} : w'[u] = w[u] /\ part'[u] = part[u]
    BY <1>0, <2>1 DEF Goto, Thread
  <2>3. op # "start" => Held(part'[t]) = Held(part[t])
    <3>1. part'[t] = Opened(part[t])
      BY <1>0, <2>1
    <3> QED BY <1>0, <3>1 DEF Opened, Held, PartFile
  <2>4. w[t].all = 0 /\ w[t].got = 0
    BY <1>i, <2>1 DEF CountInv, Requesting
  <2>5. Held(part'[t]) \in Nat
    BY HeldType DEF TypeOK, DataTypeOK
  <2>6. CountInv(t)'
    <3>1. w'[t].got = 0 /\ w'[t].all = 0 /\ 0 <= Held(part'[t])
      BY <2>2, <2>4, <2>5
    <3> QED BY <3>1 DEF CountInv
  <2>7. Counted(t)' = Counted(t) + 0
    <3>1. Counted(t)' = Counted(t)
      BY <2>1, <2>2, <2>3 DEF Counted, Added
    <3> QED BY <1>i, <3>1
  <2> QED BY <2>1, <2>2, <2>6, <2>7, CountStep
<1>5. CASE Recv(t) \/ RecvError(t)
  <2>1. PICK n \in Nat :
          /\ w' = [w EXCEPT ![t].pc = "lock", ![t].all = @ + n, ![t].got = n]
          /\ \E right \in BOOLEAN, f \in 0 .. part[t].mem + n :
                part' = [part EXCEPT ![t] = Appended(part[t], n, right, f)]
    <3>1. CASE Recv(t)
      <4>1. PICK n \in 1 .. Lesser(Block, conn[t].left) :
              /\ \E f \in 0 .. part[t].mem + n :
                   part' = [part EXCEPT ![t] =
                              Appended(part[t], n, conn[t].pos = Start(t) + Held(part[t]), f)]
              /\ w' = [w EXCEPT ![t].pc = "lock", ![t].all = @ + n, ![t].got = n]
        BY <3>1 DEF Recv
      <4>2. n \in Nat
        <5>1. conn[t].left \in Nat
          BY Components
        <5> QED BY <5>1, ConstantsAssumption DEF Lesser
      <4>3. (conn[t].pos = Start(t) + Held(part[t])) \in BOOLEAN
        OBVIOUS
      <4> QED BY <4>1, <4>2, <4>3
    <3>2. CASE RecvError(t)
      <4>1. PICK n \in 1 .. Block :
              /\ part' = [part EXCEPT ![t] = Appended(part[t], n, FALSE, 0)]
              /\ w' = [w EXCEPT ![t].pc = "lock", ![t].all = @ + n, ![t].got = n]
        BY <3>2 DEF RecvError
      <4>2. n \in Nat /\ 0 \in 0 .. part[t].mem + n
        BY <1>0, ConstantsAssumption DEF PartFile
      <4> QED BY <4>1, <4>2
    <3> QED BY <1>5, <3>1, <3>2
  <2>2. PICK right \in BOOLEAN, f \in 0 .. part[t].mem + n :
          part' = [part EXCEPT ![t] = Appended(part[t], n, right, f)]
    BY <2>1
  <2>3. Held(Appended(part[t], n, right, f)) = Held(part[t]) + n
    BY <1>0, <2>2, AppendedIs
  <2>4. Held(part'[t]) = Held(part[t]) + n /\ \A u \in T \ {t} : part'[u] = part[u]
    BY <1>0, <2>2, <2>3
  <2>5. /\ w'[t].pc = "lock" /\ w'[t].all = w[t].all + n /\ w'[t].got = n
        /\ \A u \in T \ {t} : w'[u] = w[u]
    <3> DEFINE new == [w[t] EXCEPT !.pc = "lock", !.all = @ + n, !.got = n]
    <3>1. w' = [w EXCEPT ![t] = new]
      BY <2>1
    <3>2. new.pc = "lock" /\ new.all = w[t].all + n /\ new.got = n
      BY <1>0 DEF Thread
    <3> HIDE DEF new
    <3> QED BY <1>0, <3>1, <3>2
  <2>6. /\ w[t].pc = "recv" /\ UNCHANGED <<mpc, op, idx, mld, rate, lock>>
    BY <1>5 DEF Recv, RecvError, ThreadFrame, mainVars
  <2>7. w[t].got = 0 /\ w[t].all <= Held(part[t])
    BY <1>i, <2>6 DEF CountInv
  <2>8. CountInv(t)'
    <3>1. w'[t].got <= w'[t].all /\ w'[t].all <= Held(part'[t])
      BY <1>0, <1>n, <2>4, <2>5, <2>7
    <3> QED BY <2>5, <3>1 DEF CountInv, Requesting
  <2>9. Counted(t)' = Counted(t) + 0
    <3>1. Added(t)' = Added(t) /\ Held(part'[t]) - w'[t].got = Held(part[t]) - w[t].got
      BY <1>0, <1>n, <2>4, <2>5, <2>7 DEF Added
    <3>2. Counted(t)' = Counted(t)
      BY <2>6, <3>1 DEF Counted
    <3> QED BY <1>i, <3>2
  <2> QED BY <2>4, <2>5, <2>6, <2>8, <2>9, CountStep
<1>6. CASE LockRate(t)
  <2>1. /\ w[t].pc = "lock" /\ lock = Unlocked /\ lock' = t
        /\ w' = [w EXCEPT ![t].pc = "store", ![t].ld = rate]
        /\ UNCHANGED <<mpc, op, idx, mld, rate, part>>
    BY <1>6 DEF LockRate, ThreadFrame, mainVars
  <2>2. /\ w'[t].pc = "store" /\ w'[t].ld = rate /\ w'[t].all = w[t].all /\ w'[t].got = w[t].got
        /\ \A u \in T \ {t} : w'[u] = w[u]
    BY <1>0, <2>1 DEF Thread
  <2>3. CountInv(t)'
    BY <1>i, <2>1, <2>2 DEF CountInv, Requesting, Held
  <2>4. Counted(t)' = Counted(t) + 0
    <3>1. Counted(t)' = Counted(t)
      BY <2>1, <2>2 DEF Counted, Added, Held
    <3> QED BY <1>i, <3>1
  <2> QED BY <2>1, <2>2, <2>3, <2>4, CountStep
<1>7. CASE StoreRate(t)
  <2> DEFINE new == [w[t] EXCEPT !.pc = "recv", !.got = 0, !.ld = 0]
  <2>1. /\ w[t].pc = "store" /\ rate' = w[t].ld + w[t].got
        /\ w' = [w EXCEPT ![t] = new]
        /\ UNCHANGED <<mpc, op, idx, mld, part>>
    BY <1>7 DEF StoreRate, ThreadFrame, mainVars
  <2>2. new.pc = "recv" /\ new.all = w[t].all /\ new.got = 0
    BY <1>0 DEF Thread
  <2> HIDE DEF new
  <2>3. w'[t] = new /\ \A u \in T \ {t} : w'[u] = w[u]
    BY <1>0, <2>1
  <2>4. CountInv(t)'
    <3>1. w[t].all <= Held(part[t]) /\ part' = part
      BY <1>i, <2>1 DEF CountInv
    <3> QED BY <1>n, <2>2, <2>3, <3>1 DEF CountInv, Requesting, Held
  <2>5. Counted(t)' = Counted(t) + w[t].got
    <3>1. mpc \in {"create", "add"} /\ t < idx
      <4>1. mpc \in {"create", "add"} /\ ~(t >= idx)
        BY <2>1 DEF PrefixInv, FrameInv
      <4>2. t \in Nat /\ idx \in Nat
        BY PartTypes DEF TypeOK, MainTypeOK
      <4> QED BY <4>1, <4>2
    <3>2. Added(t)' = Added(t) + w[t].got
      BY <1>n, <2>2, <2>3 DEF Added
    <3>3. Held(part'[t]) - w'[t].got = (Held(part[t]) - w[t].got) + w[t].got
      BY <1>0, <1>n, <2>1, <2>2, <2>3
    <3> QED BY <2>1, <3>1, <3>2, <3>3 DEF Counted
  <2> QED BY <1>n, <2>1, <2>2, <2>3, <2>4, <2>5, CountStep
<1>8. ~SendOnRefused(t) /\ ~RecvFault(t)
  BY DEF SendOnRefused, RecvFault
<1> QED BY <1>1, <1>2, <1>3, <1>4, <1>5, <1>6, <1>7, <1>8 DEF ThreadStep

(* Nothing is left of a process that died, or that has not begun.            *)
LEMMA DieRate == ASSUME TypeOK, Die PROVE RateInv'
<1>1. mpc' = "dead" /\ w' = [t \in T |-> NoThread] /\ part' = [t \in T |-> Unflushed(part[t])]
  BY DEF Die
<1>2. ASSUME NEW t \in T PROVE CountInv(t)'
  <2>1. Held(part'[t]) \in Nat
    <3>1. part[t] \in PartFile
      BY DEF TypeOK, DataTypeOK
    <3>2. part'[t] \in PartFile
      BY <1>1, <3>1, UnflushedIs
    <3> QED BY <3>2, HeldType
  <2>2. w'[t].pc = "none" /\ w'[t].all = 0 /\ w'[t].got = 0
    BY <1>1 DEF NoThread
  <2> QED BY <2>1, <2>2 DEF CountInv
<1> QED BY <1>1, <1>2 DEF RateInv, AddInv, ExactInv

LEMMA SpawnRate ==
    ASSUME TypeOK, PrefixInv, RateInv, NEW o \in Ops, Spawn(o)
    PROVE  RateInv'
<1>1. /\ mpc \in Ended /\ mpc' = "create" /\ op' = o /\ idx' = 0 /\ rate' = 0
      /\ w' = w /\ part' = part
  BY DEF Spawn
<1>2. \A t \in T : w[t].pc = "none" /\ w[t].all = 0 /\ w[t].got = 0
  BY <1>1 DEF PrefixInv, FrameInv, Ended, RateInv, CountInv
<1>3. \A t \in T : CountInv(t)'
  BY <1>1 DEF RateInv, CountInv, Held
<1>4. \A t \in T : Counted(t)' = 0
  <2>1. \A t \in T : ~(t < 0) /\ Added(t)' = 0
    BY <1>1, <1>2, PartTypes DEF Added
  <2> QED BY <1>1, <2>1 DEF Counted
<1>5. CountedInAll' = 0
  <2> DEFINE f == [t \in T |-> Counted(t)']
  <2>1. T = 0 .. Threads - 1 /\ Threads \in Nat
    BY ConstantsAssumption DEF T, Parts
  <2>2. \A i \in 0 .. Threads - 1 : f[i] = 0
    BY <1>4, <2>1
  <2>3. CountedInAll' = Total(f, Threads)
    BY DEF CountedInAll
  <2> HIDE DEF f
  <2> QED BY <2>1, <2>2, <2>3, TotalOfNone
<1> QED BY <1>1, <1>2, <1>3, <1>5 DEF RateInv, AddInv, ExactInv

LEMMA CreateThreadRate ==
    ASSUME TypeOK, TypeOK', PrefixInv, RateInv, CreateThread
    PROVE  RateInv'
<1>1. /\ mpc = "create" /\ op = "start" /\ idx < Threads
      /\ w' = [w EXCEPT ![idx] = NewThread(Size(idx), Start(idx))]
      /\ UNCHANGED <<mpc, op, mld, rate, lock, part>>
  BY DEF CreateThread, MainFrame
<1>2. PICK t \in T : t = idx
  BY <1>1, PartTypes DEF TypeOK, MainTypeOK
<1>3. w[t].pc = "none" /\ w[t].all = 0 /\ w[t].got = 0
  <2>1. t >= idx
    BY <1>2, PartTypes
  <2> QED BY <1>1, <2>1 DEF PrefixInv, FrameInv, RateInv, CountInv
<1>4. /\ w'[t].pc = "connect" /\ w'[t].all = 0 /\ w'[t].got = 0
      /\ \A u \in T \ {t} : w'[u] = w[u]
  BY <1>1, <1>2 DEF TypeOK, DataTypeOK, NewThread
<1>5. \A u \in T : CountInv(u)'
  <2>1. CountInv(t)'
    BY <1>1, <1>3, <1>4 DEF RateInv, CountInv, Held
  <2>2. \A u \in T \ {t} : CountInv(u)'
    BY <1>1, <1>4 DEF RateInv, CountInv, Held
  <2> QED BY <2>1, <2>2
<1>6. \A u \in T : Counted(u)' = Counted(u)
  BY <1>1, <1>3, <1>4 DEF Counted, Added
<1>7. CountedInAll' = CountedInAll
  BY <1>6 DEF CountedInAll
<1>8. \A u \in T : w'[u].pc = "store" => w[u].pc = "store" /\ w'[u] = w[u]
  BY <1>4
<1>9. AddInv' /\ ExactInv'
  BY <1>1, <1>7, <1>8 DEF RateInv, AddInv, ExactInv
<1> QED BY <1>1, <1>5, <1>9 DEF RateInv

LEMMA ContinuePartRate ==
    ASSUME TypeOK, TypeOK', PrefixInv, RateInv, ContinuePart
    PROVE  RateInv'
<1> DEFINE len == Held(part[idx])
           new == NewThread(Size(idx) - len, Start(idx) + len)
<1>1. /\ mpc = "add" /\ mpc' = "create" /\ rate' = mld + len /\ idx' = idx + 1
      /\ w' = IF len = Size(idx) THEN w ELSE [w EXCEPT ![idx] = new]
      /\ UNCHANGED <<op, lock, part>>
  BY DEF ContinuePart, MainFrame
<1>p. PICK t \in T : t = idx
  BY <1>1 DEF TypeOK, MainTypeOK
<1>2. /\ t \in Nat /\ t >= idx /\ op = "continue" /\ mld \in Nat
      /\ T \subseteq Nat
  BY <1>1, <1>p, PartTypes DEF TypeOK, MainTypeOK, PrefixInv, FrameInv
<1>3. w[t].pc = "none" /\ w[t].all = 0 /\ w[t].got = 0
  BY <1>1, <1>2, <1>p DEF PrefixInv, FrameInv, RateInv, CountInv
<1>4. new.pc = "connect" /\ new.all = 0 /\ new.got = 0
  BY DEF NewThread
<1> HIDE DEF new
<1>5. /\ w'[t].pc \in {"none", "connect"} /\ w'[t].all = 0 /\ w'[t].got = 0
      /\ \A u \in T \ {t} : w'[u] = w[u]
  <2>1. w \in [T -> Thread]
    BY DEF TypeOK, DataTypeOK
  <2> QED BY <1>1, <1>2, <1>p, <1>3, <1>4, <2>1
<1>6. Held(part[t]) \in Nat
  BY <1>2, <1>p, HeldType DEF TypeOK, DataTypeOK
<1>7. \A u \in T : CountInv(u) /\ CountInv(u)'
  <2>1. CountInv(t)'
    BY <1>1, <1>5, <1>6 DEF CountInv, Requesting, Held
  <2>2. \A u \in T \ {t} : CountInv(u)'
    BY <1>1, <1>5 DEF RateInv, CountInv, Held
  <2> QED BY <2>1, <2>2 DEF RateInv
<1>8. \A u \in T \ {t} : Counted(u)' = Counted(u)
  <2>1. \A u \in T \ {t} : u < idx + 1 <=> u < idx
    BY <1>2, <1>p
  <2>2. \A u \in T \ {t} : Held(part[u])' = Held(part[u]) /\ Added(u)' = Added(u)
    BY <1>1, <1>5 DEF Held, Added
  <2> QED BY <1>1, <1>5, <2>1, <2>2 DEF Counted
<1>9. Counted(t) = 0 /\ Counted(t)' = len
  <2>1. ~(t < idx) /\ t < idx + 1
    BY <1>2, <1>p
  <2>2. Counted(t) = 0
    BY <1>2, <1>p, <2>1 DEF Counted
  <2>3. Counted(t)' = Held(part[t]) - 0
    BY <1>1, <1>2, <1>p, <1>5, <2>1 DEF Counted, Held
  <2> QED BY <1>6, <1>p, <2>2, <2>3
<1>10. CountedInAll \in Nat /\ CountedInAll' = CountedInAll + len
  <2> HIDE DEF len
  <2>1. len \in Nat
    BY <1>6, <1>p DEF len
  <2>2. CountedInAll \in Nat /\ CountedInAll' = CountedInAll + (Counted(t)' - Counted(t))
    BY <1>2, <1>p, <1>7, <1>8, CountedOfOne
  <2> QED BY <1>9, <2>1, <2>2
<1>11. /\ mld <= CountedInAll
       /\ \A u \in T : w[u].pc = "store" => w[u].ld <= CountedInAll /\ w[u].ld \in Nat
  <2>1. \A u \in T : w[u].ld \in Nat
    BY DEF TypeOK, DataTypeOK, Thread
  <2> QED BY <1>1, <2>1 DEF RateInv, AddInv
<1> HIDE DEF len
<1>12. rate' <= CountedInAll'
  BY <1>1, <1>2, <1>p, <1>6, <1>10, <1>11 DEF len
<1>13. ASSUME NEW u \in T, w'[u].pc = "store" PROVE w'[u].ld <= CountedInAll'
  <2>1. u # t /\ w'[u] = w[u]
    BY <1>5, <1>13
  <2> QED BY <1>6, <1>p, <1>10, <1>11, <1>13, <2>1 DEF len
<1>14. AddInv' /\ ExactInv'
  BY <1>1, <1>2, <1>12, <1>13 DEF AddInv, ExactInv
<1> QED BY <1>1, <1>7, <1>14 DEF RateInv

LEMMA MainStepRate ==
    ASSUME TypeOK, TypeOK', PrefixInv, RateInv, MainStep
    PROVE  RateInv'
<1>1. CASE CreateThread
  BY <1>1, CreateThreadRate
<1>2. CASE ContinuePart
  BY <1>2, ContinuePartRate
<1>3. CASE MeasureMissing \/ MergeMissing
  BY <1>3, DieRate DEF MeasureMissing, MergeMissing
<1>4. CASE MeasurePart
  <2>1. /\ mpc = "create" /\ op = "continue" /\ mpc' = "add" /\ mld' = rate
        /\ UNCHANGED <<op, idx, rate, lock, w, part>>
    BY <1>4 DEF MeasurePart, MainFrame
  <2>2. \A u \in T : CountInv(u)' /\ Counted(u)' = Counted(u)
    BY <2>1 DEF RateInv, CountInv, Counted, Added, Held
  <2>3. CountedInAll' = CountedInAll
    BY <2>2 DEF CountedInAll
  <2> QED BY <2>1, <2>2, <2>3 DEF RateInv, AddInv, ExactInv
<1>5. CASE Join
  <2>1. /\ mpc = "create" /\ mpc' = "merge" /\ w' = [t \in T |-> NoThread]
        /\ UNCHANGED <<rate, part>>
    BY <1>5 DEF Join
  <2>2. \A u \in T : CountInv(u)'
    <3>1. ASSUME NEW u \in T PROVE CountInv(u)'
      <4>1. Held(part'[u]) \in Nat
        BY HeldType DEF TypeOK, DataTypeOK
      <4>2. w'[u].pc = "none" /\ w'[u].all = 0 /\ w'[u].got = 0
        BY <2>1 DEF NoThread
      <4> QED BY <4>1, <4>2 DEF CountInv
    <3> QED BY <3>1
  <2>3. rate' <= HeldInAll'
    <3>1. CountedInAll \in Nat /\ HeldInAll \in Nat /\ CountedInAll <= HeldInAll
      BY CountedAtMost DEF RateInv
    <3>2. rate <= CountedInAll /\ rate \in Nat
      BY <2>1 DEF RateInv, AddInv, TypeOK, SharedTypeOK
    <3>3. HeldInAll' = HeldInAll
      BY <2>1 DEF HeldInAll, Held
    <3> QED BY <2>1, <3>1, <3>2, <3>3
  <2> QED BY <2>1, <2>2, <2>3 DEF RateInv, AddInv, ExactInv
<1>6. CASE MergePart \/ MergeEmpty \/ MergeEnd
  <2>1. /\ mpc = "merge" /\ mpc' \in {"merge", "cleanup"}
        /\ UNCHANGED <<rate, w, part>>
    BY <1>6 DEF MergePart, MergeEmpty, MergeEnd
  <2>2. \A u \in T : CountInv(u)'
    BY <2>1 DEF RateInv, CountInv, Held
  <2>3. HeldInAll' = HeldInAll
    BY <2>1 DEF HeldInAll, Held
  <2> QED BY <2>1, <2>2, <2>3 DEF RateInv, AddInv, ExactInv
<1>7. CASE Cleanup
  <2>1. mpc = "cleanup" /\ mpc' = "done" /\ w' = w
    BY <1>7 DEF Cleanup
  <2>2. \A u \in T : CountInv(u)'
    <3>1. ASSUME NEW u \in T PROVE CountInv(u)'
      <4>1. Held(part'[u]) \in Nat
        BY HeldType DEF TypeOK, DataTypeOK
      <4>2. w'[u].pc = "none" /\ w'[u].all = 0 /\ w'[u].got = 0
        BY <2>1 DEF PrefixInv, FrameInv, RateInv, CountInv
      <4> QED BY <4>1, <4>2 DEF CountInv
    <3> QED BY <3>1
  <2> QED BY <2>1, <2>2 DEF RateInv, AddInv, ExactInv
<1> QED BY <1>1, <1>2, <1>3, <1>4, <1>5, <1>6, <1>7 DEF MainStep

LEMMA RateInductive ==
    TypeOK /\ TypeOK' /\ PrefixInv /\ RateInv /\ [Next]_vars => RateInv'
<1> SUFFICES ASSUME TypeOK, TypeOK', PrefixInv, RateInv, [Next]_vars PROVE RateInv'
  OBVIOUS
<1>1. CASE Die
  BY <1>1, DieRate
<1>2. ASSUME NEW o \in Ops, Spawn(o) PROVE RateInv'
  BY <1>2, SpawnRate
<1>3. CASE MainStep
  BY <1>3, MainStepRate
<1>4. ASSUME NEW t \in T, ThreadStep(t), ~Die PROVE RateInv'
  BY <1>4, ThreadStepRate
<1>5. CASE UNCHANGED <<mpc, op, idx, mld, rate, lock, w, part>>
  <2>1. \A u \in T : CountInv(u)' /\ Counted(u)' = Counted(u)
    BY <1>5 DEF RateInv, CountInv, Counted, Added, Held
  <2>2. CountedInAll' = CountedInAll /\ HeldInAll' = HeldInAll
    BY <1>5, <2>1 DEF CountedInAll, HeldInAll, Held
  <2> QED BY <1>5, <2>1, <2>2 DEF RateInv, AddInv, ExactInv
<1>6. (UNCHANGED vars \/ \E k \in {0, 1} : PeerDies(k))
        => UNCHANGED <<mpc, op, idx, mld, rate, lock, w, part>>
  BY DEF vars, PeerDies, mainVars, fileVars
<1> QED BY <1>1, <1>2, <1>3, <1>4, <1>5, <1>6 DEF Next, Kill

LEMMA InitRate == Init => RateInv
<1> SUFFICES ASSUME Init PROVE RateInv
  OBVIOUS
<1>1. \A t \in T : /\ w[t].pc = "none" /\ w[t].all = 0 /\ w[t].got = 0
                   /\ Held(part[t]) = 0
  BY DEF Init, NoThread, NoPart, Held
<1> QED BY <1>1 DEF Init, RateInv, CountInv, AddInv, ExactInv

(* What was added to the counter and what is about to be added agree with    *)
(* the part files, whoever reads and writes it in between.                   *)
THEOREM RateInvCorrect == Spec => []RateInv
<1>1. Init => RateInv
  BY InitRate
<1>2. (TypeOK /\ TypeOK' /\ PrefixInv) /\ RateInv /\ [Next]_vars => RateInv'
  BY RateInductive
<1> QED BY <1>1, <1>2, TypeCorrect, PrefixInvCorrect, PTL DEF Spec

(* The progress counter never claims more than the part files hold, whatever *)
(* additions are lost to the main thread, which adds without the mutex.      *)
THEOREM NeverOverstatesCorrect == Spec => []RateNeverOverstates
<1>1. ASSUME TypeOK, RateInv PROVE RateNeverOverstates
  <2>1. CountedInAll \in Nat /\ HeldInAll \in Nat /\ CountedInAll <= HeldInAll
    BY <1>1, CountedAtMost DEF RateInv
  <2>2. rate \in Nat /\ mpc \in MainPcs
    BY <1>1 DEF TypeOK, SharedTypeOK, MainTypeOK
  <2>3. mpc \in {"create", "add"} => rate <= HeldInAll
    BY <1>1, <2>1, <2>2 DEF RateInv, AddInv
  <2> QED BY <1>1, <2>2, <2>3 DEF RateInv, RateNeverOverstates, MainPcs, Ended
<1> QED BY <1>1, TypeCorrect, RateInvCorrect, PTL

(* In a fresh download, where only threads add, the mutex makes it exact.    *)
THEOREM RateExactCorrect == Spec => []RateExactInStart
<1>1. ASSUME RateInv PROVE RateExactInStart
  <2>1. SUFFICES ASSUME mpc = "create", op = "start"
                 PROVE  rate = Total([t \in T |-> Added(t)], Threads)
    BY DEF RateExactInStart
  <2>2. rate = CountedInAll
    BY <1>1, <2>1 DEF RateInv, ExactInv
  <2>3. \A t \in T : Counted(t) = Added(t)
    BY <2>1 DEF Counted
  <2>4. [t \in T |-> Counted(t)] = [t \in T |-> Added(t)]
    BY <2>3
  <2> QED BY <2>2, <2>4 DEF CountedInAll
<1> QED BY <1>1, RateInvCorrect, PTL

-------------------------------------------------------------------------------
(* NormalInv is inductive, given PrefixInv *)

(* The same number of bytes is in a file of PartFiles and in its prefix, and *)
(* they are natural numbers.                                                 *)
LEMMA HeldNat == ASSUME TypeOK, NEW t \in T PROVE Held(part[t]) \in Nat
BY Components DEF Held

(* NormalInv after a step of a thread that exists, in which no other thread, *)
(* nor the main thread, takes part.                                          *)
LEMMA StepOfOneNormal ==
    ASSUME PrefixInv, NormalInv, NEW t \in T, w[t].pc # "none",
           mpc' = mpc, idx' = idx, failures' = failures,
           ~tainted' => ~tainted, aborted' = aborted,
           \A u \in T \ {t} : w'[u] = w[u] /\ conn'[u] = conn[u] /\ part'[u] = part[u],
           Normal' => conn'[t].st \notin {"eof", "reset"},
           Normal' => (w'[t].pc \in {"none", "done"} => Complete(t)')
    PROVE  NormalInv'
<1>1. mpc \in {"create", "add"}
  BY DEF PrefixInv, FrameInv
<1>2. SUFFICES ASSUME Normal' PROVE CompleteInv'
  BY DEF NormalInv
<1>3. CompleteInv
  BY <1>2 DEF NormalInv, Normal
<1>4. \A u \in T : conn'[u].st \notin {"eof", "reset"}
  BY <1>2, <1>3 DEF CompleteInv
<1>5. ASSUME NEW u \in T, u < idx', w'[u].pc \in {"none", "done"}
      PROVE  Complete(u)'
  BY <1>1, <1>2, <1>3, <1>5 DEF CompleteInv, Complete, Held, Size
<1>6. ~aborted'
  BY <1>1, <1>3 DEF CompleteInv
<1> QED BY <1>1, <1>4, <1>5, <1>6 DEF CompleteInv

LEMMA DieNormal == Die => NormalInv'
BY DEF Die, NormalInv, CompleteInv, NoConn

LEMMA ThreadStepNormal ==
    ASSUME TypeOK, PrefixInv, NormalInv, NEW t \in T, ThreadStep(t)
    PROVE  NormalInv'
<1>d. DOMAIN w = T /\ DOMAIN conn = T /\ DOMAIN part = T
      /\ w[t] \in Thread /\ conn[t] \in Connection /\ part[t] \in PartFile
  BY DEF TypeOK, DataTypeOK
<1>n. (failures' = failures /\ (~tainted' => ~tainted) /\ Normal')
        => CompleteInv /\ conn[t].st \notin {"eof", "reset"}
  BY DEF NormalInv, Normal, CompleteInv
<1>1. CASE Connect(t)
  <2>1. /\ w[t].pc = "connect" /\ mpc' = mpc /\ idx' = idx /\ failures' = failures
        /\ tainted' = tainted /\ aborted' = aborted
        /\ \A u \in T \ {t} : w'[u] = w[u] /\ conn'[u] = conn[u] /\ part'[u] = part[u]
    BY <1>1, <1>d DEF Connect, Goto, ThreadFrame, mainVars
  <2>2. w'[t].pc = "format" /\ conn'[t].st \in {"open", "refused"}
    BY <1>1, <1>d DEF Connect, Goto, Thread, Connection
  <2> QED BY <2>1, <2>2, StepOfOneNormal
<1>2. CASE FormatSize(t) \/ FormatStart(t)
  <2>1. /\ w[t].pc # "none" /\ mpc' = mpc /\ idx' = idx /\ failures' = failures
        /\ (~tainted' => ~tainted) /\ aborted' = aborted /\ conn' = conn
        /\ \A u \in T \ {t} : w'[u] = w[u] /\ conn'[u] = conn[u] /\ part'[u] = part[u]
    BY <1>2, <1>d DEF FormatSize, FormatStart, Goto, ThreadFrame, mainVars
  <2>2. w'[t].pc \in {"format2", "send"}
    BY <1>2, <1>d DEF FormatSize, FormatStart, Goto, Thread
  <2> QED BY <1>n, <2>1, <2>2, StepOfOneNormal
<1>3. CASE Send(t)
  <2>1. /\ w[t].pc = "send" /\ mpc' = mpc /\ idx' = idx /\ failures' = failures
        /\ tainted' = tainted /\ aborted' = aborted
        /\ \A u \in T \ {t} : w'[u] = w[u] /\ conn'[u] = conn[u] /\ part'[u] = part[u]
    BY <1>3, <1>d DEF Send, Goto, ThreadFrame, mainVars
  <2>2. w'[t].pc = "response" /\ conn'[t].st \in {conn[t].st, "hang"}
    BY <1>3, <1>d DEF Send, Goto, Thread, Connection
  <2> QED BY <1>n, <2>1, <2>2, StepOfOneNormal
<1>4. CASE SendOnRefused(t) \/ RecvFault(t)
  BY <1>4, DieNormal DEF SendOnRefused, RecvFault
<1>5. CASE Response(t) \/ RecvEnd(t) \/ LockRate(t) \/ StoreRate(t)
  <2>1. /\ w[t].pc # "none" /\ mpc' = mpc /\ idx' = idx /\ failures' = failures
        /\ tainted' = tainted /\ aborted' = aborted /\ conn' = conn
        /\ \A u \in T \ {t} : w'[u] = w[u] /\ conn'[u] = conn[u] /\ part'[u] = part[u]
    BY <1>5, <1>d DEF Response, RecvEnd, LockRate, StoreRate, Goto, ThreadFrame, mainVars
  <2>2. w'[t].pc \in {"recv", "spin", "store"}
    BY <1>5, <1>d DEF Response, RecvEnd, LockRate, StoreRate, Goto, Thread
  <2> QED BY <1>n, <2>1, <2>2, StepOfOneNormal
<1>6. CASE NoResponse(t)
  <2>1. /\ w[t].pc = "response" /\ mpc' = mpc /\ idx' = idx /\ failures' = failures
        /\ tainted' = tainted /\ aborted' = aborted /\ conn[t].st \in {"eof", "reset"}
        /\ \A u \in T \ {t} : w'[u] = w[u] /\ conn'[u] = conn[u] /\ part'[u] = part[u]
    BY <1>6, <1>d DEF NoResponse, Goto, ThreadFrame, mainVars
  <2> QED BY <1>n, <2>1, StepOfOneNormal
<1>7. CASE Recv(t)
  <2>1. /\ w[t].pc = "recv" /\ mpc' = mpc /\ idx' = idx /\ failures' = failures
        /\ tainted' = tainted /\ aborted' = aborted
    BY <1>7 DEF Recv, ThreadFrame, mainVars
  <2>2. /\ \A u \in T \ {t} : w'[u] = w[u] /\ conn'[u] = conn[u] /\ part'[u] = part[u]
        /\ conn'[t].st = conn[t].st /\ w'[t].pc = "lock"
    BY <1>7, <1>d DEF Recv, Thread, Connection
  <2> QED BY <1>n, <2>1, <2>2, StepOfOneNormal
<1>8. CASE RecvError(t)
  <2>1. tainted'
    BY <1>8 DEF RecvError
  <2> QED BY <2>1 DEF NormalInv, Normal
<1>9. CASE Finish(t)
  <2>1. /\ w[t].pc = "recv" /\ mpc' = mpc /\ idx' = idx /\ failures' = failures
        /\ tainted' = tainted /\ aborted' = aborted /\ Remaining(t) <= 0
        /\ \A u \in T \ {t} : w'[u] = w[u] /\ conn'[u] = conn[u] /\ part'[u] = part[u]
    BY <1>9, <1>d DEF Finish, Goto, ThreadFrame, mainVars
  <2>2. conn'[t].st = "none"
    BY <1>9, <1>d DEF Finish, NoConn
  <2>3. ASSUME Normal' PROVE Complete(t)'
    <3>1. PartIsPrefix(t) /\ AskInv(t)
      BY <2>1, <2>3 DEF PrefixInv, Normal
    <3>2. Held(part[t]) + w[t].size = Size(t) + w[t].all /\ Held(part[t]) <= Size(t)
      BY <2>1, <3>1 DEF AskInv, PartIsPrefix, Receiving
    <3>3. Held(part[t]) = Size(t)
      BY <2>1, <3>2, Components, HeldNat DEF Remaining
    <3>4. part'[t].disk = Held(part[t]) /\ part'[t].mem = 0
      BY <1>9, <1>d DEF Finish, PartFile
    <3> QED BY <3>3, <3>4, HeldNat DEF Complete, Held, Size
  <2> QED BY <2>1, <2>2, <2>3, StepOfOneNormal
<1> QED BY <1>1, <1>2, <1>3, <1>4, <1>5, <1>6, <1>7, <1>8, <1>9 DEF ThreadStep

LEMMA FirstStart == Start(0) = 0
<1>1. FileSize \div Threads \in Nat
  BY ConstantsAssumption, DivBounds
<1> QED BY <1>1 DEF Start, PartStart

(* The loop of file_merge advances by whole parts, from the start of the     *)
(* file to its end.                                                          *)
LEMMA MergedSteps ==
    /\ idx' = 0 => Merged' = 0
    /\ idx = Threads => Merged = FileSize
    /\ (idx \in T /\ idx' = idx + 1) => Merged = Start(idx) /\ Merged' = Merged + Size(idx)
<1>1. idx' = 0 => Merged' = 0
  BY FirstStart, ConstantsAssumption DEF Merged, Start
<1>2. idx = Threads => Merged = FileSize
  BY ConstantsAssumption DEF Merged
<1>3. ASSUME idx \in T, idx' = idx + 1
      PROVE  Merged = Start(idx) /\ Merged' = Merged + Size(idx)
  <2>1. Merged = Start(idx)
    BY <1>3, PartTypes DEF Merged
  <2>2. Start(idx) + Size(idx) = IF idx + 1 < Threads THEN Start(idx + 1) ELSE FileSize
    BY <1>3, ConstantsAssumption, PartEnds DEF T, Start, Size
  <2> QED BY <1>3, <2>1, <2>2 DEF Merged, Start
<1> QED BY <1>1, <1>2, <1>3

(* A step of the loop that creates threads passes a part with a thread, or   *)
(* one that is complete.                                                     *)
LEMMA CreatedNormal ==
    ASSUME TypeOK, NormalInv, idx \in T, mpc \in {"create", "add"}, mpc' = "create",
           idx' = idx + 1, failures' = failures, tainted' = tainted,
           aborted' = aborted, conn' = conn, part' = part,
           \A u \in T \ {idx} : w'[u] = w[u],
           Complete(idx) \/ w'[idx].pc = "connect"
    PROVE  NormalInv'
<1> SUFFICES ASSUME Normal' PROVE CompleteInv'
  BY DEF NormalInv
<1>1. CompleteInv
  BY DEF NormalInv, Normal
<1>2. ASSUME NEW u \in T, u < idx', w'[u].pc \in {"none", "done"}
      PROVE  Complete(u)'
  <2>1. Complete(u)' = Complete(u)
    BY DEF Complete, Size
  <2>2. CASE u = idx
    BY <1>2, <2>1, <2>2
  <2>3. CASE u # idx
    <3>1. u < idx
      BY <1>2, <2>3, PartTypes
    <3> QED BY <1>1, <1>2, <2>1, <2>3, <3>1 DEF CompleteInv
  <2> QED BY <2>2, <2>3
<1> QED BY <1>1, <1>2 DEF CompleteInv

LEMMA MainStepNormal ==
    ASSUME TypeOK, PrefixInv, NormalInv, MainStep
    PROVE  NormalInv'
<1>d. DOMAIN w = T /\ idx \in 0 .. Threads
  BY DEF TypeOK, DataTypeOK, MainTypeOK
<1>i. idx < Threads => idx \in T
  BY <1>d, PartTypes
<1>0. CASE MeasureMissing \/ MergeMissing
  BY <1>0, DieNormal DEF MeasureMissing, MergeMissing
<1>1. CASE CreateThread
  <2>1. /\ idx \in T /\ mpc = "create" /\ mpc' = mpc /\ idx' = idx + 1 /\ failures' = failures
        /\ tainted' = tainted /\ aborted' = aborted /\ conn' = conn /\ part' = part
        /\ w' = [w EXCEPT ![idx] = NewThread(Size(idx), Start(idx))]
    BY <1>1, <1>i DEF CreateThread, MainFrame
  <2>2. w'[idx].pc = "connect" /\ \A u \in T \ {idx} : w'[u] = w[u]
    BY <1>d, <2>1 DEF NewThread
  <2> QED BY <2>1, <2>2, CreatedNormal
<1>2. CASE MeasurePart
  <2>1. /\ mpc = "create" /\ mpc' = "add" /\ idx' = idx /\ failures' = failures
        /\ tainted' = tainted /\ aborted' = aborted /\ conn' = conn /\ part' = part /\ w' = w
    BY <1>2 DEF MeasurePart, MainFrame
  <2> QED BY <2>1 DEF NormalInv, Normal, CompleteInv, Complete, Size
<1>3. CASE ContinuePart
  <2>1. /\ idx \in T /\ mpc = "add" /\ mpc' = "create" /\ idx' = idx + 1
        /\ failures' = failures /\ tainted' = tainted /\ aborted' = aborted
        /\ conn' = conn /\ part' = part
    BY <1>3 DEF ContinuePart, MainFrame, TypeOK, MainTypeOK
  <2>2. CASE Held(part[idx]) = Size(idx)
    <3>1. w' = w
      BY <1>3, <2>2 DEF ContinuePart
    <3> QED BY <2>1, <2>2, <3>1, CreatedNormal DEF Complete
  <2>3. CASE Held(part[idx]) # Size(idx)
    <3>1. w'[idx].pc = "connect" /\ \A u \in T \ {idx} : w'[u] = w[u]
      BY <1>3, <1>d, <2>1, <2>3 DEF ContinuePart, NewThread
    <3> QED BY <2>1, <3>1, CreatedNormal
  <2> QED BY <2>2, <2>3
<1>4. CASE Join
  <2>1. /\ mpc = "create" /\ idx = Threads /\ \A u \in T : w[u].pc \in {"none", "done"}
        /\ mpc' = "merge" /\ idx' = 0 /\ target' = [len |-> 0, clean |-> 0]
        /\ failures' = failures /\ tainted' = tainted /\ aborted' = aborted
        /\ conn' = conn /\ part' = part
    BY <1>4 DEF Join, MainFrame
  <2>2. target'.len = Merged' /\ target'.clean = Merged'
    BY <2>1, MergedSteps
  <2>3. ASSUME Normal' PROVE CompleteInv'
    <3>1. CompleteInv
      BY <2>1, <2>3 DEF NormalInv, Normal
    <3>2. \A u \in T : Complete(u)'
      BY <2>1, <3>1, PartTypes DEF CompleteInv, Complete, Size
    <3> QED BY <2>1, <2>2, <3>1, <3>2 DEF CompleteInv
  <2> QED BY <2>3 DEF NormalInv
<1>5. CASE MergePart
  <2>1. /\ idx \in T /\ mpc = "merge" /\ mpc' = "merge" /\ idx' = idx + 1
        /\ failures' = failures /\ tainted' = tainted /\ aborted' = aborted
        /\ conn' = conn /\ part' = part
        /\ target' = [len |-> target.len + Held(part[idx]),
                      clean |-> IF target.clean = target.len /\ target.len = Start(idx)
                                THEN target.clean + part[idx].clean
                                ELSE target.clean]
    BY <1>5, <1>i DEF MergePart, MainFrame
  <2>2. ASSUME Normal' PROVE CompleteInv'
    <3>1. CompleteInv /\ PartIsPrefix(idx)
      BY <2>1, <2>2 DEF NormalInv, Normal, PrefixInv
    <3>2. /\ Merged = Start(idx) /\ Merged' = Merged + Size(idx)
          /\ target.len = Merged /\ target.clean = Merged
          /\ Held(part[idx]) = Size(idx) /\ part[idx].clean = Size(idx)
      BY <2>1, <3>1, MergedSteps DEF CompleteInv, Complete, PartIsPrefix
    <3>3. target'.len = Merged' /\ target'.clean = Merged'
      BY <2>1, <3>2
    <3> QED BY <2>1, <3>1, <3>3 DEF CompleteInv, Complete, Size
  <2> QED BY <2>2 DEF NormalInv
<1>6. CASE MergeEmpty
  <2>1. /\ idx \in T /\ mpc = "merge" /\ Held(part[idx]) = 0
        /\ failures' = failures /\ tainted' = tainted
    BY <1>6, <1>i DEF MergeEmpty, MainFrame
  <2>2. ASSUME Normal' PROVE FALSE
    <3>1. Size(idx) = 0 /\ FileSize >= Threads
      BY <2>1, <2>2 DEF NormalInv, Normal, CompleteInv, Complete
    <3>2. Size(idx) > 0
      BY <2>1, <3>1, ConstantsAssumption, PartNonEmpty DEF T, Size
    <3> QED BY <3>1, <3>2
  <2> QED BY <2>2 DEF NormalInv
<1>7. CASE MergeEnd
  <2>1. /\ mpc = "merge" /\ idx = Threads /\ mpc' = "cleanup" /\ target' = target
        /\ failures' = failures /\ tainted' = tainted /\ aborted' = aborted /\ conn' = conn
    BY <1>7 DEF MergeEnd, MainFrame
  <2> QED BY <2>1, MergedSteps DEF NormalInv, Normal, CompleteInv, Whole
<1>8. CASE Cleanup
  <2>1. /\ mpc = "cleanup" /\ mpc' = "done" /\ target' = target
        /\ failures' = failures /\ tainted' = tainted /\ conn' = conn
    BY <1>8 DEF Cleanup, MainFrame
  <2> QED BY <2>1 DEF NormalInv, Normal, CompleteInv, Whole
<1> QED BY <1>0, <1>1, <1>2, <1>3, <1>4, <1>5, <1>6, <1>7, <1>8 DEF MainStep

LEMMA SpawnNormal ==
    ASSUME NormalInv, NEW o \in Ops, Spawn(o)
    PROVE  NormalInv'
<1>1. /\ mpc' = "create" /\ idx' = 0 /\ ~aborted'
      /\ failures' = failures /\ tainted' = tainted /\ conn' = conn
  BY DEF Spawn
<1>2. \A u \in T : ~(u < idx')
  BY <1>1, PartTypes
<1> QED BY <1>1, <1>2 DEF NormalInv, Normal, CompleteInv

(* The inductive invariant of the download.                                  *)
LEMMA IInvInductive == TypeOK /\ IInv /\ [Next]_vars => IInv'
<1> SUFFICES ASSUME TypeOK, IInv, [Next]_vars PROVE IInv'
  OBVIOUS
<1>0. PrefixInv /\ NormalInv
  BY DEF IInv
<1>1. PrefixInv'
  BY <1>0, PrefixInductive
<1>2. NormalInv'
  <2>1. ASSUME NEW o \in Ops, Spawn(o) PROVE NormalInv'
    BY <1>0, <2>1, SpawnNormal
  <2>2. CASE MainStep
    BY <1>0, <2>2, MainStepNormal
  <2>3. ASSUME NEW t \in T, ThreadStep(t) PROVE NormalInv'
    BY <1>0, <2>3, ThreadStepNormal
  <2>4. CASE Kill
    BY <2>4, DieNormal DEF Kill
  <2>5. ASSUME NEW k \in {0, 1}, PeerDies(k) PROVE NormalInv'
    <3>1. failures' = failures + 1 /\ failures \in Nat
      BY <2>5 DEF PeerDies, TypeOK, WorldTypeOK
    <3> QED BY <3>1 DEF NormalInv, Normal
  <2>6. CASE UNCHANGED vars
    BY <1>0, <2>6 DEF vars, NormalInv, Normal, CompleteInv, Complete, Merged, Whole, Size, Start
  <2> QED BY <2>1, <2>2, <2>3, <2>4, <2>5, <2>6 DEF Next
<1> QED BY <1>1, <1>2 DEF IInv

LEMMA InitIInv == Init => IInv
<1> SUFFICES ASSUME Init PROVE IInv
  OBVIOUS
<1>1. PrefixInv
  BY InitPrefix
<1>2. NormalInv
  BY DEF Init, NormalInv, CompleteInv, NoConn
<1> QED BY <1>1, <1>2 DEF IInv

(* What file_merge has joined, what the ended threads left and what is in    *)
(* flight agree in every reachable state.                                    *)
THEOREM IInvCorrect == Spec => []IInv
<1>1. Init => TypeOK /\ IInv
  BY InitType, InitIInv
<1>2. TypeOK /\ IInv /\ [Next]_vars => TypeOK' /\ IInv'
  BY TypeInductive, IInvInductive
<1> QED BY <1>1, <1>2, PTL DEF Spec

(* A process that ends has merged the whole file, unless requests met in the *)
(* buffer, a failed recv was written, a server died, or the file is shorter  *)
(* than the download has threads.                                            *)
THEOREM DoneCorrect == Spec => []DoneMeansWhole
<1>1. IInv => DoneMeansWhole
  BY DEF IInv, NormalInv, Normal, CompleteInv, DoneMeansWhole
<1> QED BY <1>1, IInvCorrect, PTL

-------------------------------------------------------------------------------
(* A continue gives up nothing *)

KeepsDisk == \A t \in T : part'[t].disk >= part[t].disk

LEMMA DieKeepsDisk == TypeOK /\ Die => KeepsDisk
<1> SUFFICES ASSUME TypeOK, Die, NEW t \in T PROVE part'[t].disk >= part[t].disk
  BY DEF KeepsDisk
<1>1. part'[t] = Unflushed(part[t]) /\ part[t] \in PartFile
  BY DEF Die, TypeOK, DataTypeOK
<1>2. part'[t].disk = part[t].disk /\ part[t].disk \in Nat
  BY <1>1 DEF Unflushed, PartFile
<1> QED BY <1>2

LEMMA SamePartsKeepDisk == TypeOK /\ part' = part => KeepsDisk
BY Components DEF KeepsDisk

LEMMA ThreadStepKeepsDisk ==
    ASSUME TypeOK, NEW t \in T, ThreadStep(t), op = "continue"
    PROVE  KeepsDisk
<1>d. DOMAIN part = T /\ part[t] \in PartFile /\ part[t].disk \in Nat /\ part[t].mem \in Nat
      /\ \A u \in T : part[u].disk \in Nat
  BY Components DEF TypeOK, DataTypeOK
<1>1. CASE SendOnRefused(t) \/ RecvFault(t)
  BY <1>1, DieKeepsDisk DEF SendOnRefused, RecvFault
<1>2. CASE Response(t)
  <2>1. part' = [part EXCEPT ![t] = [part[t] EXCEPT !.is = "file"]]
    BY <1>2 DEF Response, Opened
  <2>2. part'[t].disk = part[t].disk /\ \A u \in T \ {t} : part'[u] = part[u]
    BY <1>d, <2>1 DEF PartFile
  <2> QED BY <1>d, <2>2 DEF KeepsDisk
<1>3. CASE Recv(t)
  <2>1. PICK n \in 1 .. Lesser(Block, conn[t].left) :
          \E f \in 0 .. part[t].mem + n :
            part' = [part EXCEPT ![t] = Appended(@, n, conn[t].pos = Start(t) + Held(@), f)]
    BY <1>3 DEF Recv
  <2>2. PICK f \in 0 .. part[t].mem + n :
          part' = [part EXCEPT ![t] = Appended(@, n, conn[t].pos = Start(t) + Held(@), f)]
    BY <2>1
  <2>3. part'[t].disk = part[t].disk + f /\ \A u \in T \ {t} : part'[u] = part[u]
    BY <1>d, <2>2 DEF Appended
  <2>4. f >= 0 /\ f \in Int
    OBVIOUS
  <2> QED BY <1>d, <2>3, <2>4 DEF KeepsDisk
<1>4. CASE RecvError(t)
  <2>1. PICK n \in 1 .. Block : part' = [part EXCEPT ![t] = Appended(@, n, FALSE, 0)]
    BY <1>4 DEF RecvError
  <2>2. part'[t].disk = part[t].disk + 0 /\ \A u \in T \ {t} : part'[u] = part[u]
    BY <1>d, <2>1 DEF Appended
  <2> QED BY <1>d, <2>2 DEF KeepsDisk
<1>5. CASE Finish(t)
  <2>1. part'[t].disk = part[t].disk + part[t].mem /\ \A u \in T \ {t} : part'[u] = part[u]
    BY <1>5, <1>d DEF Finish, Held, PartFile
  <2> QED BY <1>d, <2>1 DEF KeepsDisk
<1>6. CASE \/ Connect(t) \/ FormatSize(t) \/ FormatStart(t) \/ Send(t) \/ NoResponse(t)
           \/ RecvEnd(t) \/ LockRate(t) \/ StoreRate(t)
  <2>1. part' = part
    BY <1>6 DEF Connect, FormatSize, FormatStart, Send, NoResponse, RecvEnd, LockRate, StoreRate
  <2> QED BY <2>1, SamePartsKeepDisk
<1> QED BY <1>1, <1>2, <1>3, <1>4, <1>5, <1>6 DEF ThreadStep

(* AbortInv is inductive, with FrameInv: at the end of the process no thread  *)
(* is left to write to the empty part.                                       *)
LEMMA AbortQuiet ==
    ASSUME AbortInv, mpc' = mpc, aborted' = aborted, idx' = idx,
           mpc = "cleanup" => part' = part
    PROVE  AbortInv'
BY DEF AbortInv, Held

LEMMA DieAbort == Die => AbortInv'
BY DEF Die, AbortInv

LEMMA AbortInductive ==
    (TypeOK /\ PrefixInv) /\ AbortInv /\ [Next]_vars => AbortInv'
<1> SUFFICES ASSUME TypeOK, PrefixInv, AbortInv, [Next]_vars PROVE AbortInv'
  OBVIOUS
<1>1. CASE MainStep
  <2>1. CASE MergeEmpty
    <3>1. idx \in T
      <4>1. idx \in 0 .. Threads
        BY DEF TypeOK, MainTypeOK
      <4> QED BY <2>1, <4>1, ConstantsAssumption DEF MergeEmpty, T, Parts
    <3> QED BY <2>1, <3>1 DEF MergeEmpty, AbortInv, Held
  <2>2. CASE MeasureMissing \/ MergeMissing
    BY <2>2, DieAbort DEF MeasureMissing, MergeMissing
  <2>3. CASE CreateThread \/ MeasurePart \/ ContinuePart \/ Join \/ MergePart \/ MergeEnd \/ Cleanup
    BY <2>3 DEF CreateThread, MeasurePart, ContinuePart, Join, MergePart, MergeEnd, Cleanup, AbortInv
  <2> QED BY <1>1, <2>1, <2>2, <2>3 DEF MainStep
<1>2. ASSUME NEW t \in T, ThreadStep(t) PROVE AbortInv'
  <2>1. CASE SendOnRefused(t) \/ RecvFault(t)
    BY <2>1, DieAbort DEF SendOnRefused, RecvFault
  <2>2. CASE ~(SendOnRefused(t) \/ RecvFault(t))
    <3>1. mpc' = mpc /\ aborted' = aborted /\ idx' = idx /\ w[t].pc # "none"
      BY <1>2, <2>2 DEF ThreadStep, ThreadFrame, mainVars, Connect, FormatSize, FormatStart, Send,
         Response, NoResponse, Recv, RecvEnd, RecvError, LockRate, StoreRate, Finish
    <3>2. mpc # "cleanup"
      BY <3>1 DEF PrefixInv, FrameInv
    <3> QED BY <3>1, <3>2, AbortQuiet
  <2> QED BY <2>1, <2>2
<1>3. CASE Kill
  BY <1>3, DieAbort DEF Kill
<1>4. CASE \E o \in Ops : Spawn(o)
  BY <1>4 DEF Spawn, AbortInv
<1>5. CASE (\E k \in {0, 1} : PeerDies(k)) \/ UNCHANGED vars
  <2>1. mpc' = mpc /\ aborted' = aborted /\ idx' = idx /\ part' = part
    BY <1>5 DEF PeerDies, mainVars, fileVars, vars
  <2> QED BY <2>1, AbortQuiet
<1> QED BY <1>1, <1>2, <1>3, <1>4, <1>5 DEF Next

THEOREM AbortInvCorrect == Spec => []AbortInv
<1>1. Init => AbortInv
  BY DEF Init, AbortInv
<1> QED BY <1>1, AbortInductive, TypeCorrect, PrefixInvCorrect, PTL DEF Spec

(* The parts are removed by the end of a process that met an empty one.      *)
Removes ==
    /\ mpc = "cleanup" /\ \E t \in T : Held(part[t]) = 0
    /\ tainted \/ failures > 0 \/ FileSize < Threads

LEMMA StepKeepsDisk ==
    ASSUME TypeOK, IInv, AbortInv, [Next]_vars, op = "continue", mpc \notin Ended
    PROVE  KeepsDisk \/ Removes
<1>1. CASE MainStep
  <2>1. CASE Cleanup
    <3>1. CASE aborted
      <4>1. mpc = "cleanup" /\ \E t \in T : Held(part[t]) = 0
        BY <2>1, <3>1 DEF Cleanup, AbortInv
      <4>2. ~Normal
        BY <3>1, <4>1 DEF IInv, NormalInv, CompleteInv
      <4>3. failures \in Nat /\ FileSize \in Nat /\ Threads \in Nat
        BY ConstantsAssumption DEF TypeOK, WorldTypeOK
      <4>4. tainted \/ failures > 0 \/ FileSize < Threads
        <5>1. failures # 0 => failures > 0
          BY <4>3
        <5>2. ~(FileSize >= Threads) => FileSize < Threads
          BY <4>3
        <5> QED BY <4>2, <5>1, <5>2 DEF Normal
      <4> QED BY <4>1, <4>4 DEF Removes
    <3>2. CASE ~aborted
      <4>1. part' = part
        BY <2>1, <3>2 DEF Cleanup
      <4> QED BY <4>1, SamePartsKeepDisk
    <3> QED BY <3>1, <3>2
  <2>2. CASE MeasureMissing \/ MergeMissing
    BY <2>2, DieKeepsDisk DEF MeasureMissing, MergeMissing
  <2>3. CASE CreateThread \/ MeasurePart \/ ContinuePart \/ Join \/ MergePart \/ MergeEmpty
             \/ MergeEnd
    <3>1. part' = part
      BY <2>3 DEF CreateThread, MeasurePart, ContinuePart, Join, MergePart, MergeEmpty, MergeEnd
    <3> QED BY <3>1, SamePartsKeepDisk
  <2> QED BY <1>1, <2>1, <2>2, <2>3 DEF MainStep
<1>2. ASSUME NEW t \in T, ThreadStep(t) PROVE KeepsDisk
  BY <1>2, ThreadStepKeepsDisk
<1>3. CASE Kill
  BY <1>3, DieKeepsDisk DEF Kill
<1>4. CASE \/ \E o \in Ops : Spawn(o)
           \/ \E k \in {0, 1} : PeerDies(k)
           \/ UNCHANGED vars
  <2>1. part' = part
    BY <1>4 DEF Spawn, PeerDies, fileVars, vars
  <2> QED BY <2>1, SamePartsKeepDisk
<1> QED BY <1>1, <1>2, <1>3, <1>4 DEF Next

(* A continue gives up no byte an earlier process brought to the disk,       *)
(* whatever requests meet, servers die and failed recvs are written: not when*)
(* it opens the parts, nor when it is killed or crashes.  Its end removes the*)
(* parts if it met an empty one, which is so only if requests met, a server  *)
(* died, or the file is shorter than the download has threads.               *)
THEOREM ContinueKeepsDiskCorrect == Spec => ContinueKeepsDisk
<1>1. TypeOK /\ IInv /\ AbortInv /\ [Next]_vars =>
        [(op = "continue" /\ mpc \notin Ended) =>
           \/ \A t \in T : part'[t].disk >= part[t].disk
           \/ /\ mpc = "cleanup" /\ \E t \in T : Held(part[t]) = 0
              /\ tainted \/ failures > 0 \/ FileSize < Threads]_vars
  BY StepKeepsDisk DEF KeepsDisk, Removes
<1> QED BY <1>1, TypeCorrect, IInvCorrect, AbortInvCorrect, PTL DEF Spec, ContinueKeepsDisk

-------------------------------------------------------------------------------
(* The refinement *)

HaveOf == [t \in T |-> part[t].clean]

(* A step the abstract transfer does not see. *)
LEMMA Unseen ==
    ASSUME Phase' = Phase, op' = op, HaveOf' = HaveOf, target' = target
    PROVE  UNCHANGED Transfer!tvars
BY DEF Transfer!tvars, HaveOf, Whole

LEMMA SamePartsUnseen ==
    ASSUME Phase' = Phase, op' = op, part' = part, target' = target
    PROVE  UNCHANGED Transfer!tvars
BY Unseen DEF HaveOf

(* The death of a running process is an interruption. *)
LEMMA DieInterrupts ==
    ASSUME TypeOK, Die, Phase \in {"fetching", "merging"}
    PROVE  Transfer!Interrupt
<1>1. op' = op /\ target' = target /\ mpc' = "dead"
  BY DEF Die
<1>2. Phase' = "idle"
  BY <1>1 DEF Phase
<1>3. ASSUME NEW t \in T
      PROVE  part'[t].clean \in Nat /\ part'[t].clean <= part[t].clean
  <2>1. part'[t] = Unflushed(part[t]) /\ part[t] \in PartFile
    BY DEF Die, TypeOK, DataTypeOK
  <2>2. part'[t].clean = Lesser(part[t].clean, part[t].disk)
    BY <2>1 DEF Unflushed, PartFile
  <2>3. part[t].clean \in Nat /\ part[t].disk \in Nat
    BY <2>1 DEF PartFile
  <2> QED BY <2>2, <2>3 DEF Lesser
<1>4. HaveOf' \in [T -> Nat] /\ \A t \in T : HaveOf'[t] <= HaveOf[t]
  BY <1>3 DEF HaveOf
<1> QED BY <1>1, <1>2, <1>4 DEF Transfer!Interrupt, HaveOf, Whole

(* A thread's step: it starts its part over, adds to it, or is not seen.     *)
LEMMA ThreadStepRefines ==
    ASSUME TypeOK, IInv, Normal, NEW t \in T, ThreadStep(t), ~tainted', failures' = 0
    PROVE  Transfer!TNext \/ UNCHANGED Transfer!tvars
<1>d. DOMAIN part = T /\ part[t] \in PartFile /\ part[t].clean \in Nat
  BY Components DEF TypeOK, DataTypeOK
<1>p. w[t].pc # "none" => mpc \in {"create", "add"} /\ Phase = "fetching"
  BY DEF IInv, PrefixInv, FrameInv, Phase, Ended
<1>1. CASE SendOnRefused(t) \/ RecvFault(t)
  <2>1. Die /\ Phase = "fetching"
    BY <1>1, <1>p DEF SendOnRefused, RecvFault
  <2> QED BY <2>1, DieInterrupts DEF Transfer!TNext
<1>2. CASE Response(t)
  <2>1. /\ Phase = "fetching" /\ Phase' = Phase /\ op' = op /\ target' = target
        /\ part' = [part EXCEPT ![t] = Opened(part[t])]
    BY <1>2, <1>p DEF Response, ThreadFrame, mainVars, Phase
  <2>2. CASE op = "start"
    <3>1. HaveOf' = [HaveOf EXCEPT ![t] = 0]
      BY <1>d, <2>1, <2>2 DEF HaveOf, Opened, NoPart
    <3>2. Transfer!StartOver(t)
      BY <2>1, <2>2, <3>1 DEF Transfer!StartOver, HaveOf, Whole
    <3> QED BY <3>2 DEF Transfer!TNext
  <2>3. CASE op # "start"
    <3>1. part'[t].clean = part[t].clean /\ \A u \in T \ {t} : part'[u] = part[u]
      BY <1>d, <2>1, <2>3 DEF Opened, PartFile
    <3>2. HaveOf' = HaveOf
      BY <3>1 DEF HaveOf
    <3> QED BY <2>1, <3>2, Unseen
  <2> QED BY <2>2, <2>3
<1>3. CASE Recv(t)
  <2>1. /\ Phase = "fetching" /\ Phase' = Phase /\ op' = op /\ target' = target
    BY <1>3, <1>p DEF Recv, ThreadFrame, mainVars, Phase
  <2>2. PICK n \in 1 .. Lesser(Block, conn[t].left) :
          \E f \in 0 .. part[t].mem + n :
            part' = [part EXCEPT ![t] = Appended(@, n, conn[t].pos = Start(t) + Held(@), f)]
    BY <1>3 DEF Recv
  <2>3. PICK f \in 0 .. part[t].mem + n :
          part' = [part EXCEPT ![t] = Appended(@, n, conn[t].pos = Start(t) + Held(@), f)]
    BY <2>2
  <2>4. /\ part'[t].clean = part[t].clean \/ part'[t].clean = part[t].clean + n
        /\ \A u \in T \ {t} : part'[u] = part[u]
    BY <1>d, <2>3 DEF Appended
  <2>5. part'[t].clean <= Size(t) /\ part'[t].clean \in Nat
    <3>1. IInv' /\ TypeOK'
      BY IInvInductive, TypeInductive DEF Next
    <3>2. PartIsPrefix(t)'
      BY <3>1 DEF IInv, PrefixInv
    <3>3. part'[t].clean \in Nat
      BY <3>1 DEF TypeOK, DataTypeOK, PartFile
    <3> QED BY <3>2, <3>3 DEF PartIsPrefix, Size
  <2>6. CASE part'[t].clean = part[t].clean
    <3>1. HaveOf' = HaveOf
      BY <2>4, <2>6 DEF HaveOf
    <3> QED BY <2>1, <3>1, Unseen
  <2>7. CASE part'[t].clean = part[t].clean + n
    <3>1. n \in Int /\ n >= 1 /\ Size(t) \in Nat
      BY PartTypes
    <3>2. part'[t].clean \in (HaveOf[t] + 1) .. [u \in T |-> Size(u)][t]
      BY <1>d, <2>5, <2>7, <3>1 DEF HaveOf
    <3>3. HaveOf' = [HaveOf EXCEPT ![t] = part'[t].clean]
      BY <2>4 DEF HaveOf
    <3>4. Transfer!Gain(t)
      BY <2>1, <3>2, <3>3 DEF Transfer!Gain, HaveOf, Whole
    <3> QED BY <3>4 DEF Transfer!TNext
  <2> QED BY <2>4, <2>6, <2>7
<1>4. CASE RecvError(t)
  BY <1>4 DEF RecvError
<1>5. CASE Finish(t)
  <2>1. Phase' = Phase /\ op' = op /\ target' = target
    BY <1>5 DEF Finish, ThreadFrame, mainVars, Phase
  <2>2. part'[t].clean = part[t].clean /\ \A u \in T \ {t} : part'[u] = part[u]
    BY <1>5, <1>d DEF Finish, PartFile
  <2>3. HaveOf' = HaveOf
    BY <2>2 DEF HaveOf
  <2> QED BY <2>1, <2>3, Unseen
<1>6. CASE \/ Connect(t) \/ FormatSize(t) \/ FormatStart(t) \/ Send(t) \/ NoResponse(t)
           \/ RecvEnd(t) \/ LockRate(t) \/ StoreRate(t)
  <2>1. part' = part /\ ThreadFrame
    BY <1>6 DEF Connect, FormatSize, FormatStart, Send, NoResponse, RecvEnd, LockRate, StoreRate
  <2>2. Phase' = Phase /\ op' = op /\ target' = target
    BY <2>1 DEF ThreadFrame, mainVars, Phase
  <2> QED BY <2>1, <2>2, SamePartsUnseen
<1> QED BY <1>1, <1>2, <1>3, <1>4, <1>5, <1>6 DEF ThreadStep

(* The main thread's step: it begins to merge when every part is complete,   *)
(* delivers with the last part, ends, or is not seen.                        *)
LEMMA MainStepRefines ==
    ASSUME TypeOK, IInv, Normal, MainStep, ~tainted', failures' = 0
    PROVE  Transfer!TNext \/ UNCHANGED Transfer!tvars
<1>c. PrefixInv /\ CompleteInv /\ FileSize >= Threads /\ FileSize > 0
  BY ConstantsAssumption DEF IInv, NormalInv, Normal
<1>t. idx \in 0 .. Threads
  BY DEF TypeOK, MainTypeOK
<1>1. CASE CreateThread \/ MeasurePart \/ ContinuePart
  <2>1. /\ part' = part /\ op' = op /\ target' = target
        /\ mpc \in {"create", "add"} /\ mpc' \in {"create", "add"}
    BY <1>1 DEF CreateThread, MeasurePart, ContinuePart, MainFrame
  <2>2. Phase' = Phase
    BY <2>1 DEF Phase, Ended
  <2> QED BY <2>1, <2>2, SamePartsUnseen
<1>2. CASE MeasureMissing \/ MergeMissing
  <2>1. Die /\ mpc \in {"create", "merge"}
    BY <1>2 DEF MeasureMissing, MergeMissing
  <2>2. Phase \in {"fetching", "merging"}
    BY <2>1 DEF Phase
  <2> QED BY <2>1, <2>2, DieInterrupts DEF Transfer!TNext
<1>3. CASE Join
  <2>1. /\ mpc = "create" /\ mpc' = "merge" /\ op' = op /\ part' = part
        /\ target' = [len |-> 0, clean |-> 0] /\ idx = Threads
        /\ \A t \in T : w[t].pc \in {"none", "done"}
    BY <1>3 DEF Join, MainFrame
  <2>2. Phase = "fetching" /\ Phase' = "merging"
    BY <2>1 DEF Phase, Ended
  <2>3. \A t \in T : part[t].clean = Size(t)
    <3>1. \A t \in T : Complete(t)
      BY <1>c, <2>1, PartTypes DEF CompleteInv
    <3> QED BY <1>c, <3>1 DEF Normal, PrefixInv, PartIsPrefix, Complete
  <2>4. HaveOf = [t \in T |-> Size(t)] /\ HaveOf' = HaveOf
    BY <2>1, <2>3 DEF HaveOf
  <2>5. ~Whole'
    BY <1>c, <2>1 DEF Whole
  <2>6. Transfer!Merge
    BY <2>1, <2>2, <2>4, <2>5 DEF Transfer!Merge, HaveOf
  <2> QED BY <2>6 DEF Transfer!TNext
<1>4. CASE MergePart
  <2>1. /\ mpc = "merge" /\ mpc' = "merge" /\ op' = op /\ part' = part /\ idx \in T
    BY <1>4, <1>t, PartTypes DEF MergePart, MainFrame
  <2>2. Phase = "merging" /\ Phase' = "merging" /\ HaveOf' = HaveOf
    BY <2>1 DEF Phase, HaveOf
  <2>3. ~Whole
    <3>1. target.len = Start(idx)
      BY <1>c, <2>1, PartTypes DEF CompleteInv, Merged
    <3>2. Start(idx) + Size(idx) <= FileSize /\ Size(idx) > 0
      BY <1>c, <2>1, PartTypes, PartNonEmpty, ConstantsAssumption DEF T, Size
    <3> QED BY <2>1, <3>1, <3>2, PartTypes, ConstantsAssumption DEF Whole
  <2>4. CASE Whole'
    <3>1. Transfer!Deliver
      BY <2>1, <2>2, <2>4 DEF Transfer!Deliver, HaveOf
    <3> QED BY <3>1 DEF Transfer!TNext
  <2>5. CASE ~Whole'
    BY <2>1, <2>2, <2>3, <2>5 DEF Transfer!tvars, HaveOf, Whole
  <2> QED BY <2>4, <2>5
<1>5. CASE MergeEmpty
  <2>1. mpc = "merge" /\ idx \in T /\ Held(part[idx]) = 0
    BY <1>5, <1>t, PartTypes DEF MergeEmpty
  <2>2. Size(idx) = 0
    BY <1>c, <2>1 DEF CompleteInv, Complete
  <2>3. Size(idx) > 0
    BY <1>c, <2>1, PartNonEmpty, ConstantsAssumption DEF T, Size
  <2> QED BY <2>2, <2>3
<1>6. CASE MergeEnd
  <2>1. /\ mpc = "merge" /\ mpc' = "cleanup" /\ op' = op /\ part' = part /\ target' = target
    BY <1>6 DEF MergeEnd, MainFrame
  <2>2. Phase' = Phase
    BY <2>1 DEF Phase, Ended
  <2> QED BY <2>1, <2>2, SamePartsUnseen
<1>7. CASE Cleanup
  <2>1. /\ mpc = "cleanup" /\ mpc' = "done" /\ op' = op /\ target' = target /\ part' = part
    BY <1>7, <1>c DEF Cleanup, MainFrame, CompleteInv
  <2>2. Phase = "merging" /\ Phase' = "done" /\ HaveOf' = HaveOf
    BY <2>1 DEF Phase, HaveOf
  <2>3. Whole /\ Whole'
    BY <1>c, <2>1 DEF CompleteInv, Whole
  <2>4. Transfer!End
    BY <2>1, <2>2, <2>3 DEF Transfer!End, HaveOf
  <2> QED BY <2>4 DEF Transfer!TNext
<1> QED BY <1>1, <1>2, <1>3, <1>4, <1>5, <1>6, <1>7 DEF MainStep

LEMMA StepRefines ==
    ASSUME TypeOK, IInv, Normal, [Next /\ ~tainted' /\ failures' = 0]_vars
    PROVE  [Transfer!TNext]_Transfer!tvars
<1>1. ASSUME NEW o \in Ops, Spawn(o) PROVE Transfer!TNext
  <2>1. /\ mpc \in Ended /\ mpc' = "create" /\ part' = part /\ target' = target
    BY <1>1 DEF Spawn
  <2>2. Phase \in {"idle", "done"} /\ Phase' = "fetching"
    BY <2>1 DEF Phase, Ended
  <2>3. Transfer!Begin
    BY <2>1, <2>2 DEF Transfer!Begin, Whole
  <2> QED BY <2>3 DEF Transfer!TNext
<1>2. CASE Kill
  <2>1. Die /\ mpc \notin Ended
    BY <1>2 DEF Kill
  <2>2. Phase \in {"fetching", "merging"}
    BY <2>1 DEF Phase, Ended, TypeOK, MainTypeOK, MainPcs
  <2> QED BY <2>1, <2>2, DieInterrupts DEF Transfer!TNext
<1>3. ASSUME NEW k \in {0, 1}, PeerDies(k), failures' = 0 PROVE FALSE
  BY <1>3 DEF PeerDies, TypeOK, WorldTypeOK
<1>4. CASE UNCHANGED vars
  <2>1. Phase' = Phase /\ op' = op /\ part' = part /\ target' = target
    BY <1>4 DEF vars, Phase
  <2> QED BY <2>1, SamePartsUnseen
<1>5. CASE Next /\ ~tainted' /\ failures' = 0
  BY <1>1, <1>2, <1>3, <1>5, MainStepRefines, ThreadStepRefines DEF Next
<1> QED BY <1>4, <1>5

(* With at least one byte per thread, a P2P download in which no requests    *)
(* meet and no server dies implements ResumableTransfer: it gives up bytes   *)
(* only by an interruption or by starting over, and merges only what is      *)
(* complete.                                                                 *)
THEOREM RefinementCorrect ==
    ASSUME FileSize >= Threads
    PROVE  NormalSpec => ImplementsTransfer
<1>1. Init => TypeOK /\ IInv /\ Normal /\ Transfer!TInit
  <2>1. Init => TypeOK /\ IInv
    BY InitType, InitIInv
  <2>2. Init => Normal
    BY DEF Init, Normal
  <2>3. Init => Transfer!TInit
    BY ConstantsAssumption DEF Init, Transfer!TInit, Phase, Ended, NoPart, Whole
  <2> QED BY <2>1, <2>2, <2>3
<1>2. TypeOK /\ IInv /\ Normal /\ [Next /\ ~tainted' /\ failures' = 0]_vars
        => TypeOK' /\ IInv' /\ Normal'
  <2> SUFFICES ASSUME TypeOK, IInv, Normal, [Next /\ ~tainted' /\ failures' = 0]_vars
               PROVE  TypeOK' /\ IInv' /\ Normal'
    OBVIOUS
  <2>1. TypeOK' /\ IInv'
    BY TypeInductive, IInvInductive
  <2>2. Normal'
    BY DEF Normal, vars
  <2> QED BY <2>1, <2>2
<1>3. TypeOK /\ IInv /\ Normal /\ [Next /\ ~tainted' /\ failures' = 0]_vars
        => [Transfer!TNext]_Transfer!tvars
  BY StepRefines
<1> QED BY <1>1, <1>2, <1>3, PTL DEF NormalSpec, ImplementsTransfer, Transfer!TSpec

-------------------------------------------------------------------------------
(* Nobody waits in vain *)

(* The length of a request is a number: a text is never shorter than itself. *)
LEMMA TextLenType ==
    ASSUME NEW size \in Int, NEW start \in Nat
    PROVE  TextLen(size, start) \in Nat
<1>1. ASSUME NEW n \in Int PROVE Digits(n) \in Nat
  <2> DEFINE m == IF n < 0 THEN -n ELSE n
             P == {k \in 1 .. m : Radix ^ k <= m}
  <2>1. m \in Int
    BY <1>1
  <2>2. IsFiniteSet(1 .. m) /\ P \in SUBSET (1 .. m)
    BY <2>1, FS_Interval
  <2>3. Cardinality(P) \in Nat
    <3> HIDE DEF P, m
    <3> QED BY <2>2, FS_Subset, FS_CardinalityType
  <2>4. Digits(n) = (IF n < 0 THEN 2 ELSE 1) + Cardinality(P)
    BY DEF Digits
  <2> HIDE DEF P, m
  <2> QED BY <2>3, <2>4
<1> QED BY <1>1 DEF TextLen

(* A server that is asked for bytes of the file sends all of them.           *)
LEMMA GrantedAll ==
    ASSUME NEW size \in Nat, NEW start \in Nat, start + size <= FileSize
    PROVE  Granted(size, start) = size
BY ConstantsAssumption DEF Granted, Lesser

LEMMA QuietLock ==
    ASSUME TypeOK, LockInv, NEW t \in T, lock' = lock,
           w[t].pc # "store", w'[t].pc # "store",
           \A u \in T \ {t} : w'[u] = w[u]
    PROVE  LockInv'
<1>1. lock # Unlocked => lock \in T \ {t}
  BY DEF TypeOK, SharedTypeOK, LockInv
<1> QED BY <1>1 DEF LockInv

(* LiveInv after a step of one thread, or one that creates it.               *)
LEMMA StepOfOneLive ==
    ASSUME LiveInv, NEW t \in T, peerUp' = peerUp, failures' = failures,
           ~tainted' => ~tainted,
           \A u \in T \ {t} : w'[u] = w[u] /\ conn'[u] = conn[u],
           LockInv', (~tainted' /\ failures = 0) => ServedInv(t)'
    PROVE  LiveInv'
<1>1. ASSUME ~tainted', failures' = 0, NEW u \in T
      PROVE  ServedInv(u)'
  <2>1. CASE u = t
    BY <1>1, <2>1
  <2>2. CASE u # t
    <3>1. ServedInv(u)
      BY <1>1 DEF LiveInv
    <3> QED BY <2>2, <3>1 DEF ServedInv, Remaining
  <2> QED BY <2>1, <2>2
<1>2. ASSUME ~tainted', failures' = 0, NEW k \in {0, 1}
      PROVE  peerUp'[k]
  BY <1>2 DEF LiveInv
<1> QED BY <1>1, <1>2 DEF LiveInv

LEMMA DieLive == LiveInv /\ Die => LiveInv'
<1> SUFFICES ASSUME LiveInv, Die PROVE LiveInv'
  OBVIOUS
<1>1. /\ \A u \in T : w'[u].pc = "none"
      /\ lock' = Unlocked /\ peerUp' = peerUp /\ failures' = failures /\ tainted' = tainted
  BY DEF Die, NoThread
<1>2. LockInv'
  BY <1>1 DEF LockInv
<1>3. \A u \in T : ServedInv(u)'
  BY <1>1 DEF ServedInv
<1> QED BY <1>1, <1>2, <1>3 DEF LiveInv

LEMMA ThreadStepLive ==
    ASSUME TypeOK, PrefixInv, LiveInv, NEW t \in T, ThreadStep(t)
    PROVE  LiveInv'
<1>d. DOMAIN w = T /\ DOMAIN conn = T
      /\ w[t] \in Thread /\ conn[t] \in Connection
  BY DEF TypeOK, DataTypeOK
<1>n. w[t].size \in Int /\ w[t].all \in Nat /\ conn[t].left \in Nat
  BY Components
<1>l. LockInv
  BY DEF LiveInv
<1>s. (~tainted /\ failures = 0) => ServedInv(t) /\ \A k \in {0, 1} : peerUp[k]
  BY DEF LiveInv
<1>1. CASE Connect(t)
  <2>1. /\ w[t].pc = "connect" /\ UNCHANGED <<lock, peerUp, failures, tainted>>
        /\ \A u \in T \ {t} : w'[u] = w[u] /\ conn'[u] = conn[u]
    BY <1>1, <1>d DEF Connect, Goto, ThreadFrame
  <2>2. w'[t].pc = "format" /\ conn'[t].st = IF peerUp[Server(t)] THEN "open" ELSE "refused"
    BY <1>1, <1>d DEF Connect, Goto, Thread, Connection
  <2>3. Server(t) \in {0, 1}
    BY DEF Server, ServerOf
  <2>4. (~tainted' /\ failures = 0) => ServedInv(t)'
    BY <1>s, <2>1, <2>2, <2>3 DEF ServedInv
  <2>5. LockInv'
    BY <1>l, <2>1, <2>2, QuietLock
  <2> QED BY <2>1, <2>4, <2>5, StepOfOneLive
<1>2. CASE FormatSize(t) \/ FormatStart(t)
  <2>1. /\ w[t].pc \in {"format", "format2"} /\ UNCHANGED <<lock, conn, peerUp, failures>>
        /\ (~tainted' => ~tainted)
        /\ \A u \in T \ {t} : w'[u] = w[u]
    BY <1>2, <1>d DEF FormatSize, FormatStart, Goto, ThreadFrame
  <2>2. w'[t].pc \in {"format2", "send"}
    BY <1>2, <1>d DEF FormatSize, FormatStart, Goto, Thread
  <2>3. (~tainted' /\ failures = 0) => ServedInv(t)'
    BY <1>s, <2>1, <2>2 DEF ServedInv
  <2>4. LockInv'
    BY <1>l, <2>1, <2>2, QuietLock
  <2> QED BY <2>1, <2>3, <2>4, StepOfOneLive
<1>3. CASE Send(t)
  <2>1. /\ w[t].pc = "send" /\ UNCHANGED <<lock, peerUp, failures, tainted>>
        /\ \A u \in T \ {t} : w'[u] = w[u] /\ conn'[u] = conn[u]
    BY <1>3, <1>d DEF Send, Goto, ThreadFrame
  <2>2. w'[t].pc = "response" /\ w'[t].size = w[t].size /\ w'[t].all = w[t].all
    BY <1>3, <1>d DEF Send, Goto, Thread
  <2>3. LockInv'
    BY <1>l, <2>1, <2>2, QuietLock
  <2>4. ASSUME ~tainted', failures = 0
        PROVE  ServedInv(t)'
    <3>1. /\ buf.size = w[t].size /\ buf.start = w[t].start /\ w[t].all = 0
          /\ w[t].start + w[t].size = Start(t) + Size(t) /\ w[t].size >= 0
          /\ w[t].start \in Nat /\ Start(t) + Size(t) <= FileSize
      <4>1. PartIsPrefix(t) /\ AskInv(t) /\ BufInv(t)
        BY <2>1, <2>4 DEF PrefixInv
      <4>2. buf.size = w[t].size /\ buf.start = w[t].start
        BY <2>1, <4>1 DEF BufInv
      <4>3. /\ w[t].all = 0 /\ w[t].start + w[t].size = Start(t) + Size(t)
            /\ w[t].size = IF op = "start" THEN Size(t) ELSE Size(t) - Held(part[t])
        BY <2>1, <4>1 DEF AskInv, Requesting
      <4>4. w[t].size >= 0
        BY <4>1, <4>3, Components, HeldNat DEF PartIsPrefix
      <4> QED BY <4>2, <4>3, <4>4, Components, PartTypes
    <3>2. ~(TextLen(w[t].size, w[t].start) < TextLen(buf.size, buf.start))
      <4>1. TextLen(w[t].size, w[t].start) \in Nat
        BY <1>n, <3>1, TextLenType
      <4>2. TextLen(buf.size, buf.start) = TextLen(w[t].size, w[t].start)
        BY <3>1
      <4> QED BY <4>1, <4>2
    <3>3. Granted(buf.size, buf.start) = w[t].size
      BY <1>n, <3>1, GrantedAll, PartTypes
    <3>4. conn[t].st = "open"
      BY <1>s, <2>1, <2>4 DEF ServedInv
    <3>5. conn'[t] = [conn[t] EXCEPT !.pos = buf.start, !.left = Granted(buf.size, buf.start)]
      BY <1>3, <1>d, <3>2, <3>4 DEF Send
    <3>6. conn'[t].st = "open" /\ conn'[t].left = w[t].size
      BY <1>d, <3>3, <3>4, <3>5 DEF Connection
    <3>7. Remaining(t)' = w[t].size
      BY <1>n, <2>2, <3>1 DEF Remaining
    <3> QED BY <2>2, <3>6, <3>7 DEF ServedInv
  <2> QED BY <2>1, <2>3, <2>4, StepOfOneLive
<1>4. CASE SendOnRefused(t) \/ RecvFault(t)
  BY <1>4, DieLive DEF SendOnRefused, RecvFault
<1>5. CASE Response(t)
  <2>1. /\ w[t].pc = "response" /\ UNCHANGED <<lock, conn, peerUp, failures, tainted>>
        /\ \A u \in T \ {t} : w'[u] = w[u]
    BY <1>5, <1>d DEF Response, Goto, ThreadFrame
  <2>2. w'[t].pc = "recv" /\ w'[t].size = w[t].size /\ w'[t].all = w[t].all
    BY <1>5, <1>d DEF Response, Goto, Thread
  <2>3. (~tainted' /\ failures = 0) => ServedInv(t)'
    BY <1>s, <2>1, <2>2 DEF ServedInv, Remaining
  <2>4. LockInv'
    BY <1>l, <2>1, <2>2, QuietLock
  <2> QED BY <2>1, <2>3, <2>4, StepOfOneLive
<1>6. CASE NoResponse(t)
  <2>1. /\ w[t].pc = "response" /\ UNCHANGED <<lock, peerUp, failures, tainted>>
        /\ \A u \in T \ {t} : w'[u] = w[u] /\ conn'[u] = conn[u]
    BY <1>6, <1>d DEF NoResponse, Goto, ThreadFrame
  <2>2. w'[t].pc = "done"
    BY <1>6, <1>d DEF NoResponse, Goto, Thread
  <2>3. LockInv' /\ ServedInv(t)'
    BY <1>l, <2>1, <2>2, QuietLock DEF ServedInv
  <2> QED BY <2>1, <2>3, StepOfOneLive
<1>7. CASE Recv(t)
  <2>1. PICK n \in 1 .. Lesser(Block, conn[t].left) :
          /\ conn' = [conn EXCEPT ![t].pos = @ + n, ![t].left = @ - n]
          /\ w' = [w EXCEPT ![t].pc = "lock", ![t].all = @ + n, ![t].got = n]
    BY <1>7 DEF Recv
  <2>2. w[t].pc = "recv" /\ UNCHANGED <<lock, peerUp, failures, tainted>>
    BY <1>7 DEF Recv, ThreadFrame
  <2> DEFINE read == [w[t] EXCEPT !.pc = "lock", !.all = @ + n, !.got = n]
             rest == [conn[t] EXCEPT !.pos = @ + n, !.left = @ - n]
  <2>3. w' = [w EXCEPT ![t] = read] /\ conn' = [conn EXCEPT ![t] = rest]
    BY <2>1
  <2>4. /\ read.pc = "lock" /\ read.size = w[t].size /\ read.all = w[t].all + n
        /\ rest.st = conn[t].st /\ rest.left = conn[t].left - n
    BY <1>d DEF Thread, Connection
  <2> HIDE DEF read, rest
  <2>5. /\ w'[t] = read /\ conn'[t] = rest
        /\ \A u \in T \ {t} : w'[u] = w[u] /\ conn'[u] = conn[u]
    BY <1>d, <2>3
  <2>6. n \in Nat
    BY <1>n, ConstantsAssumption DEF Lesser
  <2>7. (~tainted' /\ failures = 0) => ServedInv(t)'
    <3>1. Remaining(t)' = Remaining(t) - n
      BY <1>n, <2>4, <2>5, <2>6 DEF Remaining
    <3> QED BY <1>n, <1>s, <2>2, <2>4, <2>5, <2>6, <3>1 DEF ServedInv
  <2>8. LockInv'
    BY <1>l, <2>2, <2>4, <2>5, QuietLock
  <2> QED BY <2>2, <2>5, <2>7, <2>8, StepOfOneLive
<1>8. CASE RecvEnd(t)
  <2>1. /\ w[t].pc = "recv" /\ conn[t].st = "eof" /\ UNCHANGED <<lock, conn, peerUp, failures, tainted>>
        /\ \A u \in T \ {t} : w'[u] = w[u]
    BY <1>8, <1>d DEF RecvEnd, Goto, ThreadFrame
  <2>2. w'[t].pc = "spin"
    BY <1>8, <1>d DEF RecvEnd, Goto, Thread
  <2>3. ~(~tainted' /\ failures = 0)
    BY <1>s, <2>1 DEF ServedInv
  <2>4. LockInv'
    BY <1>l, <2>1, <2>2, QuietLock
  <2> QED BY <2>1, <2>3, <2>4, StepOfOneLive
<1>9. CASE RecvError(t)
  <2>1. PICK n \in 1 .. Block :
          /\ w' = [w EXCEPT ![t].pc = "lock", ![t].all = @ + n, ![t].got = n]
    BY <1>9 DEF RecvError
  <2>2. /\ w[t].pc = "recv" /\ tainted' /\ UNCHANGED <<lock, peerUp, failures>>
        /\ \A u \in T \ {t} : conn'[u] = conn[u]
    BY <1>9, <1>d DEF RecvError, ThreadFrame
  <2> DEFINE read == [w[t] EXCEPT !.pc = "lock", !.all = @ + n, !.got = n]
  <2>3. w' = [w EXCEPT ![t] = read] /\ read.pc = "lock"
    BY <1>d, <2>1 DEF Thread
  <2> HIDE DEF read
  <2>4. w'[t].pc = "lock" /\ \A u \in T \ {t} : w'[u] = w[u]
    BY <1>d, <2>3
  <2>5. LockInv'
    BY <1>l, <2>2, <2>4, QuietLock
  <2> QED BY <2>2, <2>4, <2>5, StepOfOneLive
<1>10. CASE LockRate(t)
  <2>1. /\ w[t].pc = "lock" /\ lock = Unlocked /\ lock' = t
        /\ UNCHANGED <<conn, peerUp, failures, tainted>>
        /\ \A u \in T \ {t} : w'[u] = w[u]
    BY <1>10, <1>d DEF LockRate, ThreadFrame
  <2>2. w'[t].pc = "store" /\ w'[t].size = w[t].size /\ w'[t].all = w[t].all
    BY <1>10, <1>d DEF LockRate, Thread
  <2>3. (~tainted' /\ failures = 0) => ServedInv(t)'
    BY <1>s, <2>1, <2>2 DEF ServedInv, Remaining
  <2>4. LockInv'
    <3>1. \A u \in T : w[u].pc # "store"
      BY <1>l, <2>1, PartTypes DEF LockInv
    <3> QED BY <2>1, <2>2, <3>1 DEF LockInv
  <2> QED BY <2>1, <2>3, <2>4, StepOfOneLive
<1>11. CASE StoreRate(t)
  <2> DEFINE new == [w[t] EXCEPT !.pc = "recv", !.got = 0, !.ld = 0]
  <2>1. /\ w[t].pc = "store" /\ lock' = Unlocked
        /\ UNCHANGED <<conn, peerUp, failures, tainted>>
        /\ w' = [w EXCEPT ![t] = new]
    BY <1>11 DEF StoreRate, ThreadFrame
  <2>2. new.pc = "recv" /\ new.size = w[t].size /\ new.all = w[t].all
    BY <1>d DEF Thread
  <2> HIDE DEF new
  <2>3. w'[t] = new /\ \A u \in T \ {t} : w'[u] = w[u]
    BY <1>d, <2>1
  <2>4. (~tainted' /\ failures = 0) => ServedInv(t)'
    BY <1>s, <2>1, <2>2, <2>3 DEF ServedInv, Remaining
  <2>5. LockInv'
    <3>1. \A u \in T \ {t} : w[u].pc # "store"
      BY <1>l, <2>1 DEF LockInv
    <3>2. \A u \in T : w'[u].pc # "store"
      BY <2>2, <2>3, <3>1
    <3> QED BY <2>1, <3>2 DEF LockInv
  <2> QED BY <2>1, <2>3, <2>4, <2>5, StepOfOneLive
<1>12. CASE Finish(t)
  <2>1. /\ w[t].pc = "recv" /\ UNCHANGED <<lock, peerUp, failures, tainted>>
        /\ \A u \in T \ {t} : w'[u] = w[u] /\ conn'[u] = conn[u]
    BY <1>12, <1>d DEF Finish, Goto, ThreadFrame
  <2>2. w'[t].pc = "done"
    BY <1>12, <1>d DEF Finish, Goto, Thread
  <2>3. LockInv' /\ ServedInv(t)'
    BY <1>l, <2>1, <2>2, QuietLock DEF ServedInv
  <2> QED BY <2>1, <2>3, StepOfOneLive
<1> QED BY <1>1, <1>2, <1>3, <1>4, <1>5, <1>6, <1>7, <1>8, <1>9, <1>10, <1>11, <1>12
     DEF ThreadStep

LEMMA MainStepLive ==
    ASSUME TypeOK, PrefixInv, LiveInv, MainStep
    PROVE  LiveInv'
<1>d. DOMAIN w = T /\ idx \in 0 .. Threads /\ LockInv /\ FrameInv
  BY DEF TypeOK, DataTypeOK, MainTypeOK, LiveInv, PrefixInv
<1>i. idx < Threads => idx \in T
  BY <1>d, PartTypes
<1>1. CASE MeasureMissing \/ MergeMissing
  BY <1>1, DieLive DEF MeasureMissing, MergeMissing
<1>2. CASE CreateThread \/ ContinuePart
  <2>1. /\ idx \in T /\ mpc \in {"create", "add"}
        /\ UNCHANGED <<lock, conn, peerUp, failures, tainted>>
    BY <1>2, <1>i DEF CreateThread, ContinuePart, MainFrame, TypeOK, MainTypeOK
  <2>2. PICK t \in T : t = idx
    BY <2>1
  <2>3. w[t].pc = "none"
    <3>1. t >= idx
      BY <1>d, <2>2
    <3> QED BY <1>d, <2>1, <3>1 DEF FrameInv
  <2>4. w' = w \/ \E size, start : w' = [w EXCEPT ![t] = NewThread(size, start)]
    BY <1>2, <2>2 DEF CreateThread, ContinuePart
  <2>5. w'[t].pc \in {"none", "connect"} /\ \A u \in T \ {t} : w'[u] = w[u]
    BY <1>d, <2>3, <2>4 DEF NewThread
  <2>6. LockInv'
    BY <1>d, <2>1, <2>3, <2>5, QuietLock
  <2>7. ServedInv(t)'
    BY <2>5 DEF ServedInv
  <2> QED BY <2>1, <2>5, <2>6, <2>7, StepOfOneLive
<1>3. CASE Join
  <2>1. /\ \A u \in T : w[u].pc \in {"none", "done"}
        /\ w' = [t \in T |-> NoThread]
        /\ UNCHANGED <<lock, conn, peerUp, failures, tainted>>
    BY <1>3 DEF Join, MainFrame
  <2>2. lock = Unlocked
    BY <1>d, <2>1 DEF LockInv, TypeOK, SharedTypeOK
  <2>3. \A u \in T : w'[u].pc = "none"
    BY <2>1 DEF NoThread
  <2>4. LockInv' /\ \A u \in T : ServedInv(u)'
    BY <2>1, <2>2, <2>3 DEF LockInv, ServedInv
  <2> QED BY <2>1, <2>4 DEF LiveInv
<1>4. CASE MeasurePart \/ MergePart \/ MergeEmpty \/ MergeEnd \/ Cleanup
  <2>1. UNCHANGED <<w, lock, conn, peerUp, failures, tainted>>
    BY <1>4 DEF MeasurePart, MergePart, MergeEmpty, MergeEnd, Cleanup, MainFrame
  <2> QED BY <2>1 DEF LiveInv, LockInv, ServedInv, Remaining
<1> QED BY <1>1, <1>2, <1>3, <1>4 DEF MainStep

LEMMA LiveInductive == TypeOK /\ PrefixInv /\ LiveInv /\ [Next]_vars => LiveInv'
<1> SUFFICES ASSUME TypeOK, PrefixInv, LiveInv, [Next]_vars PROVE LiveInv'
  OBVIOUS
<1>1. ASSUME NEW o \in Ops, Spawn(o) PROVE LiveInv'
  <2>1. /\ lock' = Unlocked /\ mpc \in {"none", "done", "dead"}
        /\ UNCHANGED <<w, conn, peerUp, failures, tainted>>
    BY <1>1 DEF Spawn, Ended
  <2>2. \A u \in T : w[u].pc = "none"
    BY <2>1 DEF PrefixInv, FrameInv
  <2>3. LockInv' /\ \A u \in T : ServedInv(u)'
    BY <2>1, <2>2 DEF LockInv, ServedInv
  <2> QED BY <2>1, <2>3 DEF LiveInv
<1>2. CASE MainStep
  BY <1>2, MainStepLive
<1>3. ASSUME NEW t \in T, ThreadStep(t) PROVE LiveInv'
  BY <1>3, ThreadStepLive
<1>4. CASE Kill
  BY <1>4, DieLive DEF Kill
<1>5. ASSUME NEW k \in {0, 1}, PeerDies(k) PROVE LiveInv'
  <2>1. failures' = failures + 1 /\ failures \in Nat /\ w' = w /\ lock' = lock
    BY <1>5 DEF PeerDies, TypeOK, WorldTypeOK
  <2>2. LockInv'
    BY <2>1 DEF LiveInv, LockInv
  <2> QED BY <2>1, <2>2 DEF LiveInv
<1>6. CASE UNCHANGED vars
  BY <1>6 DEF vars, LiveInv, LockInv, ServedInv, Remaining
<1> QED BY <1>1, <1>2, <1>3, <1>4, <1>5, <1>6 DEF Next

(* The mutex is held by who is about to give it back, and a live server owes *)
(* a thread exactly what its part lacks.                                     *)
THEOREM LiveInvCorrect == Spec => []LiveInv
<1>1. Init => TypeOK /\ PrefixInv /\ LiveInv
  <2>1. Init => LiveInv
    BY DEF Init, LiveInv, LockInv, ServedInv, NoThread
  <2> QED BY <2>1, InitType, InitPrefix
<1>2. TypeOK /\ PrefixInv /\ LiveInv /\ [Next]_vars => TypeOK' /\ PrefixInv' /\ LiveInv'
  BY TypeInductive, PrefixInductive, LiveInductive
<1> QED BY <1>1, <1>2, PTL DEF Spec

(* While requests do not meet and servers live, every thread that has not    *)
(* ended can go on, or waits for one that can: the safety core of Completes. *)
THEOREM NobodyWaitsInVainCorrect == Spec => []NobodyWaitsInVain
<1>1. TypeOK /\ LiveInv => NobodyWaitsInVain
  <2> SUFFICES ASSUME TypeOK, LiveInv, ~tainted, failures = 0, NEW t \in T
               PROVE  w[t].pc \in {"none", "done"} \/ Ready(t) \/ WaitsForLock(t)
    BY DEF NobodyWaitsInVain
  <2>1. w[t].pc \in Workers /\ ServedInv(t) /\ LockInv
    BY DEF TypeOK, DataTypeOK, Thread, LiveInv
  <2>2. CASE w[t].pc \in {"none", "done", "connect", "format", "format2", "send", "store"}
    BY <2>2 DEF Ready
  <2>3. CASE w[t].pc = "response"
    BY <2>1, <2>3 DEF ServedInv, Ready
  <2>4. CASE w[t].pc = "recv"
    <3>1. conn[t].st = "open" /\ conn[t].left = Remaining(t)
      BY <2>1, <2>4 DEF ServedInv
    <3>2. Remaining(t) <= 0 \/ conn[t].left > 0
      BY <3>1, Components
    <3> QED BY <2>4, <3>1, <3>2 DEF Ready
  <2>5. CASE w[t].pc = "lock"
    <3>1. lock = Unlocked \/ (lock \in T /\ w[lock].pc = "store")
      BY <2>1 DEF LockInv, TypeOK, SharedTypeOK
    <3>2. (lock \in T /\ w[lock].pc = "store") => lock # t
      BY <2>5
    <3> QED BY <2>5, <3>1, <3>2 DEF Ready, WaitsForLock
  <2> QED BY <2>1, <2>2, <2>3, <2>4, <2>5 DEF Workers, ServedInv
<1> QED BY <1>1, TypeCorrect, LiveInvCorrect, PTL
===============================================================================
