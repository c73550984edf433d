-------------------------- MODULE HttpDownload_proofs -------------------------
(***************************************************************************)
(* Proofs about HttpDownload for every file size, number of threads, block *)
(* size, number of processes and of failures: its types, that parts are    *)
(* prefixes unless a thread used what was another's, that the bytes shown  *)
(* are never more than there are, that no thread waits for nothing, and    *)
(* that a process nothing disturbs delivers the whole file and implements  *)
(* ResumableTransfer.                                                      *)
(***************************************************************************)
EXTENDS HttpDownload, PartLemmas

-------------------------------------------------------------------------------
(* Parts and records *)

(* Parts are numbers below that of the threads, and lie inside the file.     *)
LEMMA PartTypes ==
    /\ T \subseteq Nat /\ 0 \in T /\ T = 0 .. Threads - 1
    /\ \A t \in T : t < Threads
    /\ \A i \in 0 .. Threads : i < Threads => i \in T
    /\ \A t \in T : /\ Home(t) \in Nat /\ PartSize(FileSize, Threads, t) \in Nat
                    /\ Home(t) + PartSize(FileSize, Threads, t) <= FileSize
<1>1. /\ T \subseteq Nat /\ 0 \in T /\ T = 0 .. Threads - 1
      /\ \A t \in T : t < Threads
  BY ConstantsAssumption DEF T, Parts
<1>2. \A i \in 0 .. Threads : i < Threads => i \in T
  BY ConstantsAssumption DEF T, Parts
<1>3. ASSUME NEW t \in T
      PROVE  /\ Home(t) \in Nat /\ PartSize(FileSize, Threads, t) \in Nat
             /\ Home(t) + PartSize(FileSize, Threads, t) <= FileSize
  BY ConstantsAssumption, PartInFile DEF T, Home
<1> QED BY <1>1, <1>2, <1>3

(* The range of a part, as eachpart gives it, is that part if the size was   *)
(* learnt, and some range of integers whatever getsize returned.             *)
LEMMA Ranges ==
    ASSUME TypeOK, NEW t \in T
    PROVE  /\ First(t) \in Int /\ Last(t) \in Int
           /\ size = FileSize =>
                /\ First(t) = Home(t) /\ Last(t) + 1 = Home(t) + PartSize(FileSize, Threads, t)
                /\ Length(t) = PartSize(FileSize, Threads, t)
<1>0. /\ size \in {-1, 0, FileSize} /\ FileSize \in Nat \ {0} /\ Threads \in Nat \ {0}
      /\ t \in Nat /\ t < Threads
  BY ConstantsAssumption, PartTypes DEF TypeOK, ProcessTypeOK
<1>1. Each \in Int
  <2>1. CASE size < 0
    <3>1. 1 \div Threads \in Nat
      BY <1>0, DivBounds
    <3>2. size = -1 /\ -size = 1
      BY <1>0, <2>1
    <3> QED BY <2>1, <3>1, <3>2 DEF Each
  <2>2. CASE ~(size < 0)
    <3>1. size \in Nat
      BY <1>0, <2>2
    <3>2. size \div Threads \in Nat
      BY <1>0, <3>1, DivBounds
    <3> QED BY <2>2, <3>2 DEF Each
  <2> QED BY <2>1, <2>2
<1>2. First(t) \in Int /\ Last(t) \in Int
  <2>1. \A k \in Nat : k * Each \in Int
    BY <1>1
  <2> HIDE DEF Each
  <2> QED BY <1>0, <2>1 DEF First, Last
<1>3. ASSUME size = FileSize
      PROVE  /\ First(t) = Home(t) /\ Last(t) + 1 = Home(t) + PartSize(FileSize, Threads, t)
             /\ Length(t) = PartSize(FileSize, Threads, t)
  <2> DEFINE q == FileSize \div Threads
  <2>1. Each = q /\ q \in Nat
    BY <1>0, <1>3, DivBounds DEF Each
  <2>2. Home(t) = q * t
    BY DEF Home, PartStart
  <2>3. PartSize(FileSize, Threads, t) = IF t # Threads - 1 THEN q ELSE FileSize - q * t
    BY DEF PartSize
  <2>4. First(t) = t * q /\ Last(t) = IF t < Threads - 1 THEN (t + 1) * q - 1 ELSE FileSize - 1
    BY <1>3, <2>1 DEF First, Last
  <2> HIDE DEF q
  <2>5. t * q = q * t /\ (t + 1) * q = q * t + q /\ q * t \in Nat
    BY <1>0, <2>1, MulStep
  <2>6. First(t) = Home(t) /\ Last(t) + 1 = Home(t) + PartSize(FileSize, Threads, t)
    BY <1>0, <2>1, <2>2, <2>3, <2>4, <2>5
  <2>7. Length(t) = PartSize(FileSize, Threads, t)
    BY <1>2, <2>6, PartTypes DEF Length
  <2> QED BY <2>6, <2>7
<1> QED BY <1>2, <1>3

(* The components of the records.                                            *)
LEMMA Components ==
    ASSUME TypeOK, NEW t \in T
    PROVE  /\ DOMAIN w = T /\ DOMAIN conn = T /\ DOMAIN part = T
           /\ w[t] \in Thread /\ conn[t] \in Conn /\ part[t] \in PartFile
           /\ w[t].name \in Names /\ w[t].size \in Nat /\ w[t].sum \in Nat
           /\ w[t].got \in Nat /\ w[t].ld \in Nat
           /\ conn[t].pos \in Int /\ conn[t].left \in Nat /\ conn[t].total \in Nat
           /\ part[t].disk \in Nat /\ part[t].mem \in Nat /\ part[t].clean \in Nat
           /\ Held(part[t]) \in Nat
<1>1. /\ DOMAIN w = T /\ DOMAIN conn = T /\ DOMAIN part = T
      /\ w[t] \in Thread /\ conn[t] \in Conn /\ part[t] \in PartFile
  BY DEF TypeOK, DataTypeOK, FilesTypeOK
<1>2. /\ w[t].name \in Names /\ w[t].size \in Nat /\ w[t].sum \in Nat
      /\ w[t].got \in Nat /\ w[t].ld \in Nat
  BY <1>1 DEF Thread
<1>3. conn[t].pos \in Int /\ conn[t].left \in Nat /\ conn[t].total \in Nat
  BY <1>1 DEF Conn
<1>4. part[t].disk \in Nat /\ part[t].mem \in Nat /\ part[t].clean \in Nat
  BY <1>1 DEF PartFile
<1>5. Held(part[t]) \in Nat
  BY <1>1, HeldType
<1> QED BY <1>1, <1>2, <1>3, <1>4, <1>5

(* What is there of nothing.                                                 *)
LEMMA Nothing ==
    /\ NoThread \in Thread /\ NoThread.pc = "none" /\ NoThread.got = 0
    /\ NoThread.ld = 0 /\ NoThread.sum = 0
    /\ NoConn \in Conn /\ NoPart \in PartFile /\ NoPart.mem = 0 /\ Held(NoPart) = 0 /\ NoPart.clean = 0
    /\ NoRange \in RangeType
BY PartTypes DEF NoThread, Thread, Names, NoConn, Conn, NoPart, PartFile, Held, NoRange, Ask,
                 RangeType

(* A thread goes to another place.                                           *)
LEMMA GotoIs ==
    ASSUME TypeOK, NEW t \in T,
           NEW pc \in {"clear", "parse", "name", "connect", "send", "header", "open", "read",
                       "load", "store", "close", "done"},
           Goto(t, pc)
    PROVE  /\ w' \in [T -> Thread] /\ \A u \in T \ {t} : w'[u] = w[u]
           /\ w'[t].pc = pc /\ w'[t].name = w[t].name /\ w'[t].size = w[t].size
           /\ w'[t].sum = w[t].sum /\ w'[t].got = w[t].got /\ w'[t].ld = w[t].ld
<1> DEFINE new == [w[t] EXCEPT !.pc = pc]
<1>1. w \in [T -> Thread] /\ w[t] \in Thread
  BY DEF TypeOK, DataTypeOK
<1>2. /\ new \in Thread /\ new.pc = pc /\ new.name = w[t].name /\ new.size = w[t].size
      /\ new.sum = w[t].sum /\ new.got = w[t].got /\ new.ld = w[t].ld
  BY <1>1 DEF Thread
<1>3. w' = [w EXCEPT ![t] = new]
  BY DEF Goto
<1> HIDE DEF new
<1> QED BY <1>1, <1>2, <1>3

(* What a step notes.                                                        *)
LEMMA TaintIs ==
    ASSUME TypeOK, NEW foreign \in BOOLEAN, Taint(foreign)
    PROVE  tainted' \in BOOLEAN /\ (~tainted' => ~tainted /\ ~foreign)
BY DEF TypeOK, FlagTypeOK, Taint

-------------------------------------------------------------------------------
(* One thread *)

(* What is known of a thread that lives, before its step.                    *)
LEMMA Living ==
    ASSUME IInv, NEW t \in T, w[t].pc # "none"
    PROVE  /\ TypeOK /\ mpc = "create" /\ ThreadStage(t) /\ t < idx /\ idx \in Nat /\ t \in Nat
           /\ size \in {-1, FileSize} /\ (size = -1 => failures > 0)
           /\ ~tainted => RangeOK(t) /\ PartOK(t) /\ ConnOK(t)
           /\ (~tainted /\ failures = 0 /\ w[t].pc = "done") => PartWhole(t)
<1>1. TypeOK /\ ThreadStage(t) /\ idx \in Nat /\ t \in Nat
  BY PartTypes, ConstantsAssumption DEF IInv, FrameInv, TypeOK, ProcessTypeOK
<1>2. mpc = "create" /\ ~(t >= idx)
  BY <1>1 DEF ThreadStage
<1>3. size \in {-1, FileSize} /\ (size = -1 => failures > 0)
  BY <1>2 DEF IInv, FrameInv, StageInv
<1>4. t < idx
  BY <1>1, <1>2
<1> QED BY <1>1, <1>2, <1>3, <1>4 DEF IInv, OwnInv, MergeInv, Passed

(* What is said of a thread lasts while another steps and leaves its part    *)
(* file alone.                                                               *)
LEMMA Untouched ==
    ASSUME NEW u \in T, UNCHANGED <<size, arg>>,
           w'[u] = w[u], conn'[u] = conn[u], part'[u] = part[u],
           req' = req \/ req'.name # u,
           failures \in Nat, failures' \in Nat, failures <= failures'
    PROVE  /\ RangeOK(u) => RangeOK(u)'
           /\ PartOK(u) => PartOK(u)'
           /\ ConnOK(u) => ConnOK(u)'
<1>1. RangeOK(u) => RangeOK(u)'
  <2>1. Lacking(u)' = Lacking(u)
    BY DEF Lacking, Ask, First, Last, Each
  <2> QED BY <2>1 DEF RangeOK
<1>2. Held(part[u])' = Held(part[u])
  BY DEF Held
<1>3. PartOK(u) => PartOK(u)'
  BY <1>2 DEF PartOK
<1>4. StreamOK(u) => StreamOK(u)'
  BY <1>2 DEF StreamOK
<1>5. ConnOK(u) => ConnOK(u)'
  BY <1>2, <1>4 DEF ConnOK
<1> QED BY <1>1, <1>3, <1>5

(* The invariant after a step of thread t.                                   *)
LEMMA StepOfOne ==
    ASSUME IInv, NEW t \in T, w[t].pc # "none",
           UNCHANGED <<mpc, size, idx, arg, runs>>, target' \in [len : Nat, clean : Nat],
           w' \in [T -> Thread], conn' \in [T -> Conn], part' \in [T -> PartFile],
           \A u \in T \ {t} : w'[u] = w[u] /\ conn'[u] = conn[u],
           hname' \in Names, hsize' \in Nat, showbyte' \in Nat, astray' \in Nat,
           req' \in RangeType,
           tainted' \in BOOLEAN, failures' \in 0 .. MaxFailures, failures <= failures',
           w'[t].pc # "none", ThreadStage(t)',
           ~tainted' => /\ ~tainted /\ \A u \in T \ {t} : part'[u] = part[u]
                        /\ req' = req \/ req'.name = t
                        /\ RangeOK(t)' /\ PartOK(t)' /\ ConnOK(t)'
                        /\ (w'[t].pc = "done" /\ failures' = 0) => PartWhole(t)'
    PROVE  IInv'
<1>0. TypeOK /\ mpc = "create" /\ failures \in Nat /\ failures' \in Nat
  BY Living, ConstantsAssumption DEF TypeOK, ProcessTypeOK
<1>1. TypeOK'
  BY <1>0 DEF TypeOK, ProcessTypeOK, SharedTypeOK, DataTypeOK, FilesTypeOK, FlagTypeOK
<1>2. FrameInv'
  <2>1. StageInv'
    BY <1>0 DEF IInv, FrameInv, StageInv
  <2>2. ASSUME NEW u \in T PROVE ThreadStage(u)'
    <3>1. CASE u = t
      BY <3>1
    <3>2. CASE u # t
      <4>1. ThreadStage(u)
        BY DEF IInv, FrameInv
      <4> QED BY <3>2, <4>1 DEF ThreadStage
    <3> QED BY <3>1, <3>2
  <2> QED BY <2>1, <2>2 DEF FrameInv
<1>3. OwnInv'
  <2>1. ASSUME ~tainted', NEW u \in T \ {t} PROVE RangeOK(u)' /\ PartOK(u)' /\ ConnOK(u)'
    <3>1. RangeOK(u) /\ PartOK(u) /\ ConnOK(u)
      BY <2>1 DEF IInv, OwnInv
    <3>2. req' = req \/ req'.name # u
      BY <2>1
    <3> QED BY <1>0, <2>1, <3>1, <3>2, Untouched
  <2> QED BY <2>1 DEF OwnInv
<1>4. MergeInv'
  <2>1. ASSUME ~tainted', failures' = 0, NEW u \in T, Passed(u)' PROVE PartWhole(u)'
    <3>1. failures = 0 /\ ~tainted
      BY <1>0, <2>1
    <3>2. CASE u = t
      BY <2>1, <3>2 DEF Passed
    <3>3. CASE u # t
      BY <2>1, <3>1, <3>3 DEF IInv, MergeInv, Passed, PartWhole
    <3> QED BY <3>2, <3>3
  <2> QED BY <1>0, <2>1 DEF MergeInv
<1> QED BY <1>1, <1>2, <1>3, <1>4 DEF IInv

(* What is shared, and its types.                                            *)
LEMMA Shared ==
    ASSUME TypeOK
    PROVE  /\ hname \in Names /\ hsize \in Nat /\ showbyte \in Nat /\ astray \in Nat
           /\ req \in RangeType /\ arg \in RangeType
           /\ failures \in 0 .. MaxFailures /\ failures \in Nat /\ failures <= failures
           /\ w \in [T -> Thread] /\ conn \in [T -> Conn] /\ part \in [T -> PartFile]
           /\ target \in [len : Nat, clean : Nat]
           /\ target.len \in Nat /\ target.clean \in Nat /\ idx \in 0 .. Threads
           /\ runs \in 0 .. MaxRuns
BY ConstantsAssumption DEF TypeOK, ProcessTypeOK, SharedTypeOK, DataTypeOK, FilesTypeOK

(* http_get clears the globals, ...                                          *)
LEMMA ClearInfoKeeps == ASSUME IInv, NEW t \in T, ClearInfo(t) PROVE IInv'
<1>0. TypeOK /\ w[t].pc = "clear"
  BY DEF IInv, ClearInfo
<1>1. /\ Goto(t, "parse") /\ hname' = Nowhere /\ hsize' = 0
      /\ UNCHANGED <<mpc, size, idx, arg, target, astray, runs, req, showbyte, conn, part, failures, tainted>>
  BY DEF ClearInfo, ThreadFrame
<1>2. /\ w' \in [T -> Thread] /\ \A u \in T \ {t} : w'[u] = w[u]
      /\ w'[t].pc = "parse" /\ w'[t].sum = w[t].sum /\ w'[t].got = w[t].got /\ w'[t].ld = w[t].ld
  BY <1>0, <1>1, GotoIs
<1>3. tainted' \in BOOLEAN /\ (~tainted' => ~tainted)
  BY <1>0, <1>1 DEF TypeOK, FlagTypeOK
<1>4. hname' \in Names /\ hsize' \in Nat
  BY <1>1 DEF Names
<1>5. ThreadStage(t)'
  BY <1>0, <1>1, <1>2, Living DEF ThreadStage, Starting
<1>6. ASSUME ~tainted' PROVE RangeOK(t)' /\ PartOK(t)' /\ ConnOK(t)'
  <2>1. RangeOK(t) /\ PartOK(t)
    BY <1>0, <1>3, <1>6, Living
  <2>2. Lacking(t)' = Lacking(t) /\ Held(part[t])' = Held(part[t])
    BY <1>1 DEF Lacking, Ask, First, Last, Each, Held
  <2>3. RangeOK(t)'
    BY <1>0, <1>1, <1>2, <2>1, <2>2 DEF RangeOK, Starting
  <2>4. PartOK(t)'
    BY <1>0, <1>1, <1>2, <2>1, <2>2 DEF PartOK
  <2>5. ConnOK(t)'
    BY <1>2 DEF ConnOK
  <2> QED BY <2>3, <2>4, <2>5
<1>7. w'[t].pc # "none" /\ w'[t].pc # "done" /\ w[t].pc # "none"
  BY <1>0, <1>2
<1> QED BY <1>0, <1>1, <1>2, <1>3, <1>4, <1>5, <1>6, <1>7, Shared, StepOfOne

(* ... has the url parsed into host_info, ...                                *)
LEMMA ParseUrlKeeps == ASSUME IInv, NEW t \in T, ParseUrl(t) PROVE IInv'
<1>0. TypeOK /\ w[t].pc = "parse"
  BY DEF IInv, ParseUrl
<1>1. /\ Goto(t, "name") /\ hname' = Target
      /\ UNCHANGED <<mpc, size, idx, arg, target, astray, runs, hsize, req, showbyte, conn, part, failures,
                     tainted>>
  BY DEF ParseUrl, ThreadFrame
<1>2. /\ w' \in [T -> Thread] /\ \A u \in T \ {t} : w'[u] = w[u]
      /\ w'[t].pc = "name" /\ w'[t].sum = w[t].sum /\ w'[t].got = w[t].got /\ w'[t].ld = w[t].ld
  BY <1>0, <1>1, GotoIs
<1>3. tainted' \in BOOLEAN /\ (~tainted' => ~tainted)
  BY <1>0, <1>1 DEF TypeOK, FlagTypeOK
<1>4. hname' \in Names /\ hsize' \in Nat
  BY <1>0, <1>1, Shared DEF Names
<1>5. ThreadStage(t)'
  BY <1>0, <1>1, <1>2, Living DEF ThreadStage, Starting
<1>6. ASSUME ~tainted' PROVE RangeOK(t)' /\ PartOK(t)' /\ ConnOK(t)'
  <2>1. RangeOK(t) /\ PartOK(t)
    BY <1>0, <1>3, <1>6, Living
  <2>2. Lacking(t)' = Lacking(t) /\ Held(part[t])' = Held(part[t])
    BY <1>1 DEF Lacking, Ask, First, Last, Each, Held
  <2>3. RangeOK(t)'
    BY <1>0, <1>1, <1>2, <2>1, <2>2 DEF RangeOK, Starting
  <2>4. PartOK(t)'
    BY <1>0, <1>1, <1>2, <2>1, <2>2 DEF PartOK
  <2>5. ConnOK(t)'
    BY <1>2 DEF ConnOK
  <2> QED BY <2>3, <2>4, <2>5
<1>7. w'[t].pc # "none" /\ w'[t].pc # "done" /\ w[t].pc # "none"
  BY <1>0, <1>2
<1> QED BY <1>0, <1>1, <1>2, <1>3, <1>4, <1>5, <1>6, <1>7, Shared, StepOfOne

(* ... and copies the name of its part file.                                 *)
LEMMA TakeNameKeeps == ASSUME IInv, NEW t \in T, TakeName(t) PROVE IInv'
<1>0. TypeOK /\ w[t].pc = "name"
  BY DEF IInv, TakeName
<1>1. /\ Goto(t, "connect") /\ hname' = arg.name /\ Taint(arg.name # t)
      /\ UNCHANGED <<mpc, size, idx, arg, target, astray, runs, hsize, req, showbyte, conn, part, failures>>
  BY DEF TakeName, ThreadFrame
<1>2. /\ w' \in [T -> Thread] /\ \A u \in T \ {t} : w'[u] = w[u]
      /\ w'[t].pc = "connect" /\ w'[t].sum = w[t].sum /\ w'[t].got = w[t].got /\ w'[t].ld = w[t].ld
  BY <1>0, <1>1, GotoIs
<1>3. tainted' \in BOOLEAN /\ (~tainted' => ~tainted)
  BY <1>0, <1>1, TaintIs
<1>4. hname' \in Names /\ hsize' \in Nat
  BY <1>0, <1>1, Shared DEF RangeType, Names
<1>5. ThreadStage(t)'
  BY <1>0, <1>1, <1>2, Living DEF ThreadStage, Starting
<1>6. ASSUME ~tainted' PROVE RangeOK(t)' /\ PartOK(t)' /\ ConnOK(t)'
  <2>1. RangeOK(t) /\ PartOK(t)
    BY <1>0, <1>3, <1>6, Living
  <2>2. Lacking(t)' = Lacking(t) /\ Held(part[t])' = Held(part[t])
    BY <1>1 DEF Lacking, Ask, First, Last, Each, Held
  <2>3. RangeOK(t)'
    BY <1>0, <1>1, <1>2, <2>1, <2>2 DEF RangeOK, Starting
  <2>4. PartOK(t)'
    BY <1>0, <1>1, <1>2, <2>1, <2>2 DEF PartOK
  <2>5. ConnOK(t)'
    BY <1>2 DEF ConnOK
  <2> QED BY <2>3, <2>4, <2>5
<1>7. w'[t].pc # "none" /\ w'[t].pc # "done" /\ w[t].pc # "none"
  BY <1>0, <1>2
<1> QED BY <1>0, <1>1, <1>2, <1>3, <1>4, <1>5, <1>6, <1>7, Shared, StepOfOne

(* It connects, and copies its range.                                        *)
LEMMA TakeRangeKeeps == ASSUME IInv, NEW t \in T, TakeRange(t) PROVE IInv'
<1>0. TypeOK /\ w[t].pc = "connect"
  BY DEF IInv, TakeRange
<1>1. /\ Goto(t, "send") /\ conn' = [conn EXCEPT ![t].st = "open"] /\ req' = arg
      /\ Taint(arg.name # t)
      /\ UNCHANGED <<mpc, size, idx, arg, target, astray, runs, hname, hsize, showbyte, part, failures>>
  BY DEF TakeRange, ThreadFrame
<1>2. /\ w' \in [T -> Thread] /\ \A u \in T \ {t} : w'[u] = w[u]
      /\ w'[t].pc = "send" /\ w'[t].sum = w[t].sum /\ w'[t].got = w[t].got /\ w'[t].ld = w[t].ld
  BY <1>0, <1>1, GotoIs
<1>3. tainted' \in BOOLEAN /\ (~tainted' => ~tainted /\ arg.name = t)
  BY <1>0, <1>1, TaintIs
<1>4. conn' \in [T -> Conn] /\ \A u \in T \ {t} : conn'[u] = conn[u]
  BY <1>0, <1>1, Shared DEF Conn
<1>5. ThreadStage(t)'
  BY <1>0, <1>1, <1>2, Living DEF ThreadStage, Starting
<1>6. ASSUME ~tainted' PROVE RangeOK(t)' /\ PartOK(t)' /\ ConnOK(t)'
  <2>1. RangeOK(t) /\ PartOK(t)
    BY <1>0, <1>3, <1>6, Living
  <2>2. Lacking(t)' = Lacking(t) /\ Held(part[t])' = Held(part[t])
    BY <1>1 DEF Lacking, Ask, First, Last, Each, Held
  <2>3. RangeOK(t)'
    BY <1>0, <1>1, <1>2, <1>3, <1>6, <2>1, <2>2 DEF RangeOK, Starting
  <2>4. PartOK(t)'
    BY <1>0, <1>1, <1>2, <2>1, <2>2 DEF PartOK
  <2>5. ConnOK(t)'
    BY <1>2 DEF ConnOK
  <2> QED BY <2>3, <2>4, <2>5
<1>7. w'[t].pc # "none" /\ w'[t].pc # "done" /\ w[t].pc # "none"
  BY <1>0, <1>2
<1> QED BY <1>0, <1>1, <1>2, <1>3, <1>4, <1>5, <1>6, <1>7, Shared, StepOfOne

(* Whatever a server answers has the type of a connection; a range inside the*)
(* file is answered with just its bytes.                                     *)
LEMMA AnswerIs ==
    ASSUME NEW r \in RangeType, NEW a \in Answers(r) \cup Pages
    PROVE  /\ a \in Conn
           /\ (a \in Answers(r) /\ r.start <= r.end /\ r.start < FileSize /\ r.end + 1 <= FileSize) =>
                /\ a.st = "open" /\ a.pos = r.start /\ a.left = a.total
                /\ a.left = r.end + 1 - r.start
<1>0. r.start \in Int /\ r.end \in Int /\ FileSize \in Nat /\ Block \in Nat
  BY ConstantsAssumption DEF RangeType
<1>1. CASE a \in Answers(r) /\ r.end < r.start
  BY <1>0, <1>1 DEF Answers, Conn
<1>2. CASE a \in Answers(r) /\ ~(r.end < r.start) /\ r.start < FileSize
  <2> DEFINE n == Lesser(r.end + 1, FileSize) - r.start
  <2>1. a = [st |-> "open", pos |-> r.start, left |-> n, total |-> n]
    BY <1>2 DEF Answers
  <2>2. n \in Nat /\ (r.end + 1 <= FileSize => n = r.end + 1 - r.start)
    BY <1>0, <1>2 DEF Lesser
  <2> HIDE DEF n
  <2> QED BY <1>0, <2>1, <2>2 DEF Conn
<1>3. CASE a \in Pages /\ ~(a \in Answers(r) /\ r.start < FileSize)
  <2>1. PICK n \in 0 .. Block : a = [st |-> "open", pos |-> -1, left |-> n, total |-> n]
    BY <1>3 DEF Pages
  <2> QED BY <1>0, <1>3, <2>1 DEF Conn
<1> QED BY <1>1, <1>2, <1>3 DEF Answers

(* The range of a part of a file whose size was not learnt ends before it    *)
(* begins.                                                                   *)
LEMMA NoRangeWithoutSize ==
    ASSUME TypeOK, NEW t \in T, size < 0
    PROVE  Last(t) < First(t)
<1> DEFINE q == 1 \div Threads
<1>1. /\ Threads \in Nat \ {0} /\ t \in Nat /\ t < Threads
      /\ q \in Nat /\ q * Threads <= 1 /\ 1 < q * Threads + Threads
  BY ConstantsAssumption, PartTypes, DivBounds
<1>2. Each = 0 - q
  <2>1. size \in {-1, 0, FileSize} /\ FileSize \in Nat \ {0}
    BY ConstantsAssumption DEF TypeOK, ProcessTypeOK
  <2>2. -size = 1
    <3> HIDE DEF q
    <3> QED BY <2>1
  <2>3. Each = -q
    BY <2>2 DEF Each
  <2> HIDE DEF q
  <2> QED BY <1>1, <2>3
<1> HIDE DEF q
<1>s. size = -1 /\ size - 1 = -2
  BY ConstantsAssumption DEF TypeOK, ProcessTypeOK
<1>3. CASE Threads = 1
  <2>1. t = 0 /\ Last(t) = -2
    BY <1>1, <1>3, <1>s DEF Last
  <2>2. 0 * Each = 0
    BY <1>1, <1>2
  <2> QED BY <2>1, <2>2 DEF First
<1>4. CASE Threads # 1
  <2>1. q = 0
    <3>1. ASSUME q # 0 PROVE FALSE
      <4>1. Threads * 1 <= Threads * q
        BY <1>1, <3>1, MulMono
      <4>2. Threads * q = q * Threads /\ q * Threads \in Nat /\ Threads * 1 = Threads
        BY <1>1
      <4> QED BY <1>1, <1>4, <4>1, <4>2
    <3> QED BY <3>1
  <2>2. Each = 0
    BY <1>2, <2>1
  <2>3. First(t) = 0 /\ (Last(t) = -1 \/ Last(t) = -2)
    BY <1>1, <1>s, <2>2 DEF First, Last
  <2> QED BY <2>3
<1> QED BY <1>3, <1>4

(* It sends its request, and the server has the answer.                      *)
LEMMA SendRequestKeeps == ASSUME IInv, NEW t \in T, SendRequest(t) PROVE IInv'
<1>0. TypeOK /\ w[t].pc = "send"
  BY DEF IInv, SendRequest
<1>1. /\ Goto(t, "header") /\ Taint(hname = Nowhere \/ req.name # t \/ req.end < req.start)
      /\ UNCHANGED <<mpc, size, idx, arg, target, astray, runs, hname, hsize, req, showbyte, part,
                     failures>>
  BY DEF SendRequest, ThreadFrame
<1>2. PICK a \in Answers(req) \cup Pages :
        conn' = [conn EXCEPT ![t] = a] /\ (hname # Nowhere => a \in Answers(req))
  BY DEF SendRequest
<1>3. /\ w' \in [T -> Thread] /\ \A u \in T \ {t} : w'[u] = w[u]
      /\ w'[t].pc = "header" /\ w'[t].sum = w[t].sum /\ w'[t].got = w[t].got
      /\ w'[t].ld = w[t].ld
  BY <1>0, <1>1, GotoIs
<1>4. /\ tainted' \in BOOLEAN
      /\ ~tainted' => ~tainted /\ hname # Nowhere /\ req.name = t /\ ~(req.end < req.start)
  <2> DEFINE foreign == hname = Nowhere \/ req.name # t \/ req.end < req.start
  <2>1. foreign \in BOOLEAN /\ Taint(foreign)
    BY <1>1
  <2>2. tainted' \in BOOLEAN /\ (~tainted' => ~tainted /\ ~foreign)
    <3> HIDE DEF foreign
    <3> QED BY <1>0, <2>1, TaintIs
  <2> QED BY <2>2
<1>5. /\ a \in Conn
      /\ (a \in Answers(req) /\ req.start <= req.end /\ req.start < FileSize
            /\ req.end + 1 <= FileSize) =>
           /\ a.st = "open" /\ a.pos = req.start /\ a.left = a.total
           /\ a.left = req.end + 1 - req.start
  BY <1>0, Shared, AnswerIs
<1>6. conn' \in [T -> Conn] /\ conn'[t] = a /\ \A u \in T \ {t} : conn'[u] = conn[u]
  BY <1>0, <1>2, <1>5, Shared
<1>7. ThreadStage(t)'
  BY <1>0, <1>1, <1>3, Living DEF ThreadStage, Starting
<1>8. ASSUME ~tainted' PROVE RangeOK(t)' /\ PartOK(t)' /\ ConnOK(t)'
  <2>1. RangeOK(t) /\ PartOK(t)
    BY <1>0, <1>4, <1>8, Living
  <2>2. req.start = First(t) + part[t].disk /\ req.end = Last(t)
    BY <1>0, <1>4, <1>8, <2>1 DEF RangeOK, Lacking, Ask
  <2>3. /\ First(t) \in Int /\ Last(t) \in Int /\ part[t].disk \in Nat /\ part[t].mem = 0
        /\ First(t) + part[t].disk <= Last(t)
    BY <1>0, <1>4, <1>8, <2>1, <2>2, Ranges, Components DEF PartOK
  <2>4. size = FileSize
    <3>1. size = -1 => size < 0
      OBVIOUS
    <3> QED BY <1>0, <2>3, <3>1, Living, NoRangeWithoutSize
  <2>5. /\ First(t) = Home(t) /\ Last(t) + 1 = Home(t) + PartSize(FileSize, Threads, t)
        /\ Home(t) \in Nat /\ PartSize(FileSize, Threads, t) \in Nat
        /\ Home(t) + PartSize(FileSize, Threads, t) <= FileSize /\ FileSize \in Nat
    BY <1>0, <2>4, Ranges, PartTypes, ConstantsAssumption
  <2>6. /\ a.st = "open" /\ a.pos = Home(t) + part[t].disk /\ a.left = a.total
        /\ part[t].disk + a.left = PartSize(FileSize, Threads, t) /\ a.left > 0
        /\ PartSize(FileSize, Threads, t) > 0
    BY <1>2, <1>4, <1>5, <1>8, <2>2, <2>3, <2>5
  <2>7. Held(part'[t]) = part[t].disk /\ Held(part'[t]) = Held(part[t])
    BY <1>1, <2>3 DEF Held
  <2>8. w'[t].sum = 0
    BY <1>0, <1>3, Living DEF ThreadStage
  <2>9. StreamOK(t)'
    BY <1>5, <1>6, <2>3, <2>5, <2>6, <2>7, <2>8 DEF StreamOK, Conn
  <2>10. ConnOK(t)'
    BY <1>3, <1>6, <2>6, <2>9 DEF ConnOK
  <2>11. RangeOK(t)'
    BY <1>3 DEF RangeOK, Starting
  <2>12. PartOK(t)'
    BY <1>0, <1>1, <1>3, <2>1, <2>7 DEF PartOK
  <2> QED BY <2>10, <2>11, <2>12
<1>9. w'[t].pc # "none" /\ w'[t].pc # "done" /\ w[t].pc # "none"
  BY <1>0, <1>3
<1> QED BY <1>0, <1>1, <1>3, <1>4, <1>6, <1>7, <1>8, <1>9, Shared, StepOfOne

(* A connection and a part file that stay as they are.                       *)
LEMMA SameStream ==
    ASSUME NEW t \in T, StreamOK(t), conn'[t] = conn[t], Held(part'[t]) = Held(part[t]),
           w'[t].sum = w[t].sum, failures > 0 => failures' > 0
    PROVE  StreamOK(t)'
BY DEF StreamOK

(* The header says how much follows.                                         *)
LEMMA HeaderKeeps == ASSUME IInv, NEW t \in T, Header(t) PROVE IInv'
<1>0. TypeOK /\ w[t].pc = "header"
  BY DEF IInv, Header
<1>1. /\ Goto(t, "open") /\ hsize' = conn[t].total
      /\ UNCHANGED <<mpc, size, idx, arg, target, astray, runs, hname, req, showbyte, conn, part,
                     failures, tainted>>
  BY DEF Header, ThreadFrame
<1>2. /\ w' \in [T -> Thread] /\ \A u \in T \ {t} : w'[u] = w[u]
      /\ w'[t].pc = "open" /\ w'[t].sum = w[t].sum /\ w'[t].got = w[t].got /\ w'[t].ld = w[t].ld
  BY <1>0, <1>1, GotoIs
<1>3. tainted' \in BOOLEAN
  BY <1>0, <1>1 DEF TypeOK, FlagTypeOK
<1>4. hsize' \in Nat
  BY <1>0, <1>1, Components
<1>5. ThreadStage(t)'
  BY <1>0, <1>1, <1>2, Living DEF ThreadStage, Starting
<1>6. ASSUME ~tainted' PROVE RangeOK(t)' /\ PartOK(t)' /\ ConnOK(t)'
  <2>1. PartOK(t) /\ ConnOK(t) /\ Held(part'[t]) = Held(part[t])
    BY <1>0, <1>1, <1>6, Living
  <2>2. StreamOK(t)'
    BY <1>0, <1>1, <1>2, <2>1, SameStream DEF ConnOK
  <2>3. RangeOK(t)' /\ ConnOK(t)'
    BY <1>0, <1>1, <1>2, <2>1, <2>2 DEF RangeOK, ConnOK, Starting
  <2>4. PartOK(t)'
    BY <1>0, <1>1, <1>2, <2>1 DEF PartOK
  <2> QED BY <2>3, <2>4
<1>7. w'[t].pc # "none" /\ w'[t].pc # "done" /\ w[t].pc # "none"
  BY <1>0, <1>2
<1> QED BY <1>0, <1>1, <1>2, <1>3, <1>4, <1>5, <1>6, <1>7, Shared, StepOfOne

(* The stream ends before the header.                                        *)
LEMMA HeaderLostKeeps == ASSUME IInv, NEW t \in T, HeaderLost(t) PROVE IInv'
<1> DEFINE lost == [conn[t] EXCEPT !.total = 0]
<1>0. TypeOK /\ w[t].pc = "header" /\ conn[t].st = "eof"
  BY DEF IInv, HeaderLost
<1>1. /\ Goto(t, "open") /\ conn' = [conn EXCEPT ![t] = lost]
      /\ UNCHANGED <<mpc, size, idx, arg, target, astray, runs, hname, hsize, req, showbyte, part,
                     failures, tainted>>
  BY DEF HeaderLost, ThreadFrame
<1>2. /\ w' \in [T -> Thread] /\ \A u \in T \ {t} : w'[u] = w[u]
      /\ w'[t].pc = "open" /\ w'[t].sum = w[t].sum /\ w'[t].got = w[t].got /\ w'[t].ld = w[t].ld
  BY <1>0, <1>1, GotoIs
<1>3. tainted' \in BOOLEAN
  BY <1>0, <1>1 DEF TypeOK, FlagTypeOK
<1>4. /\ lost \in Conn /\ lost.st = "eof" /\ lost.pos = conn[t].pos
      /\ lost.left = conn[t].left
  BY <1>0, Components DEF Conn
<1> HIDE DEF lost
<1>5. conn' \in [T -> Conn] /\ conn'[t] = lost /\ \A u \in T \ {t} : conn'[u] = conn[u]
  BY <1>0, <1>1, <1>4, Shared
<1>6. ThreadStage(t)'
  BY <1>0, <1>1, <1>2, Living DEF ThreadStage, Starting
<1>7. ASSUME ~tainted' PROVE RangeOK(t)' /\ PartOK(t)' /\ ConnOK(t)'
  <2>1. PartOK(t) /\ ConnOK(t) /\ Held(part'[t]) = Held(part[t])
    BY <1>0, <1>1, <1>7, Living
  <2>2. StreamOK(t)'
    BY <1>0, <1>1, <1>2, <1>4, <1>5, <2>1 DEF ConnOK, StreamOK
  <2>3. RangeOK(t)' /\ ConnOK(t)'
    BY <1>0, <1>1, <1>2, <1>4, <1>5, <2>1, <2>2 DEF RangeOK, ConnOK, Starting
  <2>4. PartOK(t)'
    BY <1>0, <1>1, <1>2, <2>1 DEF PartOK
  <2> QED BY <2>3, <2>4
<1>8. w'[t].pc # "none" /\ w'[t].pc # "done" /\ w[t].pc # "none"
  BY <1>0, <1>2
<1> QED BY <1>0, <1>1, <1>2, <1>3, <1>5, <1>6, <1>7, <1>8, Shared, StepOfOne

(* A part file is opened to append to it.                                    *)
LEMMA OpenedIs ==
    ASSUME TypeOK, NEW k,
           part' = [u \in T |-> IF u = k THEN [part[u] EXCEPT !.is = "file"] ELSE part[u]]
    PROVE  /\ part' \in [T -> PartFile] /\ \A u \in T \ {k} : part'[u] = part[u]
           /\ \A u \in T : /\ part'[u].disk = part[u].disk /\ part'[u].mem = part[u].mem
                          /\ part'[u].clean = part[u].clean
                          /\ Held(part'[u]) = Held(part[u])
<1>1. ASSUME NEW u \in T
      PROVE  /\ part'[u] \in PartFile /\ part'[u].disk = part[u].disk
             /\ part'[u].mem = part[u].mem /\ part'[u].clean = part[u].clean
             /\ u # k => part'[u] = part[u]
  <2> DEFINE new == [part[u] EXCEPT !.is = "file"]
  <2>1. part[u] \in PartFile
    BY DEF TypeOK, FilesTypeOK
  <2>2. /\ new \in PartFile /\ new.disk = part[u].disk /\ new.mem = part[u].mem
        /\ new.clean = part[u].clean
    BY <2>1 DEF PartFile
  <2>3. part'[u] = IF u = k THEN new ELSE part[u]
    OBVIOUS
  <2> HIDE DEF new
  <2> QED BY <2>1, <2>2, <2>3
<1>2. part' \in [T -> PartFile]
  BY <1>1
<1>3. \A u \in T : Held(part'[u]) = Held(part[u])
  BY <1>1 DEF Held
<1> QED BY <1>1, <1>2, <1>3

(* download gets copies of the globals, and opens the file.                  *)
LEMMA OpenKeeps == ASSUME IInv, NEW t \in T, Open(t) PROVE IInv'
<1> DEFINE new == [w[t] EXCEPT !.pc = "read", !.name = hname, !.size = hsize]
<1>0. TypeOK /\ w[t].pc = "open" /\ hname \in Names /\ hsize \in Nat
  BY Shared DEF IInv, Open
<1>1. /\ w' = [w EXCEPT ![t] = new]
      /\ part' = [u \in T |-> IF u = hname THEN [part[u] EXCEPT !.is = "file"] ELSE part[u]]
      /\ Taint(hname # t \/ hsize # conn[t].total)
      /\ UNCHANGED <<mpc, size, idx, arg, target, astray, runs, hname, hsize, req, showbyte, conn,
                     failures>>
  BY DEF Open, ThreadFrame
<1>2. /\ new \in Thread /\ new.pc = "read" /\ new.name = hname /\ new.size = hsize
      /\ new.sum = w[t].sum /\ new.got = w[t].got /\ new.ld = w[t].ld
  BY <1>0, Components DEF Thread
<1> HIDE DEF new
<1>3. /\ w' \in [T -> Thread] /\ \A u \in T \ {t} : w'[u] = w[u]
      /\ w'[t] = new
  BY <1>0, <1>1, <1>2, Shared
<1>4. tainted' \in BOOLEAN /\ (~tainted' => ~tainted /\ hname = t /\ hsize = conn[t].total)
  <2> DEFINE foreign == hname # t \/ hsize # conn[t].total
  <2>1. foreign \in BOOLEAN /\ Taint(foreign)
    BY <1>1
  <2>2. tainted' \in BOOLEAN /\ (~tainted' => ~tainted /\ ~foreign)
    <3> HIDE DEF foreign
    <3> QED BY <1>0, <2>1, TaintIs
  <2> QED BY <2>2
<1>5. /\ part' \in [T -> PartFile] /\ \A u \in T \ {hname} : part'[u] = part[u]
      /\ \A u \in T : /\ part'[u].disk = part[u].disk /\ part'[u].mem = part[u].mem
                     /\ part'[u].clean = part[u].clean /\ Held(part'[u]) = Held(part[u])
  BY <1>0, <1>1, OpenedIs
<1>6. ThreadStage(t)'
  BY <1>0, <1>1, <1>2, <1>3, Living DEF ThreadStage, Starting
<1>7. ASSUME ~tainted' PROVE RangeOK(t)' /\ PartOK(t)' /\ ConnOK(t)'
  <2>1. PartOK(t) /\ ConnOK(t) /\ hname = t /\ hsize = conn[t].total
    BY <1>0, <1>4, <1>7, Living
  <2>2. StreamOK(t)'
    BY <1>0, <1>1, <1>2, <1>3, <1>5, <2>1, SameStream DEF ConnOK
  <2>3. RangeOK(t)' /\ ConnOK(t)'
    BY <1>0, <1>1, <1>2, <1>3, <2>1, <2>2 DEF RangeOK, ConnOK, Starting
  <2>4. PartOK(t)'
    BY <1>0, <1>2, <1>3, <1>5, <2>1 DEF PartOK
  <2> QED BY <2>3, <2>4
<1>8. w'[t].pc # "none" /\ w'[t].pc # "done" /\ w[t].pc # "none"
  BY <1>0, <1>2, <1>3
<1> QED BY <1>0, <1>1, <1>3, <1>4, <1>5, <1>6, <1>7, <1>8, Shared, StepOfOne

(* What an fwrite does, to whatever file the thread has the name of.         *)
LEMMA WriteIs ==
    ASSUME TypeOK, NEW t \in T, NEW n \in Nat, Write(t, n)
    PROVE  LET k == w[t].name IN
           /\ part' \in [T -> PartFile] /\ target' \in [len : Nat, clean : Nat] /\ astray' \in Nat
           /\ \/ /\ k \in T /\ UNCHANGED <<target, astray>>
                 /\ \A u \in T \ {k} : part'[u] = part[u]
                 /\ Held(part'[k]) = Held(part[k]) + n
                 /\ part'[k].clean \in {part[k].clean, part[k].clean + n}
                 /\ (conn[t].pos = Home(k) + Held(part[k]) /\ part[k].clean = Held(part[k]))
                       => part'[k].clean = Held(part'[k])
              \/ k \notin T /\ part' = part /\ astray' = astray + n
<1> DEFINE k == w[t].name
           right == conn[t].pos = Home(k) + Held(part[k])
<1>0. /\ part \in [T -> PartFile] /\ target \in [len : Nat, clean : Nat] /\ astray \in Nat
      /\ T \subseteq Nat
  BY Shared, PartTypes
<1>1. CASE k \in T
  <2>1. /\ UNCHANGED <<target, astray>>
        /\ \E f \in 0 .. part[k].mem + n : part' = [part EXCEPT ![k] = Appended(part[k], n, right, f)]
    <3>1. k # Target
      BY <1>0, <1>1 DEF Target
    <3> QED BY <3>1 DEF Write
  <2>2. PICK f \in 0 .. part[k].mem + n : part' = [part EXCEPT ![k] = Appended(part[k], n, right, f)]
    BY <2>1
  <2>3. right \in BOOLEAN /\ part[k] \in PartFile
    BY <1>0, <1>1
  <2> HIDE DEF k
  <2> DEFINE p == Appended(part[k], n, right, f)
  <2>4. /\ p \in PartFile /\ Held(p) = Held(part[k]) + n
        /\ (right /\ part[k].clean = Held(part[k])) => p.clean = Held(p)
    <3> HIDE DEF right
    <3> QED BY <2>2, <2>3, AppendedIs
  <2>5. p.clean \in {part[k].clean, part[k].clean + n}
    <3> HIDE DEF right
    <3> QED BY <2>3 DEF Appended
  <2>6. part' = [part EXCEPT ![k] = p]
    BY <2>2
  <2> HIDE DEF p
  <2>7. part' \in [T -> PartFile] /\ part'[k] = p /\ \A u \in T \ {k} : part'[u] = part[u]
    BY <1>0, <1>1, <2>4, <2>6
  <2> QED BY <1>0, <1>1, <2>1, <2>4, <2>5, <2>7 DEF k, right
<1>2. CASE k \notin T
  <2>1. target' = [target EXCEPT !.len = @ + n] /\ astray' = astray + n /\ part' = part
    BY <1>2 DEF Write
  <2> QED BY <1>0, <1>2, <2>1
<1> QED BY <1>1, <1>2

(* What a read and the fwrite behind it do.                                  *)
LEMMA ReadIs ==
    ASSUME TypeOK, NEW t \in T, Read(t)
    PROVE  \E n \in 1 .. conn[t].left :
              /\ n \in Nat /\ Write(t, n)
              /\ w' \in [T -> Thread] /\ \A u \in T \ {t} : w'[u] = w[u]
              /\ w'[t].pc = "load" /\ w'[t].name = w[t].name /\ w'[t].size = w[t].size
              /\ w'[t].sum = w[t].sum + n /\ w'[t].got = n /\ w'[t].ld = w[t].ld
              /\ conn' \in [T -> Conn] /\ \A u \in T \ {t} : conn'[u] = conn[u]
              /\ conn'[t].st = conn[t].st /\ conn'[t].total = conn[t].total
              /\ conn'[t].pos = conn[t].pos + n /\ conn'[t].left = conn[t].left - n
<1>0. conn[t].left \in Nat /\ conn[t].pos \in Int /\ w[t].sum \in Nat
      /\ Block \in Nat /\ w[t] \in Thread /\ conn[t] \in Conn
  BY Components, ConstantsAssumption
<1>1. PICK n \in 1 .. Lesser(Block, conn[t].left) :
        /\ Write(t, n)
        /\ conn' = [conn EXCEPT ![t].pos = @ + n, ![t].left = @ - n]
        /\ w' = [w EXCEPT ![t].pc = "load", ![t].sum = @ + n, ![t].got = n]
  BY Zenon DEF Read
<1>3. n \in 1 .. conn[t].left /\ n \in Nat /\ conn[t].left - n \in Nat
  BY <1>0, <1>1 DEF Lesser
<1> DEFINE c == [conn[t] EXCEPT !.pos = conn[t].pos + n, !.left = conn[t].left - n]
           v == [w[t] EXCEPT !.pc = "load", !.sum = w[t].sum + n, !.got = n]
<1>6. /\ c \in Conn /\ c.st = conn[t].st /\ c.total = conn[t].total
      /\ c.pos = conn[t].pos + n /\ c.left = conn[t].left - n
  <2>1. conn[t].pos + n \in Int /\ conn[t].left - n \in Nat
    BY <1>0, <1>3
  <2> QED BY <1>0, <2>1 DEF Conn
<1>7. /\ v \in Thread /\ v.pc = "load" /\ v.name = w[t].name /\ v.size = w[t].size
      /\ v.sum = w[t].sum + n /\ v.got = n /\ v.ld = w[t].ld
  <2>1. w[t].sum + n \in Nat
    BY <1>0, <1>3
  <2> QED BY <1>0, <1>3, <2>1 DEF Thread
<1>8. conn' = [conn EXCEPT ![t] = c] /\ w' = [w EXCEPT ![t] = v]
  BY <1>1
<1> HIDE DEF c, v
<1>10. /\ w' \in [T -> Thread] /\ w'[t] = v /\ \A u \in T \ {t} : w'[u] = w[u]
       /\ conn' \in [T -> Conn] /\ conn'[t] = c /\ \A u \in T \ {t} : conn'[u] = conn[u]
  BY <1>6, <1>7, <1>8, Shared
<1> QED BY <1>1, <1>3, <1>6, <1>7, <1>10

LEMMA ReadKeeps == ASSUME IInv, NEW t \in T, Read(t) PROVE IInv'
<1>0. TypeOK /\ w[t].pc = "read"
  BY DEF IInv, Read
<1>1. UNCHANGED <<mpc, size, idx, arg, runs, hname, hsize, req, showbyte, failures, tainted>>
  BY DEF Read
<1>2. PICK n \in 1 .. conn[t].left :
        /\ n \in Nat /\ Write(t, n)
        /\ w' \in [T -> Thread] /\ \A u \in T \ {t} : w'[u] = w[u]
        /\ w'[t].pc = "load" /\ w'[t].name = w[t].name /\ w'[t].size = w[t].size
        /\ w'[t].sum = w[t].sum + n /\ w'[t].got = n /\ w'[t].ld = w[t].ld
        /\ conn' \in [T -> Conn] /\ \A u \in T \ {t} : conn'[u] = conn[u]
        /\ conn'[t].st = conn[t].st /\ conn'[t].total = conn[t].total
        /\ conn'[t].pos = conn[t].pos + n /\ conn'[t].left = conn[t].left - n
  BY <1>0, ReadIs
<1>7. /\ part' \in [T -> PartFile] /\ target' \in [len : Nat, clean : Nat] /\ astray' \in Nat
      /\ w[t].name = t =>
           /\ \A u \in T \ {t} : part'[u] = part[u]
           /\ Held(part'[t]) = Held(part[t]) + n
           /\ (conn[t].pos = Home(t) + Held(part[t]) /\ part[t].clean = Held(part[t]))
                 => part'[t].clean = Held(part'[t])
  BY <1>0, <1>2, WriteIs
<1>3. tainted' \in BOOLEAN
  BY <1>0, <1>1 DEF TypeOK, FlagTypeOK
<1>4. ThreadStage(t)'
  BY <1>0, <1>1, <1>2, Living DEF ThreadStage, Starting
<1>5. ASSUME ~tainted'
      PROVE  w[t].name = t /\ RangeOK(t)' /\ PartOK(t)' /\ ConnOK(t)'
  <2>1. PartOK(t) /\ ConnOK(t) /\ w[t].name = t /\ StreamOK(t)
    BY <1>0, <1>1, <1>5, Living DEF ConnOK
  <2>2. /\ Held(part'[t]) = Held(part[t]) + n /\ part'[t].clean = Held(part'[t])
    BY <1>7, <2>1 DEF PartOK, StreamOK
  <2>3. /\ n \in Nat /\ Held(part[t]) \in Nat /\ conn[t].left \in Nat /\ w[t].sum \in Nat
        /\ conn[t].total \in Nat /\ Home(t) \in Nat /\ PartSize(FileSize, Threads, t) \in Nat
    BY <1>0, Components, PartTypes
  <2>4. Held(part'[t]) + conn'[t].left = Held(part[t]) + conn[t].left
    BY <1>2, <2>2, <2>3
  <2>5. w'[t].sum + conn'[t].left = w[t].sum + conn[t].left
    BY <1>2, <2>3
  <2>6. conn'[t].pos = Home(t) + Held(part'[t])
    BY <1>2, <2>1, <2>2, <2>3 DEF StreamOK
  <2>7. StreamOK(t)'
    BY <1>1, <1>2, <2>1, <2>4, <2>5, <2>6 DEF StreamOK, Home
  <2>8. RangeOK(t)' /\ ConnOK(t)'
    BY <1>0, <1>1, <1>2, <2>1, <2>7 DEF RangeOK, ConnOK, Starting
  <2>9. Held(part'[t]) <= PartSize(FileSize, Threads, t)
    BY <1>2, <2>1, <2>2, <2>3, <2>4 DEF StreamOK
  <2>10. PartOK(t)'
    BY <1>2, <2>2, <2>9 DEF PartOK
  <2> QED BY <2>1, <2>8, <2>10
<1>6. w'[t].pc # "none" /\ w'[t].pc # "done" /\ w[t].pc # "none"
  BY <1>0, <1>2
<1> QED BY <1>0, <1>1, <1>2, <1>3, <1>4, <1>5, <1>6, <1>7, Shared, StepOfOne

(* Steps that only the thread itself and the counter see: its connection and *)
(* the part files stay.                                                      *)
LEMMA OwnStep ==
    ASSUME IInv, NEW t \in T, w[t].pc \in {"read", "load", "store"},
           UNCHANGED <<mpc, size, idx, arg, target, astray, runs, hname, hsize, req, conn, part, failures,
                       tainted>>,
           showbyte' \in Nat, w' \in [T -> Thread], \A u \in T \ {t} : w'[u] = w[u],
           w'[t].name = w[t].name, w'[t].size = w[t].size, w'[t].sum = w[t].sum,
           w'[t].pc \in {"read", "load", "store", "close"},
           w'[t].pc \notin {"load", "store"} => w'[t].got = 0,
           w'[t].pc # "store" => w'[t].ld = 0,
           ~tainted =>
             /\ (w'[t].pc = "read" /\ conn[t].st = "open" => conn[t].left > 0)
             /\ (w'[t].pc = "close" /\ failures = 0
                   => Held(part[t]) = PartSize(FileSize, Threads, t))
    PROVE  IInv'
<1>0. TypeOK
  BY DEF IInv
<1>1. tainted' \in BOOLEAN
  BY <1>0 DEF TypeOK, FlagTypeOK
<1>2. ThreadStage(t)'
  BY <1>0, Living DEF ThreadStage, Starting
<1>3. ASSUME ~tainted' PROVE RangeOK(t)' /\ PartOK(t)' /\ ConnOK(t)'
  <2>1. PartOK(t) /\ ConnOK(t) /\ Held(part'[t]) = Held(part[t])
    BY <1>0, <1>3, Living
  <2>2. StreamOK(t)'
    BY <2>1, SameStream DEF ConnOK
  <2>3. RangeOK(t)' /\ ConnOK(t)'
    BY <1>3, <2>1, <2>2 DEF RangeOK, ConnOK, Starting
  <2>4. PartOK(t)'
    BY <2>1 DEF PartOK
  <2> QED BY <2>3, <2>4
<1>4. w'[t].pc # "none" /\ w'[t].pc # "done" /\ w[t].pc # "none"
  OBVIOUS
<1> QED BY <1>0, <1>1, <1>2, <1>3, <1>4, Shared, StepOfOne

(* The connection brings no more.                                            *)
LEMMA ReadEndKeeps == ASSUME IInv, NEW t \in T, ReadEnd(t) PROVE IInv'
<1>0. TypeOK /\ w[t].pc = "read" /\ conn[t].st # "open"
  BY DEF IInv, ReadEnd
<1>1. /\ Goto(t, "close")
      /\ UNCHANGED <<mpc, size, idx, arg, target, astray, runs, hname, hsize, req, conn, part, failures,
                     tainted, showbyte>>
  BY DEF ReadEnd, ThreadFrame
<1>2. /\ w' \in [T -> Thread] /\ \A u \in T \ {t} : w'[u] = w[u]
      /\ w'[t].pc = "close" /\ w'[t].name = w[t].name /\ w'[t].size = w[t].size
      /\ w'[t].sum = w[t].sum /\ w'[t].got = w[t].got /\ w'[t].ld = w[t].ld
  BY <1>0, <1>1, GotoIs
<1>3. w[t].got = 0 /\ w[t].ld = 0
  BY <1>0, Living DEF ThreadStage
<1>4. ~tainted => failures > 0
  BY <1>0, Living DEF ConnOK, StreamOK
<1> QED BY <1>0, <1>1, <1>2, <1>3, <1>4, Shared, OwnStep

(* "showbyte+=len" reads, ...                                                *)
LEMMA LoadShownKeeps == ASSUME IInv, NEW t \in T, LoadShown(t) PROVE IInv'
<1> DEFINE new == [w[t] EXCEPT !.pc = "store", !.ld = showbyte]
<1>0. TypeOK /\ w[t].pc = "load"
  BY DEF IInv, LoadShown
<1>1. /\ w' = [w EXCEPT ![t] = new]
      /\ UNCHANGED <<mpc, size, idx, arg, target, astray, runs, hname, hsize, req, conn, part, failures,
                     tainted, showbyte>>
  BY DEF LoadShown, ThreadFrame
<1>2. /\ new \in Thread /\ new.pc = "store" /\ new.name = w[t].name /\ new.size = w[t].size
      /\ new.sum = w[t].sum
  <2>1. w[t] \in Thread /\ showbyte \in Nat
    BY <1>0, Components, Shared
  <2> QED BY <2>1 DEF Thread
<1> HIDE DEF new
<1>3. w' \in [T -> Thread] /\ w'[t] = new /\ \A u \in T \ {t} : w'[u] = w[u]
  BY <1>0, <1>1, <1>2, Shared
<1> QED BY <1>0, <1>1, <1>2, <1>3, Shared, OwnStep

(* ... and writes; when as many bytes came as announced, the part is whole.  *)
LEMMA StoreShownKeeps == ASSUME IInv, NEW t \in T, StoreShown(t) PROVE IInv'
<1> DEFINE pc == IF w[t].size = w[t].sum THEN "close" ELSE "read"
           new == [w[t] EXCEPT !.pc = pc, !.got = 0, !.ld = 0]
<1>0. TypeOK /\ w[t].pc = "store"
  BY DEF IInv, StoreShown
<1>1. /\ w' = [w EXCEPT ![t] = new] /\ showbyte' = w[t].ld + w[t].got
      /\ UNCHANGED <<mpc, size, idx, arg, target, astray, runs, hname, hsize, req, conn, part, failures,
                     tainted>>
  BY DEF StoreShown, ThreadFrame
<1>2. pc \in {"close", "read"} /\ (pc = "close" <=> w[t].size = w[t].sum)
  OBVIOUS
<1> HIDE DEF pc
<1>3. /\ new \in Thread /\ new.pc = pc /\ new.name = w[t].name /\ new.size = w[t].size
      /\ new.sum = w[t].sum /\ new.got = 0 /\ new.ld = 0
  BY <1>0, <1>2, Components DEF Thread
<1> HIDE DEF new
<1>4. w' \in [T -> Thread] /\ w'[t] = new /\ \A u \in T \ {t} : w'[u] = w[u]
  BY <1>0, <1>1, <1>3, Shared
<1>5. showbyte' \in Nat
  BY <1>0, <1>1, Components
<1>6. ASSUME ~tainted
      PROVE  /\ (pc = "read" /\ conn[t].st = "open" => conn[t].left > 0)
             /\ (pc = "close" /\ failures = 0 => Held(part[t]) = PartSize(FileSize, Threads, t))
  <2>1. StreamOK(t) /\ w[t].size = conn[t].total
    BY <1>0, <1>6, Living DEF ConnOK
  <2>2. /\ w[t].sum \in Nat /\ conn[t].left \in Nat /\ conn[t].total \in Nat
        /\ Held(part[t]) \in Nat /\ failures \in Nat
    BY <1>0, Components, Shared
  <2> QED BY <1>2, <2>1, <2>2 DEF StreamOK
<1> QED BY <1>0, <1>1, <1>2, <1>3, <1>4, <1>5, <1>6, OwnStep

(* The part file is closed, and with that on the disk.                       *)
LEMMA CloseKeeps == ASSUME IInv, NEW t \in T, Close(t) PROVE IInv'
<1> DEFINE k == w[t].name
<1>0. TypeOK /\ w[t].pc = "close"
  BY DEF IInv, Close
<1>1. /\ Goto(t, "done") /\ part' = [u \in T |-> IF u = k THEN Flushed(part[u]) ELSE part[u]]
      /\ conn' = [conn EXCEPT ![t] = NoConn]
      /\ UNCHANGED <<mpc, size, idx, arg, target, astray, runs, hname, hsize, req, showbyte, failures,
                     tainted>>
  BY DEF Close, ThreadFrame
<1>2. /\ w' \in [T -> Thread] /\ \A u \in T \ {t} : w'[u] = w[u]
      /\ w'[t].pc = "done" /\ w'[t].got = w[t].got /\ w'[t].ld = w[t].ld
  BY <1>0, <1>1, GotoIs
<1>3. tainted' \in BOOLEAN
  BY <1>0, <1>1 DEF TypeOK, FlagTypeOK
<1>4. conn' \in [T -> Conn] /\ conn'[t] = NoConn /\ \A u \in T \ {t} : conn'[u] = conn[u]
  BY <1>0, <1>1, Nothing, Shared
<1>5. ASSUME NEW u \in T
      PROVE  /\ Flushed(part[u]) \in PartFile /\ Flushed(part[u]).mem = 0
             /\ Flushed(part[u]).disk = Held(part[u]) /\ Flushed(part[u]).clean = part[u].clean
             /\ Held(Flushed(part[u])) = Held(part[u]) /\ part[u] \in PartFile
  BY <1>0, Components, FlushedIs
<1> HIDE DEF k
<1>6. part' \in [T -> PartFile] /\ \A u \in T \ {k} : part'[u] = part[u]
  BY <1>1, <1>5
<1>10. k = t => part'[t] = Flushed(part[t])
  BY <1>1
<1>7. ThreadStage(t)'
  BY <1>0, <1>1, <1>2, <1>4, Living DEF ThreadStage, Starting
<1>8. ASSUME ~tainted'
      PROVE  /\ k = t /\ RangeOK(t)' /\ PartOK(t)' /\ ConnOK(t)'
             /\ failures = 0 => PartWhole(t)'
  <2>1. PartOK(t) /\ ConnOK(t) /\ k = t
    BY <1>0, <1>1, <1>8, Living DEF ConnOK, k
  <2>2. PartOK(t)'
    BY <1>5, <1>10, <2>1 DEF PartOK
  <2>3. RangeOK(t)' /\ ConnOK(t)'
    BY <1>2 DEF RangeOK, ConnOK, Starting
  <2>4. failures = 0 => PartWhole(t)'
    BY <1>0, <1>5, <1>10, <2>1 DEF ConnOK, PartWhole
  <2> QED BY <2>1, <2>2, <2>3, <2>4
<1>9. w'[t].pc # "none" /\ w[t].pc # "none"
  BY <1>0, <1>2
<1> QED BY <1>0, <1>1, <1>2, <1>3, <1>4, <1>6, <1>7, <1>8, <1>9, Shared, StepOfOne

(* A connection fails, or one that is kept alive is closed after all.        *)
LEMMA ServerFailsKeeps == ASSUME IInv, NEW t \in T, ServerFails(t) PROVE IInv'
<1>0. /\ TypeOK /\ w[t].pc \in {"header", "open", "read", "load", "store"}
      /\ conn[t].st = "open" /\ failures < MaxFailures /\ failures' = failures + 1
      /\ UNCHANGED <<mpc, size, idx, arg, target, astray, runs, hname, hsize, req, showbyte, w, part>>
  BY DEF IInv, ServerFails, ServerFrame, globals
<1>1. PICK c \in Conn : /\ conn' = [conn EXCEPT ![t] = c] /\ c.st # "open" /\ c.pos = conn[t].pos
                        /\ c.left <= conn[t].left /\ c.total = conn[t].total
  <2>0. conn[t] \in Conn /\ conn[t].left \in Nat
    BY <1>0, Components
  <2>1. ASSUME NEW n \in 0 .. conn[t].left,
               conn' = [conn EXCEPT ![t].st = "eof", ![t].left = n]
        PROVE  \E c \in Conn :
                 /\ conn' = [conn EXCEPT ![t] = c] /\ c.st # "open" /\ c.pos = conn[t].pos
                 /\ c.left <= conn[t].left /\ c.total = conn[t].total
    <3> DEFINE d == [conn[t] EXCEPT !.st = "eof", !.left = n]
    <3>0. n \in Nat /\ n <= conn[t].left
      BY <2>0
    <3>1. /\ d \in Conn /\ d.st = "eof" /\ d.pos = conn[t].pos /\ d.left = n
          /\ d.total = conn[t].total
      BY <2>0, <3>0 DEF Conn
    <3>2. conn' = [conn EXCEPT ![t] = d]
      BY <2>1
    <3> HIDE DEF d
    <3>3. d.st # "open" /\ d.left <= conn[t].left
      BY <3>0, <3>1
    <3> QED BY <3>1, <3>2, <3>3
  <2>2. ASSUME conn' = [conn EXCEPT ![t].st = "reset", ![t].left = 0]
        PROVE  \E c \in Conn :
                 /\ conn' = [conn EXCEPT ![t] = c] /\ c.st # "open" /\ c.pos = conn[t].pos
                 /\ c.left <= conn[t].left /\ c.total = conn[t].total
    <3> DEFINE d == [conn[t] EXCEPT !.st = "reset", !.left = 0]
    <3>1. /\ d \in Conn /\ d.st = "reset" /\ d.pos = conn[t].pos /\ d.left = 0
          /\ d.total = conn[t].total
      BY <2>0 DEF Conn
    <3>2. conn' = [conn EXCEPT ![t] = d]
      BY <2>2
    <3> HIDE DEF d
    <3>3. d.st # "open" /\ d.left <= conn[t].left
      BY <2>0, <3>1
    <3> QED BY <3>1, <3>2, <3>3
  <2> QED BY <2>1, <2>2 DEF ServerFails
<1>2. conn' \in [T -> Conn] /\ conn'[t] = c /\ \A u \in T \ {t} : conn'[u] = conn[u]
  BY <1>0, <1>1, Shared
<1>3. tainted' \in BOOLEAN /\ tainted' = tainted
  BY <1>0 DEF TypeOK, FlagTypeOK, ServerFails, ServerFrame
<1>4. failures' \in 0 .. MaxFailures /\ failures <= failures' /\ failures' > 0
  BY <1>0, Shared, ConstantsAssumption
<1>5. ThreadStage(t)'
  BY <1>0, Living DEF ThreadStage, Starting
<1>6. ASSUME ~tainted' PROVE RangeOK(t)' /\ PartOK(t)' /\ ConnOK(t)'
  <2>1. PartOK(t) /\ ConnOK(t) /\ StreamOK(t) /\ Held(part'[t]) = Held(part[t])
    BY <1>0, <1>3, <1>6, Living DEF ConnOK
  <2>2. /\ Held(part[t]) \in Nat /\ conn[t].left \in Nat /\ c.left \in Nat
        /\ PartSize(FileSize, Threads, t) \in Nat
    BY <1>0, Components, PartTypes DEF Conn
  <2>3. Held(part[t]) + c.left <= PartSize(FileSize, Threads, t)
    BY <1>1, <2>1, <2>2 DEF StreamOK
  <2>4. StreamOK(t)'
    BY <1>1, <1>2, <1>4, <2>1, <2>3 DEF StreamOK, Home
  <2>5. RangeOK(t)' /\ ConnOK(t)'
    BY <1>0, <1>1, <1>2, <2>1, <2>4 DEF RangeOK, ConnOK, Starting
  <2>6. PartOK(t)'
    BY <1>0, <2>1 DEF PartOK
  <2> QED BY <2>5, <2>6
<1>7. w'[t].pc # "none" /\ w'[t].pc # "done" /\ w[t].pc # "none"
  BY <1>0
<1> QED BY <1>0, <1>2, <1>3, <1>4, <1>5, <1>6, <1>7, Shared, StepOfOne

LEMMA ServerClosesKeeps == ASSUME IInv, NEW t \in T, ServerCloses(t) PROVE IInv'
<1> DEFINE c == [conn[t] EXCEPT !.st = "eof"]
<1>0. /\ TypeOK /\ w[t].pc = "read" /\ conn[t].st = "open" /\ conn[t].left = 0
      /\ conn' = [conn EXCEPT ![t] = c]
      /\ UNCHANGED <<mpc, size, idx, arg, target, astray, runs, hname, hsize, req, showbyte, w, part,
                     failures>>
  BY DEF IInv, ServerCloses, ServerFrame, globals
<1>1. c \in Conn
  BY <1>0, Components DEF Conn
<1> HIDE DEF c
<1>2. conn' \in [T -> Conn] /\ \A u \in T \ {t} : conn'[u] = conn[u]
  BY <1>0, <1>1, Shared
<1>3. tainted' \in BOOLEAN /\ tainted' = tainted
  BY <1>0 DEF TypeOK, FlagTypeOK, ServerCloses, ServerFrame
<1>4. ThreadStage(t)'
  BY <1>0, Living DEF ThreadStage, Starting
<1>5. ~(~tainted')
  BY <1>0, <1>3, Living DEF ConnOK
<1> QED BY <1>0, <1>2, <1>3, <1>4, <1>5, Shared, StepOfOne

-------------------------------------------------------------------------------
(* The process *)

(* The invariant after a step that leaves no thread.                         *)
LEMMA IdleStep ==
    ASSUME IInv, TypeOK', StageInv', MergeInv',
           \A t \in T : w'[t] = NoThread /\ conn'[t] = NoConn,
           ~tainted' => \A t \in T : /\ part'[t].clean = Held(part'[t]) /\ part'[t].mem = 0
                                     /\ Held(part'[t]) <= PartSize(FileSize, Threads, t)
    PROVE  IInv'
<1>1. FrameInv'
  BY Nothing DEF FrameInv, ThreadStage
<1>2. OwnInv'
  BY Nothing DEF OwnInv, RangeOK, PartOK, ConnOK, Starting
<1> QED BY <1>1, <1>2 DEF IInv

(* A process without threads has nothing buffered.                           *)
LEMMA Idle ==
    ASSUME IInv, \A t \in T : w[t].pc \in {"none", "done"}
    PROVE  /\ \A t \in T : conn[t] = NoConn
           /\ ~tainted => \A t \in T : /\ part[t].clean = Held(part[t]) /\ part[t].mem = 0
                                       /\ Held(part[t]) <= PartSize(FileSize, Threads, t)
BY DEF IInv, FrameInv, ThreadStage, OwnInv, PartOK

LEMMA NotCreating ==
    ASSUME IInv, mpc # "create"
    PROVE  \A t \in T : w[t].pc = "none" /\ w[t] = NoThread
BY DEF IInv, FrameInv, ThreadStage

(* The process ends, in any way, and stdio writes out what is buffered or    *)
(* does not.                                                                 *)
LEMMA GoneKeeps ==
    ASSUME IInv, NEW end \in {"done", "dead"}, Gone(end), UNCHANGED target,
           failures' \in 0 .. MaxFailures, failures <= failures',
           \/ part' = [t \in T |-> Unflushed(part[t])]
           \/ part' = [t \in T |-> Flushed(part[t])]
           \/ part' = part /\ mpc = "check",
           end = "done" => mpc = "check"
    PROVE  IInv'
<1>0. TypeOK
  BY DEF IInv
<1>1. /\ mpc' = end /\ size' = 0 /\ idx' = 0 /\ arg' = NoRange /\ hname' = Target /\ hsize' = 0
      /\ req' = NoRange /\ showbyte' = 0 /\ astray' = 0 /\ w' = [t \in T |-> NoThread]
      /\ conn' = [t \in T |-> NoConn] /\ runs' = runs
  BY DEF Gone
<1>2. tainted' = tainted
  BY DEF Gone
<1>3. ASSUME NEW t \in T
      PROVE  /\ part'[t] \in PartFile
             /\ ~tainted => /\ part'[t].clean = Held(part'[t]) /\ part'[t].mem = 0
                            /\ Held(part'[t]) <= PartSize(FileSize, Threads, t)
  <2>1. part[t] \in PartFile /\ Held(part[t]) \in Nat /\ PartSize(FileSize, Threads, t) \in Nat
    BY <1>0, Components, PartTypes
  <2>2. ~tainted => /\ part[t].clean = Held(part[t])
                    /\ Held(part[t]) <= PartSize(FileSize, Threads, t)
    BY DEF IInv, OwnInv, PartOK
  <2>3. CASE part'[t] = Unflushed(part[t])
    <3>1. /\ Held(Unflushed(part[t])) = part[t].disk /\ part[t].disk <= Held(part[t])
          /\ part[t].disk \in Nat
      BY <2>1, UnflushedIs DEF PartFile
    <3> QED BY <2>1, <2>2, <2>3, <3>1, UnflushedIs
  <2>4. CASE part'[t] = Flushed(part[t])
    BY <2>1, <2>2, <2>4, FlushedIs
  <2>5. CASE part' = part /\ mpc = "check"
    BY <2>1, <2>2, <2>5, NotCreating, Idle
  <2> QED BY <2>3, <2>4, <2>5
<1>4. TypeOK'
  <2>1. part' \in [T -> PartFile]
    <3>1. CASE part' = part
      BY <1>0, <3>1, Shared
    <3>2. CASE part' # part
      <4>1. DOMAIN part' = T /\ part' = [t \in T |-> part'[t]]
        BY <3>2
      <4> QED BY <1>3, <4>1
    <3> QED BY <3>1, <3>2
  <2>2. tainted' \in BOOLEAN
    BY <1>0, <1>2 DEF TypeOK, FlagTypeOK
  <2> QED BY <1>0, <1>1, <2>1, <2>2, Nothing, PartTypes, ConstantsAssumption
          DEF TypeOK, ProcessTypeOK, SharedTypeOK, DataTypeOK, FilesTypeOK, FlagTypeOK, Names
<1>5. StageInv'
  BY <1>1 DEF StageInv
<1>6. MergeInv'
  <2>1. failures' = 0 => failures = 0
    BY <1>0, Shared
  <2> QED BY <1>1, <1>2, <2>1 DEF MergeInv, Passed, IInv, Whole
<1> QED BY <1>1, <1>2, <1>3, <1>4, <1>5, <1>6, IdleStep

LEMMA DieKeeps == IInv /\ Die => IInv'
<1> SUFFICES ASSUME IInv, Die PROVE IInv'
  OBVIOUS
<1>1. /\ Gone("dead") /\ UNCHANGED <<target, failures>>
      /\ part' = [t \in T |-> Unflushed(part[t])]
  BY DEF Die
<1>2. failures' \in 0 .. MaxFailures /\ failures <= failures'
  BY <1>1, Shared DEF IInv
<1> QED BY <1>1, <1>2, GoneKeeps

LEMMA ExitKeeps ==
    ASSUME IInv, Exit, failures' = failures \/ (failures < MaxFailures /\ failures' = failures + 1)
    PROVE  IInv'
<1>1. Gone("dead") /\ UNCHANGED target /\ part' = [t \in T |-> Flushed(part[t])]
  BY DEF Exit
<1>2. failures' \in 0 .. MaxFailures /\ failures <= failures'
  BY Shared, ConstantsAssumption DEF IInv
<1> QED BY <1>1, <1>2, GoneKeeps

LEMMA PrintErrorKeeps == IInv /\ PrintError => IInv'
BY ExitKeeps DEF PrintError

LEMMA FinishKeeps == IInv /\ Finish => IInv'
<1> SUFFICES ASSUME IInv, Finish PROVE IInv'
  OBVIOUS
<1>1. Gone("done") /\ UNCHANGED <<part, target, failures>> /\ mpc = "check"
  BY DEF Finish
<1>2. failures' \in 0 .. MaxFailures /\ failures <= failures'
  BY <1>1, Shared DEF IInv
<1> QED BY <1>1, <1>2, GoneKeeps

(* A process between two others, or with threads still to come: nothing of a *)
(* part changes.                                                             *)
LEMMA IdleQuiet ==
    ASSUME IInv, mpc \in {"none", "size", "done", "dead"}, TypeOK', StageInv', MergeInv',
           UNCHANGED <<w, conn, part, tainted>>
    PROVE  IInv'
<1>1. \A t \in T : w[t].pc = "none" /\ w[t] = NoThread
  BY NotCreating
<1>2. \A t \in T : conn[t] = NoConn
  BY <1>1, Idle
<1>3. ~tainted => \A t \in T : /\ part[t].clean = Held(part[t]) /\ part[t].mem = 0
                               /\ Held(part[t]) <= PartSize(FileSize, Threads, t)
  BY <1>1, Idle
<1>4. \A t \in T : Held(part'[t]) = Held(part[t])
  OBVIOUS
<1> QED BY <1>1, <1>2, <1>3, <1>4, IdleStep

LEMMA SpawnKeeps == IInv /\ Spawn => IInv'
<1> SUFFICES ASSUME IInv, Spawn PROVE IInv'
  OBVIOUS
<1>0. TypeOK /\ mpc \in {"none", "done", "dead"} /\ mpc' = "size" /\ size = 0 /\ idx = 0
  BY DEF IInv, FrameInv, StageInv, Spawn, Ended
<1>1. TypeOK'
  BY <1>0, ConstantsAssumption
     DEF Spawn, globals,
         TypeOK, ProcessTypeOK, SharedTypeOK, DataTypeOK, FilesTypeOK, FlagTypeOK
<1>2. StageInv'
  BY <1>0 DEF Spawn, StageInv
<1>3. MergeInv'
  BY <1>0 DEF MergeInv, Passed
<1> QED BY <1>0, <1>1, <1>2, <1>3, IdleQuiet DEF Spawn

(* The bytes of all parts together are a number.                             *)
LEMMA HeldInAllType == TypeOK => HeldInAll \in Nat
<1> SUFFICES ASSUME TypeOK PROVE HeldInAll \in Nat
  OBVIOUS
<1> DEFINE held == [t \in T |-> Held(part[t])]
<1>1. \A i \in 0 .. Threads - 1 : held[i] \in Nat
  BY Components DEF T, Parts
<1> HIDE DEF held
<1>2. Total(held, Threads) \in Nat
  BY <1>1, TotalType, ConstantsAssumption
<1> QED BY <1>2 DEF HeldInAll, held

(* The size is asked for, and learnt or not.                                 *)
LEMMA SizeKeeps == ASSUME IInv, GetSize \/ SizeNotLearnt PROVE IInv'
<1>0. TypeOK /\ mpc = "size" /\ mpc' = "create" /\ idx = 0 /\ idx' = 0
  BY DEF IInv, FrameInv, StageInv, GetSize, SizeNotLearnt
<1>1. /\ size' \in {-1, FileSize} /\ (size' = -1 => failures' > 0)
      /\ failures' \in 0 .. MaxFailures /\ hsize' \in Nat /\ showbyte' \in Nat
      /\ UNCHANGED <<arg, hname, req, astray, w, conn, part, target, runs, tainted>>
  <2>1. HeldInAll \in Nat /\ FileSize \in Nat \ {0} /\ MaxFailures \in Nat
    BY <1>0, HeldInAllType, ConstantsAssumption
  <2>2. hsize \in Nat /\ failures \in 0 .. MaxFailures
    BY <1>0, Shared
  <2>3. CASE GetSize
    BY <2>1, <2>2, <2>3 DEF GetSize, MainFrame
  <2>4. CASE SizeNotLearnt
    BY <2>1, <2>2, <2>4 DEF SizeNotLearnt, globals
  <2> QED BY <2>3, <2>4
<1>2. TypeOK'
  BY <1>0, <1>1, ConstantsAssumption
     DEF TypeOK, ProcessTypeOK, SharedTypeOK, DataTypeOK, FilesTypeOK, FlagTypeOK
<1>3. StageInv'
  BY <1>0, <1>1 DEF StageInv
<1>4. MergeInv'
  <2>1. \A t \in T : ~(t < 0)
    BY PartTypes
  <2> QED BY <1>0, <2>1 DEF MergeInv, Passed
<1> QED BY <1>0, <1>1, <1>2, <1>3, <1>4, IdleQuiet

-------------------------------------------------------------------------------
(* The main thread *)

(* One round of the loop that creates threads.                               *)
LEMMA LoopStep ==
    ASSUME IInv, mpc = "create", idx < Threads, idx' = idx + 1,
           UNCHANGED <<mpc, size, hname, hsize, req, showbyte, astray, conn, part, target, runs, failures,
                       tainted>>,
           w' \in [T -> Thread], \A u \in T \ {idx} : w'[u] = w[u],
           \/ /\ w'[idx] = w[idx] /\ arg' = arg
              /\ (~tainted /\ failures = 0) => PartWhole(idx)
           \/ w'[idx] = [NoThread EXCEPT !.pc = "clear"] /\ arg' = Lacking(idx)
    PROVE  IInv'
<1>0. /\ TypeOK /\ idx \in T /\ idx \in Nat /\ Threads \in Nat /\ idx' \in 0 .. Threads
      /\ w[idx].pc = "none" /\ w[idx] = NoThread
  <2>1. TypeOK /\ idx \in 0 .. Threads /\ Threads \in Nat
    BY Shared, ConstantsAssumption DEF IInv
  <2>2. idx \in T /\ idx \in Nat /\ idx >= idx /\ idx' \in 0 .. Threads
    BY <2>1, PartTypes
  <2>3. w[idx].pc = "none" /\ w[idx] = NoThread
    BY <2>2 DEF IInv, FrameInv, ThreadStage
  <2> QED BY <2>1, <2>2, <2>3
<1> DEFINE new == [NoThread EXCEPT !.pc = "clear"]
<1>1. new.pc = "clear" /\ new.got = 0 /\ new.ld = 0 /\ new.sum = 0
  BY DEF NoThread
<1> HIDE DEF new
<1>2. arg' \in RangeType /\ (w'[idx] = new => arg'.name = idx)
  <2>1. First(idx) \in Int /\ Last(idx) \in Int /\ part[idx].disk \in Nat
    BY <1>0, Ranges, Components
  <2>2. Lacking(idx) \in RangeType /\ Lacking(idx).name = idx
    BY <1>0, <2>1 DEF Lacking, Ask, RangeType
  <2>3. arg \in RangeType /\ new # NoThread
    BY <1>0, <1>1, Shared, Nothing
  <2> QED BY <1>0, <2>2, <2>3 DEF new
<1>3. TypeOK'
  BY <1>0, <1>2
     DEF TypeOK, ProcessTypeOK, SharedTypeOK, DataTypeOK, FilesTypeOK, FlagTypeOK
<1>4. FrameInv'
  <2>1. StageInv'
    BY DEF IInv, FrameInv, StageInv
  <2>2. ASSUME NEW u \in T PROVE ThreadStage(u)'
    <3>1. ThreadStage(u) /\ u \in Nat
      BY PartTypes DEF IInv, FrameInv
    <3>2. CASE u = idx
      <4>1. conn'[u] = NoConn /\ ~(u >= idx')
        BY <1>0, <3>1, <3>2 DEF ThreadStage, Starting
      <4>2. CASE w'[u] = w[u]
        BY <1>0, <3>1, <3>2, <4>1, <4>2 DEF ThreadStage, Starting
      <4>3. CASE w'[u] = new
        BY <1>1, <4>1, <4>3 DEF ThreadStage, Starting
      <4> QED BY <3>2, <4>2, <4>3 DEF new
    <3>3. CASE u # idx
      <4>1. u >= idx' => u >= idx
        BY <1>0, <3>1
      <4> QED BY <3>1, <3>3, <4>1 DEF ThreadStage, Starting
    <3> QED BY <3>2, <3>3
  <2> QED BY <2>1, <2>2 DEF FrameInv
<1>5. ASSUME ~tainted, NEW u \in T PROVE RangeOK(u)' /\ PartOK(u)' /\ ConnOK(u)'
  <2>1. RangeOK(u) /\ PartOK(u) /\ ConnOK(u)
    BY <1>5 DEF IInv, OwnInv
  <2>2. Lacking(u)' = Lacking(u) /\ Held(part'[u]) = Held(part[u])
    BY DEF Lacking, Ask, First, Last, Each
  <2>3. CASE w'[u] = w[u]
    <3>1. RangeOK(u)'
      <4>1. CASE arg' = arg
        BY <2>1, <2>2, <2>3, <4>1 DEF RangeOK, Starting
      <4>2. CASE arg' = Lacking(idx) /\ arg'.name = idx
        <5>1. u = idx => w[u].pc = "none"
          BY <1>0
        <5> QED BY <2>1, <2>2, <2>3, <4>2, <5>1 DEF RangeOK, Starting
      <4> QED BY <1>0, <1>2, <4>1, <4>2 DEF new
    <3>2. PartOK(u)'
      BY <2>1, <2>2, <2>3 DEF PartOK
    <3>3. StreamOK(u) => StreamOK(u)'
      BY <2>2, <2>3 DEF StreamOK
    <3>4. ConnOK(u)'
      BY <2>1, <2>2, <2>3, <3>3 DEF ConnOK
    <3> QED BY <3>1, <3>2, <3>4
  <2>4. CASE u = idx /\ w'[u] = new
    <3>1. arg' = Lacking(u)
      <4>1. new # NoThread
        BY <1>1, Nothing
      <4> QED BY <1>0, <2>4, <4>1
    <3>2. RangeOK(u)' /\ ConnOK(u)'
      BY <1>1, <2>2, <2>4, <3>1 DEF RangeOK, ConnOK, Starting
    <3>3. PartOK(u)'
      BY <1>0, <2>1, <2>2, <2>4 DEF PartOK
    <3> QED BY <3>2, <3>3
  <2> QED BY <2>3, <2>4 DEF new
<1>6. OwnInv'
  BY <1>5 DEF OwnInv
<1>7. MergeInv'
  <2>1. ASSUME ~tainted, failures = 0, NEW u \in T, Passed(u)' PROVE PartWhole(u)'
    <3>1. PartWhole(u) => PartWhole(u)'
      BY DEF PartWhole
    <3>2. CASE u = idx
      <4>1. w'[u] # new
        BY <1>1, <2>1 DEF Passed
      <4> QED BY <2>1, <3>1, <3>2, <4>1 DEF new
    <3>3. CASE u # idx
      <4>1. u < idx
        BY <1>0, <2>1, <3>3, PartTypes DEF Passed
      <4> QED BY <2>1, <3>1, <3>3, <4>1 DEF IInv, MergeInv, Passed
    <3> QED BY <3>2, <3>3
  <2> QED BY <2>1 DEF MergeInv
<1> QED BY <1>3, <1>4, <1>6, <1>7 DEF IInv

LEMMA CreateThreadKeeps == IInv /\ CreateThread => IInv'
<1> SUFFICES ASSUME IInv, CreateThread PROVE IInv'
  OBVIOUS
<1>0. /\ TypeOK /\ mpc = "create" /\ idx < Threads /\ idx' = idx + 1
      /\ arg' = Lacking(idx) /\ w' = [w EXCEPT ![idx].pc = "clear"]
      /\ UNCHANGED <<mpc, size, hname, hsize, req, showbyte, astray, conn, part, target, runs, failures,
                     tainted>>
  BY DEF IInv, CreateThread, Hand, Downloaded, Lacking, MainFrame
<1>1. idx \in T /\ w[idx] = NoThread
  <2>1. idx \in T /\ idx >= idx
    BY <1>0, Shared, PartTypes
  <2> QED BY <2>1 DEF IInv, FrameInv, ThreadStage
<1> DEFINE new == [NoThread EXCEPT !.pc = "clear"]
<1>2. new \in Thread
  BY PartTypes DEF NoThread, Thread, Names
<1>3. w' = [w EXCEPT ![idx] = new]
  BY <1>0, <1>1
<1>4. w' \in [T -> Thread] /\ w'[idx] = new /\ \A u \in T \ {idx} : w'[u] = w[u]
  <2> HIDE DEF new
  <2> QED BY <1>0, <1>1, <1>2, <1>3, Shared
<1> QED BY <1>0, <1>4, LoopStep

(* A part that is as long as it should be needs no thread.                   *)
LEMMA SkipCompleteKeeps == IInv /\ SkipComplete => IInv'
<1> SUFFICES ASSUME IInv, SkipComplete PROVE IInv'
  OBVIOUS
<1>0. /\ TypeOK /\ mpc = "create" /\ idx < Threads /\ idx' = idx + 1 /\ Complete(idx)
      /\ UNCHANGED <<mpc, size, hname, hsize, req, showbyte, astray, conn, part, target, runs, failures,
                     tainted, arg, w>>
  BY DEF IInv, SkipComplete, MainFrame
<1>1. idx \in T /\ w' \in [T -> Thread]
  BY <1>0, Shared, PartTypes
<1>2. ASSUME ~tainted, failures = 0 PROVE PartWhole(idx)
  <2>1. size = FileSize
    BY <1>0, <1>2, ConstantsAssumption DEF IInv, FrameInv, StageInv
  <2>2. Length(idx) = PartSize(FileSize, Threads, idx) /\ part[idx].disk \in Nat
    BY <1>0, <1>1, <2>1, Ranges, Components
  <2> QED BY <1>0, <2>2 DEF Complete, Downloaded, PartWhole
<1> QED BY <1>0, <1>1, <1>2, LoopStep

(* All threads are joined, and the merge begins.                             *)
LEMMA JoinKeeps == IInv /\ Join => IInv'
<1> SUFFICES ASSUME IInv, Join PROVE IInv'
  OBVIOUS
<1>0. /\ TypeOK /\ mpc = "create" /\ idx = Threads /\ mpc' = "merge" /\ idx' = 0
      /\ \A t \in T : w[t].pc \in {"none", "done"}
      /\ target' = [len |-> 0, clean |-> 0] /\ w' = [t \in T |-> NoThread]
      /\ UNCHANGED <<hname, req, astray, conn, runs, failures, size, arg, hsize, showbyte, part>>
  BY DEF IInv, Join, MainFrame
<1>1. tainted' = tainted /\ tainted' \in BOOLEAN
  BY <1>0 DEF Join, TypeOK, FlagTypeOK
<1>2. TypeOK'
  BY <1>0, <1>1, Nothing, ConstantsAssumption
     DEF TypeOK, ProcessTypeOK, SharedTypeOK, DataTypeOK, FilesTypeOK, FlagTypeOK
<1>3. StageInv'
  BY <1>0 DEF IInv, FrameInv, StageInv
<1>4. MergeInv'
  <2>1. ASSUME ~tainted, failures = 0, NEW t \in T PROVE PartWhole(t)'
    <3>1. Passed(t)
      BY <1>0, PartTypes DEF Passed
    <3> QED BY <1>0, <2>1, <3>1 DEF IInv, MergeInv, PartWhole
  <2>2. Merged(0) = 0 /\ target'.len = 0 /\ target'.clean = 0
    <3>1. FileSize \div Threads \in Nat /\ Threads # 0
      BY ConstantsAssumption, DivBounds
    <3> QED BY <1>0, <3>1 DEF Merged, Home, PartStart
  <2> QED BY <1>0, <1>1, <2>1, <2>2 DEF MergeInv, Merged, Home
<1>5. \A t \in T : w'[t] = NoThread /\ conn'[t] = NoConn
  BY <1>0, Idle
<1>6. ~tainted => \A t \in T : /\ part[t].clean = Held(part[t]) /\ part[t].mem = 0
                               /\ Held(part[t]) <= PartSize(FileSize, Threads, t)
  BY <1>0, Idle
<1>7. \A t \in T : Held(part'[t]) = Held(part[t])
  BY <1>0
<1> QED BY <1>0, <1>1, <1>2, <1>3, <1>4, <1>5, <1>6, <1>7, IdleStep

(* A part goes behind the others and is removed.                             *)
LEMMA MergePartKeeps == IInv /\ MergePart => IInv'
<1> SUFFICES ASSUME IInv, MergePart PROVE IInv'
  OBVIOUS
<1> DEFINE clean == IF target.clean = target.len /\ target.len = Home(idx)
                    THEN target.clean + part[idx].clean ELSE target.clean
<1>0. /\ TypeOK /\ mpc = "merge" /\ mpc' = "merge" /\ idx < Threads /\ idx' = idx + 1
      /\ target' = [len |-> target.len + part[idx].disk, clean |-> clean]
      /\ part' = [part EXCEPT ![idx] = NoPart]
      /\ UNCHANGED <<hname, req, astray, conn, runs, failures, size, arg, hsize, showbyte, w>>
  BY DEF IInv, MergePart, MainFrame
<1>1. tainted' = tainted /\ tainted' \in BOOLEAN
  BY <1>0 DEF MergePart, TypeOK, FlagTypeOK
<1>2. idx \in T /\ idx \in Nat /\ Threads \in Nat
  BY <1>0, Shared, PartTypes, ConstantsAssumption
<1>3. /\ target.len \in Nat /\ target.clean \in Nat
      /\ part[idx].disk \in Nat /\ part[idx].clean \in Nat
  BY <1>0, <1>2, Shared, Components
<1>4. /\ part' \in [T -> PartFile] /\ part'[idx] = NoPart /\ \A u \in T \ {idx} : part'[u] = part[u]
  BY <1>0, <1>2, Shared, Nothing
<1>5. TypeOK'
  <2>1. target' \in [len : Nat, clean : Nat] /\ idx' \in 0 .. Threads
    BY <1>0, <1>2, <1>3
  <2> QED BY <1>0, <1>1, <1>4, <2>1
          DEF TypeOK, ProcessTypeOK, SharedTypeOK, DataTypeOK, FilesTypeOK, FlagTypeOK
<1>6. StageInv'
  BY <1>0 DEF IInv, FrameInv, StageInv
<1>7. \A t \in T : w[t].pc = "none" /\ w[t] = NoThread
  BY <1>0, NotCreating
<1>8. \A t \in T : w'[t] = NoThread /\ conn'[t] = NoConn
  BY <1>0, <1>7, Idle
<1>9. ASSUME ~tainted', NEW t \in T
      PROVE  /\ part'[t].clean = Held(part'[t]) /\ part'[t].mem = 0
             /\ Held(part'[t]) <= PartSize(FileSize, Threads, t)
  <2>1. CASE t = idx
    BY <1>4, <2>1, Nothing, PartTypes
  <2>2. CASE t # idx
    <3>1. /\ part[t].clean = Held(part[t]) /\ part[t].mem = 0
          /\ Held(part[t]) <= PartSize(FileSize, Threads, t)
      BY <1>1, <1>7, <1>9, Idle
    <3>2. part'[t] = part[t]
      BY <1>4, <2>2
    <3> QED BY <3>1, <3>2
  <2> QED BY <2>1, <2>2
<1>10. MergeInv'
  <2>1. ASSUME ~tainted, failures = 0, NEW t \in T, idx' <= t PROVE PartWhole(t)'
    <3>1. t # idx /\ idx <= t
      BY <1>0, <1>2, <2>1, PartTypes
    <3> QED BY <1>0, <1>4, <2>1, <3>1 DEF IInv, MergeInv, PartWhole
  <2>2. ASSUME ~tainted, failures = 0
        PROVE  target'.clean = target'.len /\ target'.len = Merged(idx')
    <3>1. target.clean = target.len /\ target.len = Home(idx)
      BY <1>0, <1>2, <2>2 DEF IInv, MergeInv, Merged
    <3>2. /\ part[idx].disk = PartSize(FileSize, Threads, idx)
          /\ part[idx].clean = part[idx].disk
      <4>1. PartWhole(idx)
        BY <1>0, <1>2, <2>2 DEF IInv, MergeInv
      <4>2. part[idx].clean = Held(part[idx]) /\ part[idx].mem = 0
        BY <1>2, <1>7, <2>2, Idle
      <4> QED BY <1>3, <4>1, <4>2 DEF PartWhole, Held
    <3>3. target'.len = Home(idx) + PartSize(FileSize, Threads, idx) /\ target'.clean = target'.len
      BY <1>0, <1>3, <3>1, <3>2
    <3>4. Home(idx) + PartSize(FileSize, Threads, idx)
            = IF idx + 1 < Threads THEN Home(idx + 1) ELSE FileSize
      BY <1>2, ConstantsAssumption, PartEnds DEF T, Home
    <3>5. idx + 1 < Threads <=> idx + 1 # Threads
      BY <1>0, <1>2
    <3> QED BY <1>0, <3>3, <3>4, <3>5 DEF Merged
  <2> QED BY <1>0, <1>1, <2>1, <2>2 DEF MergeInv, Passed, Merged, Home
<1> QED BY <1>5, <1>6, <1>8, <1>9, <1>10, IdleStep

(* The merge ends, after the last part or at an empty one.                   *)
LEMMA MergeEndKeeps == ASSUME IInv, MergeEmpty \/ MergeEnd PROVE IInv'
<1>0. /\ TypeOK /\ mpc = "merge" /\ mpc' = "check"
      /\ UNCHANGED <<hname, req, astray, conn, runs, failures, size, idx, arg, hsize, showbyte, w, part,
                     target>>
      /\ (idx < Threads /\ part[idx].disk = 0) \/ idx = Threads
  BY DEF IInv, MergeEmpty, MergeEnd, MainFrame
<1>1. tainted' = tainted /\ tainted' \in BOOLEAN
  BY <1>0 DEF MergeEmpty, MergeEnd, TypeOK, FlagTypeOK
<1>2. TypeOK'
  BY <1>0, <1>1 DEF TypeOK, ProcessTypeOK, SharedTypeOK, DataTypeOK, FilesTypeOK, FlagTypeOK
<1>3. StageInv'
  BY <1>0 DEF IInv, FrameInv, StageInv
<1>4. MergeInv'
  <2>1. ASSUME ~tainted, failures = 0 PROVE Whole
    <3>1. idx \in 0 .. Threads /\ Threads \in Nat /\ idx <= idx
      BY <1>0, Shared, ConstantsAssumption
    <3>2. ~(idx < Threads /\ part[idx].disk = 0)
      BY <1>0, <2>1, <3>1, PartTypes DEF IInv, MergeInv, PartWhole
    <3> QED BY <1>0, <2>1, <3>2 DEF IInv, MergeInv, Merged, Whole
  <2> QED BY <1>0, <1>1, <2>1 DEF MergeInv, Passed, Whole
<1>5. \A t \in T : w[t].pc = "none" /\ w[t] = NoThread
  BY <1>0, NotCreating
<1>6. \A t \in T : w'[t] = NoThread /\ conn'[t] = NoConn
  BY <1>0, <1>5, Idle
<1>7. ~tainted => \A t \in T : /\ part[t].clean = Held(part[t]) /\ part[t].mem = 0
                               /\ Held(part[t]) <= PartSize(FileSize, Threads, t)
  BY <1>5, Idle
<1>8. \A t \in T : Held(part'[t]) = Held(part[t])
  BY <1>0
<1> QED BY <1>0, <1>1, <1>2, <1>3, <1>4, <1>6, <1>7, <1>8, IdleStep

-------------------------------------------------------------------------------
(* The inductive invariant *)

LEMMA InitIInv == Init => IInv
<1> SUFFICES ASSUME Init PROVE IInv
  OBVIOUS
<1>1. \A t \in T : w[t] = NoThread /\ conn[t] = NoConn /\ part[t] = NoPart
  BY DEF Init
<1>2. TypeOK
  <2>1. w \in [T -> Thread] /\ conn \in [T -> Conn] /\ part \in [T -> PartFile]
    BY Nothing DEF Init
  <2>2. ProcessTypeOK
    BY ConstantsAssumption DEF Init, ProcessTypeOK
  <2>3. SharedTypeOK /\ FlagTypeOK
    BY Nothing, PartTypes DEF Init, SharedTypeOK, FlagTypeOK, Names
  <2>4. target \in [len : Nat, clean : Nat]
    BY DEF Init
  <2> QED BY <2>1, <2>2, <2>3, <2>4 DEF TypeOK, DataTypeOK, FilesTypeOK
<1>3. FrameInv
  BY <1>1, Nothing DEF Init, FrameInv, StageInv, ThreadStage
<1>4. OwnInv
  BY <1>1, Nothing, PartTypes DEF OwnInv, RangeOK, PartOK, ConnOK, Starting
<1>5. MergeInv
  BY DEF Init, MergeInv, Passed
<1> QED BY <1>2, <1>3, <1>4, <1>5 DEF IInv

LEMMA ThreadStepKeeps == ASSUME IInv, NEW t \in T, ThreadStep(t) PROVE IInv'
<1>13. CASE ClearInfo(t) \/ ParseUrl(t)
  BY <1>13, ClearInfoKeeps, ParseUrlKeeps
<1>1. CASE TakeName(t)
  BY <1>1, TakeNameKeeps
<1>2. CASE TakeRange(t)
  BY <1>2, TakeRangeKeeps
<1>3. CASE SendRequest(t)
  BY <1>3, SendRequestKeeps
<1>4. CASE Header(t)
  BY <1>4, HeaderKeeps
<1>5. CASE HeaderLost(t)
  BY <1>5, HeaderLostKeeps
<1>6. CASE HeaderReset(t) \/ NoFile(t)
  BY <1>6, DieKeeps DEF HeaderReset, NoFile
<1>7. CASE Open(t)
  BY <1>7, OpenKeeps
<1>8. CASE Read(t)
  BY <1>8, ReadKeeps
<1>9. CASE ReadEnd(t)
  BY <1>9, ReadEndKeeps
<1>10. CASE LoadShown(t)
  BY <1>10, LoadShownKeeps
<1>11. CASE StoreShown(t)
  BY <1>11, StoreShownKeeps
<1>12. CASE Close(t)
  BY <1>12, CloseKeeps
<1> QED BY <1>1, <1>2, <1>3, <1>4, <1>5, <1>6, <1>7, <1>8, <1>9, <1>10, <1>11, <1>12, <1>13
        DEF ThreadStep

LEMMA MainStepKeeps == ASSUME IInv, MainStep PROVE IInv'
<1>1. CASE GetSize
  BY <1>1, SizeKeeps
<1>2. CASE CreateThread
  BY <1>2, CreateThreadKeeps
<1>3. CASE SkipComplete
  BY <1>3, SkipCompleteKeeps
<1>4. CASE Join
  BY <1>4, JoinKeeps
<1>5. CASE MergePart
  BY <1>5, MergePartKeeps
<1>6. CASE MergeEmpty \/ MergeEnd
  BY <1>6, MergeEndKeeps
<1>7. CASE Finish
  BY <1>7, FinishKeeps
<1>8. CASE MergeMissing \/ CheckMissing
  BY <1>8, DieKeeps DEF MergeMissing, CheckMissing
<1> QED BY <1>1, <1>2, <1>3, <1>4, <1>5, <1>6, <1>7, <1>8 DEF MainStep

LEMMA StutterKeeps == IInv /\ UNCHANGED vars => IInv'
<1> SUFFICES ASSUME IInv, UNCHANGED vars PROVE IInv'
  OBVIOUS
<1>1. UNCHANGED <<mpc, size, idx, arg, hname, hsize, req, showbyte, astray, w, conn, part, target, runs,
                  failures, tainted>>
  BY DEF vars, globals
<1>2. TypeOK'
  BY <1>1 DEF IInv, TypeOK, ProcessTypeOK, SharedTypeOK, DataTypeOK, FilesTypeOK, FlagTypeOK
<1>3. FrameInv'
  BY <1>1 DEF IInv, FrameInv, StageInv, ThreadStage
<1>4. OwnInv'
  <2>1. ASSUME NEW t \in T, RangeOK(t) PROVE RangeOK(t)'
    <3>1. Lacking(t)' = Lacking(t)
      BY <1>1 DEF Lacking, First, Last, Each
    <3> QED BY <1>1, <2>1, <3>1 DEF RangeOK
  <2>2. ASSUME NEW t \in T, PartOK(t) PROVE PartOK(t)'
    BY <1>1, <2>2 DEF PartOK
  <2>3. ASSUME NEW t \in T, ConnOK(t) PROVE ConnOK(t)'
    BY <1>1, <2>3 DEF ConnOK, StreamOK
  <2> QED BY <1>1, <2>1, <2>2, <2>3 DEF IInv, OwnInv
<1>5. MergeInv'
  BY <1>1 DEF IInv, MergeInv, Passed, PartWhole, Whole
<1> QED BY <1>2, <1>3, <1>4, <1>5 DEF IInv

LEMMA NextKeeps == IInv /\ [Next]_vars => IInv'
<1> SUFFICES ASSUME IInv, [Next]_vars PROVE IInv'
  OBVIOUS
<1>1. CASE Spawn
  BY <1>1, SpawnKeeps
<1>2. CASE Kill
  BY <1>2, DieKeeps DEF Kill
<1>3. CASE MainStep
  BY <1>3, MainStepKeeps
<1>4. CASE SizeNotLearnt
  BY <1>4, SizeKeeps
<1>5. CASE SizeFails \/ \E t \in T : ConnectFails(t)
  BY <1>5, PrintErrorKeeps, ExitKeeps DEF SizeFails, ConnectFails
<1>6. ASSUME NEW t \in T, ThreadStep(t) PROVE IInv'
  BY <1>6, ThreadStepKeeps
<1>7. ASSUME NEW t \in T, ServerFails(t) \/ ServerCloses(t) PROVE IInv'
  BY <1>7, ServerFailsKeeps, ServerClosesKeeps
<1>8. CASE UNCHANGED vars
  BY <1>8, StutterKeeps
<1> QED BY <1>1, <1>2, <1>3, <1>4, <1>5, <1>6, <1>7, <1>8 DEF Next

(* The inductive invariant holds: what goes with which step, that what is    *)
(* still a thread's own asks for, brings and writes what its part lacks, and *)
(* that what the loop has passed is complete.                                *)
THEOREM IInvCorrect == Spec => []IInv
BY InitIInv, NextKeeps, PTL DEF Spec

(* Every variable keeps its type.                                            *)
THEOREM TypeCorrect == Spec => []TypeOK
<1>1. IInv => TypeOK
  BY DEF IInv
<1> QED BY <1>1, IInvCorrect, PTL

(* As long as no thread used what was another's, every part file is a prefix *)
(* of its part, over kills, failing connections and resumed runs             *)
(* (http17.c:933-957, 467-479).                                              *)
THEOREM PrefixCorrect == Spec => []PartsArePrefixes
<1>1. IInv => PartsArePrefixes
  BY DEF IInv, OwnInv, PartOK, PartsArePrefixes
<1> QED BY <1>1, IInvCorrect, PTL

(* A process that reaches its end without failures has merged the whole file *)
(* (http17.c:1095-1136).                                                     *)
THEOREM DoneCorrect == Spec => []DoneMeansWhole
<1>1. IInv => DoneMeansWhole
  BY DEF IInv, MergeInv, DoneMeansWhole
<1> QED BY <1>1, IInvCorrect, PTL

(* A thread that used nothing of another's never waits for bytes that will   *)
(* not come (http17.c:496, 705, 745).                                        *)
THEOREM WaitsCorrect == Spec => []WaitsOnlyForBytes
<1>1. IInv => WaitsOnlyForBytes
  BY DEF IInv, OwnInv, ConnOK, WaitsOnlyForBytes
<1> QED BY <1>1, IInvCorrect, PTL

-------------------------------------------------------------------------------
(* The bytes that are shown *)

(* The sums of what is to be added and of what is held are numbers, and      *)
(* change by what one thread or one part changes by.                         *)
LEMMA PendingOfOne ==
    ASSUME TypeOK, TypeOK', NEW t \in T, \A u \in T \ {t} : w'[u] = w[u]
    PROVE  /\ Pending \in Nat /\ Pending' \in Nat /\ w[t].got <= Pending
           /\ Pending' = Pending + (w'[t].got - w[t].got)
<1> DEFINE f == [u \in T |-> w[u].got]
           g == [u \in T |-> w'[u].got]
           d == w[t].got
           e == [i \in 0 .. Threads - 1 |-> IF i = t THEN d ELSE 0]
<1>1. T = 0 .. Threads - 1 /\ Threads \in Nat
  BY ConstantsAssumption, PartTypes
<1>2. \A u \in T : w[u].got \in Nat /\ w'[u].got \in Nat
  BY DEF TypeOK, DataTypeOK, Thread
<1>3. \A u \in T : /\ f[u] \in Nat /\ g[u] \in Nat /\ (u # t => g[u] = f[u])
                   /\ f[u] = w[u].got /\ g[u] = w'[u].got
                   /\ e[u] = IF u = t THEN w[t].got ELSE 0
  BY <1>1, <1>2
<1>4. Pending = Total(f, Threads) /\ Pending' = Total(g, Threads)
  BY DEF Pending
<1>5. Total(e, Threads) = w[t].got
  <2>1. d \in Int /\ t \in 0 .. Threads - 1 /\ Threads \in Nat
    BY <1>1, <1>2
  <2>2. Total(e, Threads) = d
    <3> HIDE DEF d
    <3> QED BY <2>1, TotalOfOne
  <2> QED BY <2>2
<1> HIDE DEF f, g, e
<1>6. Total(f, Threads) \in Nat /\ Total(g, Threads) \in Nat
  BY <1>1, <1>3, TotalType
<1>7. Total(g, Threads) = Total(f, Threads) + (g[t] - f[t])
  <2>1. \A i \in 0 .. Threads - 1 : f[i] \in Int /\ g[i] \in Int /\ (i # t => g[i] = f[i])
    BY <1>1, <1>3
  <2> QED BY <1>1, <2>1, TotalStep
<1>8. Total(e, Threads) <= Total(f, Threads)
  <2>1. \A i \in 0 .. Threads - 1 : e[i] \in Int /\ f[i] \in Int /\ e[i] <= f[i]
    BY <1>1, <1>2, <1>3
  <2> QED BY <1>1, <2>1, TotalMonotone
<1> QED BY <1>3, <1>4, <1>5, <1>6, <1>7, <1>8

LEMMA HeldOfOne ==
    ASSUME TypeOK, TypeOK', NEW k \in T, \A u \in T \ {k} : part'[u] = part[u]
    PROVE  HeldInAll' = HeldInAll + (Held(part'[k]) - Held(part[k]))
<1> DEFINE f == [u \in T |-> Held(part[u])]
           g == [u \in T |-> Held(part'[u])]
<1>1. T = 0 .. Threads - 1 /\ Threads \in Nat
  BY ConstantsAssumption, PartTypes
<1>2. \A u \in T : Held(part[u]) \in Nat /\ Held(part'[u]) \in Nat
  <2>1. \A u \in T : part[u] \in PartFile /\ part'[u] \in PartFile
    BY DEF TypeOK, FilesTypeOK
  <2> QED BY <2>1, HeldType
<1>3. \A u \in T : /\ f[u] \in Nat /\ g[u] \in Nat /\ (u # k => g[u] = f[u])
                   /\ f[u] = Held(part[u]) /\ g[u] = Held(part'[u])
  BY <1>2
<1>4. HeldInAll = Total(f, Threads) /\ HeldInAll' = Total(g, Threads)
  BY DEF HeldInAll, Held
<1> HIDE DEF f, g
<1>5. Total(g, Threads) = Total(f, Threads) + (g[k] - f[k])
  <2>1. \A i \in 0 .. Threads - 1 : f[i] \in Int /\ g[i] \in Int /\ (i # k => g[i] = f[i])
    BY <1>1, <1>3
  <2> QED BY <1>1, <2>1, TotalStep
<1> QED BY <1>3, <1>4, <1>5

(* Without threads nothing is to be added.                                   *)
LEMMA NonePending == ASSUME TypeOK, \A t \in T : w[t] = NoThread PROVE Pending = 0
<1> DEFINE f == [t \in T |-> w[t].got]
<1>1. \A i \in 0 .. Threads - 1 : f[i] = 0
  BY Nothing, PartTypes
<1> HIDE DEF f
<1>2. Total(f, Threads) = 0
  BY <1>1, TotalOfNone, ConstantsAssumption
<1> QED BY <1>2 DEF Pending, f

(* A step that neither counts nor writes.                                    *)
LEMMA CountsNothing ==
    ASSUME IInv, ShownInv, mpc' = mpc, showbyte' = showbyte, astray' = astray,
           \A u \in T : /\ w'[u].got = w[u].got /\ w'[u].ld = w[u].ld
                        /\ Held(part'[u]) = Held(part[u])
    PROVE  ShownInv'
<1>1. /\ [u \in T |-> w'[u].got] = [u \in T |-> w[u].got]
      /\ [u \in T |-> Held(part'[u])] = [u \in T |-> Held(part[u])]
  OBVIOUS
<1>2. Pending' = Pending
  BY <1>1 DEF Pending
<1>3. HeldInAll' = HeldInAll
  BY <1>1 DEF HeldInAll, Held
<1> QED BY <1>2, <1>3 DEF ShownInv

(* A thread that goes somewhere else, and may open or close a part.          *)
LEMMA GoesOn ==
    ASSUME IInv, ShownInv, NEW t \in T, UNCHANGED <<mpc, showbyte, astray>>,
           NEW pc \in {"clear", "parse", "name", "connect", "send", "header", "open", "read",
                       "load", "store", "close", "done"},
           Goto(t, pc),
           part' = part \/ part' = [u \in T |-> IF u = w[t].name THEN Flushed(part[u]) ELSE part[u]]
    PROVE  ShownInv'
<1>0. TypeOK
  BY DEF IInv
<1>1. \A u \in T : w'[u].got = w[u].got /\ w'[u].ld = w[u].ld
  BY <1>0, GotoIs
<1>2. ASSUME NEW u \in T PROVE Held(part'[u]) = Held(part[u])
  <2>1. part[u] \in PartFile /\ Held(Flushed(part[u])) = Held(part[u])
    BY <1>0, Shared, FlushedIs
  <2> QED BY <1>0, <2>1
<1> QED BY <1>1, <1>2, CountsNothing

LEMMA OpenShown == ASSUME IInv, ShownInv, NEW t \in T, Open(t) PROVE ShownInv'
<1> DEFINE new == [w[t] EXCEPT !.pc = "read", !.name = hname, !.size = hsize]
<1>0. TypeOK
  BY DEF IInv
<1>1. /\ w' = [w EXCEPT ![t] = new]
      /\ part' = [u \in T |-> IF u = hname THEN [part[u] EXCEPT !.is = "file"] ELSE part[u]]
      /\ UNCHANGED <<mpc, showbyte, astray>>
  BY DEF Open, ThreadFrame
<1>2. new.got = w[t].got /\ new.ld = w[t].ld
  BY <1>0, Components DEF Thread
<1> HIDE DEF new
<1>3. \A u \in T : w'[u].got = w[u].got /\ w'[u].ld = w[u].ld
  BY <1>0, <1>1, <1>2, Shared
<1>4. \A u \in T : Held(part'[u]) = Held(part[u])
  BY <1>0, <1>1, OpenedIs
<1> QED BY <1>1, <1>3, <1>4, CountsNothing

(* What a thread has read is there, or in the target, and yet to be added.   *)
LEMMA ReadShown == ASSUME IInv, IInv', ShownInv, NEW t \in T, Read(t) PROVE ShownInv'
<1> DEFINE k == w[t].name
           there == HeldInAll + astray
<1>0. /\ TypeOK /\ TypeOK' /\ w[t].pc = "read" /\ mpc = "create"
      /\ UNCHANGED <<mpc, showbyte>> /\ w[t].got = 0
  <2>1. TypeOK /\ w[t].pc = "read"
    BY DEF IInv, Read
  <2>2. mpc = "create" /\ w[t].got = 0
    BY <2>1, Living DEF ThreadStage
  <2> QED BY <2>1, <2>2 DEF IInv, Read
<1>1. PICK n \in 1 .. conn[t].left :
        /\ n \in Nat /\ Write(t, n)
        /\ \A u \in T \ {t} : w'[u] = w[u]
        /\ w'[t].got = n /\ w'[t].ld = w[t].ld
  BY <1>0, ReadIs
<1>2. HeldInAll \in Nat /\ astray \in Nat
  BY <1>0, Shared, HeldInAllType
<1>3. Pending \in Nat /\ Pending' = Pending + n
  BY <1>0, <1>1, PendingOfOne
<1>4. there \in Nat /\ there' = there + n
  <2>1. CASE k \in T
    <3>1. /\ astray' = astray /\ \A u \in T \ {k} : part'[u] = part[u]
          /\ Held(part'[k]) = Held(part[k]) + n
      BY <1>0, <1>1, <2>1, WriteIs
    <3>2. Held(part[k]) \in Nat
      BY <1>0, <2>1, Components
    <3> HIDE DEF k
    <3>3. HeldInAll' = HeldInAll + n
      BY <1>0, <1>1, <2>1, <3>1, <3>2, HeldOfOne
    <3> QED BY <1>1, <1>2, <3>1, <3>3
  <2>2. CASE k \notin T
    <3>1. part' = part /\ astray' = astray + n
      BY <1>0, <1>1, <2>2, WriteIs
    <3>2. HeldInAll' = HeldInAll
      BY <3>1 DEF HeldInAll, Held
    <3> QED BY <1>1, <1>2, <3>1, <3>2
  <2> QED BY <2>1, <2>2
<1>5. showbyte \in Nat /\ \A u \in T : w[u].ld \in Nat /\ w'[u].ld = w[u].ld
  BY <1>0, <1>1, Shared, Components
<1>6. showbyte + Pending <= there /\ \A u \in T : w[u].ld + Pending <= there
  BY <1>0 DEF ShownInv
<1> HIDE DEF there
<1>7. showbyte' + Pending' <= there'
  BY <1>0, <1>1, <1>3, <1>4, <1>5, <1>6
<1>8. ASSUME NEW u \in T PROVE w'[u].ld + Pending' <= there'
  BY <1>1, <1>3, <1>4, <1>5, <1>6
<1> QED BY <1>7, <1>8 DEF ShownInv, there

LEMMA LoadShownShown == ASSUME IInv, IInv', ShownInv, NEW t \in T, LoadShown(t) PROVE ShownInv'
<1> DEFINE new == [w[t] EXCEPT !.pc = "store", !.ld = showbyte]
<1>0. TypeOK /\ TypeOK' /\ w[t].pc = "load" /\ mpc = "create"
  <2>1. TypeOK /\ w[t].pc = "load"
    BY DEF IInv, LoadShown
  <2> QED BY <2>1, Living DEF IInv
<1>1. w' = [w EXCEPT ![t] = new] /\ UNCHANGED <<mpc, showbyte, astray, part>>
  BY DEF LoadShown, ThreadFrame
<1>2. new.ld = showbyte /\ new.got = w[t].got
  BY <1>0, Components DEF Thread
<1> HIDE DEF new
<1>3. w'[t] = new /\ \A u \in T \ {t} : w'[u] = w[u]
  BY <1>0, <1>1, Shared
<1>4. Pending \in Nat /\ Pending' = Pending
  <2>1. w[t].got \in Nat /\ w'[t].got = w[t].got
    BY <1>0, <1>2, <1>3, Components
  <2> QED BY <1>0, <1>3, <2>1, PendingOfOne
<1>5. HeldInAll' = HeldInAll
  BY <1>1 DEF HeldInAll, Held
<1>6. /\ showbyte + Pending <= HeldInAll + astray
      /\ \A u \in T : w[u].ld + Pending <= HeldInAll + astray
  BY <1>0 DEF ShownInv
<1> QED BY <1>1, <1>2, <1>3, <1>4, <1>5, <1>6 DEF ShownInv

LEMMA StoreShownShown == ASSUME IInv, IInv', ShownInv, NEW t \in T, StoreShown(t) PROVE ShownInv'
<1> DEFINE pc == IF w[t].size = w[t].sum THEN "close" ELSE "read"
           new == [w[t] EXCEPT !.pc = pc, !.got = 0, !.ld = 0]
<1>0. TypeOK /\ TypeOK' /\ w[t].pc = "store" /\ mpc = "create"
  <2>1. TypeOK /\ w[t].pc = "store"
    BY DEF IInv, StoreShown
  <2> QED BY <2>1, Living DEF IInv
<1>1. /\ w' = [w EXCEPT ![t] = new] /\ showbyte' = w[t].ld + w[t].got
      /\ UNCHANGED <<mpc, astray, part>>
  BY DEF StoreShown, ThreadFrame
<1> HIDE DEF pc
<1>2. new.ld = 0 /\ new.got = 0
  BY <1>0, Components DEF Thread
<1> HIDE DEF new
<1>3. w'[t] = new /\ \A u \in T \ {t} : w'[u] = w[u]
  BY <1>0, <1>1, Shared
<1>4. /\ w[t].got \in Nat /\ w[t].ld \in Nat /\ HeldInAll \in Nat /\ astray \in Nat
      /\ \A u \in T : w[u].ld \in Nat
  BY <1>0, Components, Shared, HeldInAllType
<1>5. /\ Pending \in Nat /\ Pending' \in Nat /\ Pending' = Pending - w[t].got
      /\ w[t].got <= Pending
  <2>1. w'[t].got = 0
    BY <1>2, <1>3
  <2>2. /\ Pending \in Nat /\ Pending' \in Nat /\ w[t].got <= Pending
        /\ Pending' = Pending + (w'[t].got - w[t].got)
    BY <1>0, <1>3, PendingOfOne
  <2> QED BY <1>4, <2>1, <2>2
<1>6. HeldInAll' = HeldInAll
  BY <1>1 DEF HeldInAll, Held
<1>7. \A u \in T : w[u].ld + Pending <= HeldInAll + astray
  BY <1>0 DEF ShownInv
<1>8. showbyte' + Pending' <= HeldInAll' + astray'
  BY <1>1, <1>4, <1>5, <1>6, <1>7
<1>9. ASSUME NEW u \in T PROVE w'[u].ld + Pending' <= HeldInAll' + astray'
  <2>1. CASE u = t
    <3>1. w'[u].ld = 0 /\ w[t].ld + Pending <= HeldInAll + astray
      BY <1>2, <1>3, <1>7, <2>1
    <3> QED BY <1>1, <1>4, <1>5, <1>6, <3>1
  <2>2. CASE u # t
    <3>1. w'[u].ld = w[u].ld /\ w[u].ld + Pending <= HeldInAll + astray /\ w[u].ld \in Nat
      BY <1>3, <1>4, <1>7, <2>2
    <3> QED BY <1>1, <1>4, <1>5, <1>6, <3>1
  <2> QED BY <2>1, <2>2
<1> QED BY <1>8, <1>9 DEF ShownInv

(* The process asks for the size, and counts what is there.                  *)
LEMMA SizeShown == ASSUME IInv, IInv', GetSize \/ SizeNotLearnt PROVE ShownInv'
<1>0. TypeOK /\ TypeOK' /\ mpc = "size"
  BY DEF IInv, GetSize, SizeNotLearnt
<1>1. showbyte' = HeldInAll /\ UNCHANGED <<astray, w, part>> /\ astray \in Nat
  BY <1>0, Shared DEF GetSize, SizeNotLearnt, MainFrame
<1>2. \A t \in T : w[t] = NoThread
  BY <1>0, NotCreating
<1>3. Pending' = 0
  <2>1. Pending = 0
    BY <1>0, <1>2, NonePending
  <2> QED BY <1>1, <2>1 DEF Pending
<1>4. HeldInAll' = HeldInAll /\ HeldInAll \in Nat
  BY <1>0, <1>1, HeldInAllType DEF HeldInAll, Held
<1>5. showbyte' + Pending' <= HeldInAll' + astray'
  BY <1>1, <1>3, <1>4
<1>6. ASSUME NEW t \in T PROVE w'[t].ld + Pending' <= HeldInAll' + astray'
  BY <1>1, <1>2, <1>3, <1>4, Nothing
<1> QED BY <1>5, <1>6 DEF ShownInv

LEMMA LoopShown ==
    ASSUME IInv, ShownInv, CreateThread \/ SkipComplete
    PROVE  ShownInv'
<1>0. TypeOK /\ mpc = "create" /\ idx \in T
  <2>1. TypeOK /\ mpc = "create" /\ idx < Threads
    BY DEF IInv, CreateThread, SkipComplete
  <2> QED BY <2>1, Shared, PartTypes
<1>1. CASE CreateThread
  <2>1. Goto(idx, "clear") /\ UNCHANGED <<mpc, showbyte, astray, part>>
    BY <1>1 DEF CreateThread, Hand, Goto, MainFrame
  <2> QED BY <1>0, <2>1, GoesOn
<1>2. CASE SkipComplete
  <2>1. UNCHANGED <<mpc, showbyte, astray, part, w>>
    BY <1>2 DEF SkipComplete, MainFrame
  <2> QED BY <2>1, CountsNothing DEF Held
<1> QED BY <1>1, <1>2

LEMMA ThreadShown ==
    ASSUME IInv, IInv', ShownInv, NEW t \in T, ThreadStep(t)
    PROVE  ShownInv'
<1>8. CASE ClearInfo(t) \/ ParseUrl(t)
  BY <1>8, GoesOn DEF ClearInfo, ParseUrl, ThreadFrame
<1>1. CASE TakeName(t) \/ TakeRange(t) \/ SendRequest(t) \/ Header(t) \/ HeaderLost(t)
  BY <1>1, GoesOn DEF TakeName, TakeRange, SendRequest, Header, HeaderLost, ThreadFrame
<1>2. CASE ReadEnd(t) \/ Close(t)
  BY <1>2, GoesOn DEF ReadEnd, Close, ThreadFrame
<1>3. CASE Open(t)
  BY <1>3, OpenShown
<1>4. CASE Read(t)
  BY <1>4, ReadShown
<1>5. CASE LoadShown(t)
  BY <1>5, LoadShownShown
<1>6. CASE StoreShown(t)
  BY <1>6, StoreShownShown
<1>7. CASE HeaderReset(t) \/ NoFile(t)
  BY <1>7 DEF HeaderReset, NoFile, Die, Gone, ShownInv
<1> QED BY <1>1, <1>2, <1>3, <1>4, <1>5, <1>6, <1>7, <1>8 DEF ThreadStep

LEMMA NextShown == IInv /\ IInv' /\ ShownInv /\ [Next]_vars => ShownInv'
<1> SUFFICES ASSUME IInv, IInv', ShownInv, [Next]_vars PROVE ShownInv'
  OBVIOUS
<1>1. CASE mpc' # "create"
  BY <1>1 DEF ShownInv
<1>2. CASE GetSize \/ SizeNotLearnt
  BY <1>2, SizeShown
<1>3. CASE CreateThread \/ SkipComplete
  BY <1>3, LoopShown
<1>4. ASSUME NEW t \in T, ThreadStep(t) PROVE ShownInv'
  BY <1>4, ThreadShown
<1>5. ASSUME NEW t \in T, ServerFails(t) \/ ServerCloses(t) PROVE ShownInv'
  BY <1>5, CountsNothing DEF ServerFails, ServerCloses, ServerFrame, Held
<1>6. CASE UNCHANGED vars
  BY <1>6, CountsNothing DEF vars, globals, Held
<1>7. Spawn \/ Join \/ MergePart \/ MergeEmpty \/ MergeEnd => mpc' # "create"
  BY DEF Spawn, Join, MergePart, MergeEmpty, MergeEnd
<1>8. /\ Die => mpc' # "create"
      /\ Exit \/ PrintError => mpc' # "create"
      /\ Finish => mpc' # "create"
  BY DEF Die, Exit, PrintError, Finish, Gone
<1>9. Kill \/ SizeFails \/ MergeMissing \/ CheckMissing => mpc' # "create"
  BY <1>8 DEF Kill, SizeFails, MergeMissing, CheckMissing
<1>10. ASSUME NEW t \in T, ConnectFails(t) PROVE mpc' # "create"
  BY <1>8, <1>10 DEF ConnectFails
<1> QED BY <1>1, <1>2, <1>3, <1>4, <1>5, <1>6, <1>7, <1>8, <1>9, <1>10 DEF Next, MainStep

(* The progress shown is never more than the part files hold and threads of  *)
(* the process have appended to the target, for any number of threads,       *)
(* although the mutex around showbyte keeps nobody out: an addition that is  *)
(* lost was of bytes that are there, and what a thread is about to store was *)
(* true when it read it (http17.c:451, 484, 658-661, 745, 915-920).          *)
THEOREM ShownCorrect == Spec => []ShownNeverOverstates
<1>1. Init => ShownInv
  BY DEF Init, ShownInv
<1>2. (IInv /\ IInv') /\ ShownInv /\ [Next]_vars => ShownInv'
  BY NextShown
<1>3. IInv /\ ShownInv => ShownNeverOverstates
  <2> SUFFICES ASSUME IInv, ShownInv, mpc = "create" PROVE showbyte <= HeldInAll + astray
    BY DEF ShownNeverOverstates
  <2>1. TypeOK /\ showbyte \in Nat /\ HeldInAll \in Nat /\ astray \in Nat
    BY Shared, HeldInAllType DEF IInv
  <2>2. Pending \in Nat
    <3> DEFINE f == [u \in T |-> w[u].got]
    <3>1. \A i \in 0 .. Threads - 1 : f[i] \in Nat
      BY <2>1, Components, PartTypes
    <3> HIDE DEF f
    <3>2. Total(f, Threads) \in Nat
      BY <3>1, TotalType, ConstantsAssumption
    <3> QED BY <3>2 DEF Pending, f
  <2> QED BY <2>1, <2>2 DEF ShownInv
<1> QED BY <1>1, <1>2, <1>3, IInvCorrect, PTL DEF Spec

-------------------------------------------------------------------------------
(* Implementing ResumableTransfer *)

(* Where a thread that steps is, and what its step leaves alone.             *)
LEMMA StepOfThread ==
    ASSUME IInv, NEW t \in T, ThreadStep(t)
    PROVE  /\ mpc = "create"
           /\ \/ (HeaderReset(t) \/ NoFile(t)) /\ Die
              \/ /\ Read(t) \/ ThreadFrame
                 /\ UNCHANGED <<mpc, failures>>
                 /\ tainted' = tainted \/ \E f \in BOOLEAN : Taint(f)
<1>6. CASE ClearInfo(t) \/ ParseUrl(t)
  <2>1. w[t].pc # "none" /\ ThreadFrame /\ failures' = failures /\ tainted' = tainted
    BY <1>6 DEF ClearInfo, ParseUrl
  <2> QED BY <2>1 DEF IInv, FrameInv, ThreadStage, ThreadFrame
<1>1. CASE TakeName(t) \/ TakeRange(t) \/ Header(t) \/ HeaderLost(t) \/ Open(t)
  <2>1. w[t].pc # "none"
    BY <1>1 DEF TakeName, TakeRange, Header, HeaderLost, Open
  <2>2. ThreadFrame /\ failures' = failures /\ (tainted' = tainted \/ \E f \in BOOLEAN : Taint(f))
    BY <1>1 DEF TakeName, TakeRange, Header, HeaderLost, Open
  <2> QED BY <2>1, <2>2 DEF IInv, FrameInv, ThreadStage, ThreadFrame
<1>2. CASE SendRequest(t)
  <2>1. w[t].pc # "none" /\ ThreadFrame /\ failures' = failures
        /\ Taint(hname = Nowhere \/ req.name # t \/ req.end < req.start)
    BY <1>2 DEF SendRequest
  <2> QED BY <2>1 DEF IInv, FrameInv, ThreadStage, ThreadFrame
<1>3. CASE ReadEnd(t) \/ LoadShown(t) \/ StoreShown(t) \/ Close(t)
  <2>1. w[t].pc # "none" /\ ThreadFrame /\ failures' = failures /\ tainted' = tainted
    BY <1>3 DEF ReadEnd, LoadShown, StoreShown, Close
  <2> QED BY <2>1 DEF IInv, FrameInv, ThreadStage, ThreadFrame
<1>4. CASE Read(t)
  <2>1. w[t].pc # "none" /\ UNCHANGED <<mpc, failures, tainted>>
    BY <1>4 DEF Read
  <2> QED BY <1>4, <2>1 DEF IInv, FrameInv, ThreadStage
<1>5. CASE HeaderReset(t) \/ NoFile(t)
  BY <1>5 DEF HeaderReset, NoFile, IInv, FrameInv, ThreadStage
<1> QED BY <1>1, <1>2, <1>3, <1>4, <1>5, <1>6 DEF ThreadStep

(* What an undisturbed process looks like was so before the step.            *)
LEMMA Before ==
    ASSUME IInv, [Next]_vars, ~tainted', failures' = 0
    PROVE  ~tainted /\ failures = 0
<1>0. failures \in Nat /\ tainted \in BOOLEAN
  BY ConstantsAssumption DEF IInv, TypeOK, ProcessTypeOK, FlagTypeOK
<1>1. Die \/ PrintError \/ (Exit /\ UNCHANGED failures)
        => failures' \in {failures, failures + 1} /\ tainted' = tainted
  BY DEF Die, Exit, PrintError, Gone
<1>2. Spawn \/ SizeNotLearnt \/ UNCHANGED vars
        => failures' \in {failures, failures + 1} /\ tainted' = tainted
  BY DEF Spawn, SizeNotLearnt, vars
<1>3. GetSize \/ CreateThread \/ SkipComplete \/ Join \/ MergePart \/ MergeEmpty \/ MergeEnd \/ Finish
        => failures' = failures /\ tainted' = tainted
  BY DEF GetSize, CreateThread, SkipComplete, Join, MergePart, MergeEmpty, MergeEnd, Finish,
         MainFrame, Gone
<1>4. ASSUME NEW t \in T, ThreadStep(t), ~ Die
      PROVE  failures' = failures /\ (tainted' = tainted \/ \E f \in BOOLEAN : Taint(f))
  BY <1>4, StepOfThread
<1>5. ASSUME NEW f \in BOOLEAN, Taint(f) PROVE ~tainted
  BY <1>5 DEF Taint
<1>6. ASSUME NEW t \in T, ServerFails(t) \/ ServerCloses(t)
      PROVE  failures' \in {failures, failures + 1} /\ tainted' = tainted
  BY <1>6 DEF ServerFails, ServerCloses, ServerFrame
<1>7. ASSUME NEW t \in T, ConnectFails(t)
      PROVE  PrintError \/ (Exit /\ UNCHANGED failures)
  BY <1>7 DEF ConnectFails
<1>8. Kill \/ SizeFails \/ MergeMissing \/ CheckMissing => Die \/ PrintError
  BY DEF Kill, SizeFails, MergeMissing, CheckMissing
<1>9. failures' \in {failures, failures + 1} /\ ~tainted
  BY <1>1, <1>2, <1>3, <1>4, <1>5, <1>6, <1>7, <1>8 DEF Next, MainStep
<1> QED BY <1>0, <1>9

(* Threads are gone when the parts are merged, and parts go in their order.  *)
LEMMA NextRemoves ==
    ASSUME IInv, IInv', RemovedInv, [Next]_vars
    PROVE  RemovedInv'
<1>0. TypeOK /\ idx \in 0 .. Threads /\ T \subseteq Nat /\ DOMAIN part = T
  BY PartTypes DEF IInv, TypeOK, ProcessTypeOK, FilesTypeOK
<1>1. CASE mpc' \notin {"merge", "check"}
  BY <1>1 DEF RemovedInv
<1>2. CASE Join
  <2>1. mpc' = "merge" /\ idx' = 0
    BY <1>2 DEF Join
  <2>2. \A t \in T : ~(t < 0)
    BY <1>0
  <2> QED BY <2>1, <2>2 DEF RemovedInv
<1>3. CASE MergePart
  <2>1. /\ mpc = "merge" /\ mpc' = "merge" /\ idx \in T /\ idx' = idx + 1
        /\ part' = [part EXCEPT ![idx] = NoPart]
    BY <1>0, <1>3, PartTypes DEF MergePart
  <2>2. ASSUME NEW t \in T, t < idx + 1 PROVE part'[t] = NoPart
    <3>1. t < idx \/ t = idx
      BY <1>0, <2>1, <2>2
    <3> QED BY <1>0, <2>1, <3>1 DEF RemovedInv
  <2> QED BY <2>1, <2>2 DEF RemovedInv
<1>4. CASE MergeEmpty \/ MergeEnd
  <2>1. /\ mpc = "merge" /\ mpc' = "check" /\ UNCHANGED <<idx, part, tainted, failures>>
        /\ idx = Threads \/ (idx \in T /\ part[idx].disk = 0)
    BY <1>0, <1>4, PartTypes DEF MergeEmpty, MergeEnd, MainFrame
  <2>2. ASSUME ~tainted, failures = 0 PROVE idx = Threads
    BY <1>0, <2>1, <2>2 DEF IInv, MergeInv, PartWhole
  <2> QED BY <2>1, <2>2 DEF RemovedInv
<1>5. CASE UNCHANGED vars
  BY <1>5 DEF RemovedInv, vars
<1>6. ASSUME NEW t \in T, ThreadStep(t) \/ ConnectFails(t) \/ ServerFails(t) \/ ServerCloses(t)
      PROVE  mpc' \notin {"merge", "check"}
  <2>1. CASE ThreadStep(t)
    BY <2>1, StepOfThread DEF Die, Gone
  <2>2. CASE ConnectFails(t)
    BY <2>2 DEF ConnectFails, PrintError, Exit, Gone
  <2>3. CASE ServerFails(t) \/ ServerCloses(t)
    <3>1. w[t].pc # "none" /\ mpc' = mpc
      BY <2>3 DEF ServerFails, ServerCloses, ServerFrame
    <3> QED BY <3>1 DEF IInv, FrameInv, ThreadStage
  <2> QED BY <1>6, <2>1, <2>2, <2>3
<1>7. CASE \/ Spawn \/ Kill \/ GetSize \/ CreateThread \/ SkipComplete \/ MergeMissing \/ Finish
           \/ CheckMissing \/ SizeNotLearnt \/ SizeFails
  <2>1. mpc' \notin {"merge", "check"}
    BY <1>7 DEF Spawn, Kill, GetSize, CreateThread, SkipComplete, MergeMissing, Finish,
                CheckMissing, SizeNotLearnt, SizeFails, Die, PrintError, Exit, Gone
  <2> QED BY <2>1, <1>1
<1> QED BY <1>1, <1>2, <1>3, <1>4, <1>5, <1>6, <1>7 DEF Next, MainStep

(* A step the abstract transfer does not see. *)
LEMMA Unseen ==
    ASSUME Phase' = Phase, Have' = Have, Whole' = Whole
    PROVE  UNCHANGED Transfer!tvars
BY DEF Transfer!tvars

(* Until merging begins, what is held of a part is what its file holds.      *)
LEMMA HaveIs ==
    ASSUME TypeOK
    PROVE  /\ DOMAIN Have = T
           /\ \A t \in T : part[t].clean \in Nat
           /\ mpc \notin {"merge", "check"} => \A t \in T : Have[t] = part[t].clean
<1>1. \A t \in T : part[t].clean \in Nat
  BY Components
<1> QED BY <1>1 DEF Have

LEMMA SameHave ==
    ASSUME mpc \notin {"merge", "check"}, mpc' \notin {"merge", "check"},
           \A t \in T : part'[t].clean = part[t].clean
    PROVE  Have' = Have
BY DEF Have

(* The death of a running process is an interruption. *)
LEMMA DieInterrupts ==
    ASSUME IInv, ~tainted, Die \/ Exit, Phase \in {"fetching", "merging"}
    PROVE  Transfer!Interrupt
<1>1. mpc' = "dead" /\ target' = target
  BY DEF Die, Exit, Gone
<1>2. Phase' = "idle" /\ Whole' = Whole
  BY <1>1 DEF Phase, Whole
<1>3. ASSUME NEW t \in T
      PROVE  Have'[t] \in Nat /\ Have'[t] <= Have[t]
  <2>1. part'[t] \in {Unflushed(part[t]), Flushed(part[t])} /\ part[t] \in PartFile
    BY DEF Die, Exit, IInv, TypeOK, FilesTypeOK
  <2>2. part'[t].clean \in {Lesser(part[t].clean, part[t].disk), part[t].clean}
    BY <2>1, FlushedIs DEF Unflushed, PartFile
  <2>3. part[t].clean \in Nat /\ part[t].disk \in Nat
    BY <2>1 DEF PartFile
  <2>4. part'[t].clean \in Nat /\ part'[t].clean <= part[t].clean
    BY <2>2, <2>3 DEF Lesser
  <2>5. PartSize(FileSize, Threads, t) \in Nat /\ part[t].clean <= PartSize(FileSize, Threads, t)
    BY PartTypes DEF IInv, OwnInv, PartOK
  <2>6. Have'[t] = part'[t].clean /\ Have[t] \in {part[t].clean, PartSize(FileSize, Threads, t)}
    BY <1>1 DEF Have
  <2> QED BY <2>3, <2>4, <2>5, <2>6
<1>4. Have' \in [T -> Nat]
  BY <1>3 DEF Have
<1> QED BY <1>2, <1>3, <1>4 DEF Transfer!Interrupt

(* A thread writes what it received: bytes are gained, or they are not the   *)
(* file's.                                                                   *)
LEMMA ReadGains ==
    ASSUME IInv, IInv', NEW t \in T, Read(t), mpc = "create", ~tainted'
    PROVE  Transfer!TNext \/ UNCHANGED Transfer!tvars
<1> DEFINE k == w[t].name
<1>0. TypeOK /\ TypeOK' /\ DOMAIN part = T /\ DOMAIN part' = T
  BY Components DEF IInv, TypeOK, FilesTypeOK
<1>1. k \in T
  <2>1. ~tainted /\ w[t].pc = "read"
    BY DEF Read
  <2> QED BY <2>1 DEF IInv, OwnInv, ConnOK
<1>2. mpc' = mpc /\ Phase = "fetching" /\ Phase' = "fetching"
  BY DEF Read, Phase
<1>3. PICK n \in 1 .. conn[t].left : n \in Nat /\ Write(t, n)
  BY <1>0, ReadIs
<1>5. n \in Nat /\ n >= 1
  <2>1. conn[t].left \in Nat
    BY <1>0, Components
  <2> QED BY <1>3, <2>1
<1>4. /\ target' = target
      /\ part'[k].clean = part[k].clean \/ part'[k].clean = part[k].clean + n
      /\ \A u \in T \ {k} : part'[u] = part[u]
  BY <1>0, <1>1, <1>3, WriteIs
<1> HIDE DEF k
<1>6. /\ Whole' = Whole
      /\ part'[k].clean = part[k].clean \/ part'[k].clean = part[k].clean + n
      /\ \A u \in T \ {k} : part'[u] = part[u]
  BY <1>4 DEF Whole
<1>7. CASE part'[k].clean = part[k].clean
  <2>1. Have' = Have
    BY <1>2, <1>6, <1>7, SameHave
  <2> QED BY <1>2, <1>6, <2>1, Unseen
<1>8. CASE part'[k].clean = part[k].clean + n
  <2>1. part'[k].clean \in Nat /\ part[k].clean \in Nat
    BY <1>0, <1>1 DEF TypeOK, FilesTypeOK, PartFile
  <2>2. part'[k].clean <= PartSize(FileSize, Threads, k) /\ PartSize(FileSize, Threads, k) \in Nat
    BY <1>1, PartTypes DEF IInv, OwnInv, PartOK
  <2>3. Have[k] = part[k].clean
    BY <1>0, <1>1, HaveIs
  <2>4. part'[k].clean \in (Have[k] + 1) .. [u \in T |-> PartSize(FileSize, Threads, u)][k]
    BY <1>1, <1>5, <1>8, <2>1, <2>2, <2>3
  <2>5. Have' = [Have EXCEPT ![k] = part'[k].clean]
    BY <1>1, <1>2, <1>6 DEF Have
  <2>6. Transfer!Gain(k)
    BY <1>2, <1>6, <2>4, <2>5 DEF Transfer!Gain
  <2> QED BY <1>1, <2>6 DEF Transfer!TNext
<1> QED BY <1>6, <1>7, <1>8

LEMMA ThreadStepImplements ==
    ASSUME IInv, IInv', NEW t \in T, ThreadStep(t), ~tainted, ~tainted'
    PROVE  Transfer!TNext \/ UNCHANGED Transfer!tvars
<1>0. TypeOK /\ DOMAIN part = T /\ \A u \in T : part[u] \in PartFile
  BY DEF IInv, TypeOK, FilesTypeOK
<1>1. mpc = "create" /\ Phase = "fetching"
  BY StepOfThread DEF Phase
<1>2. CASE Read(t)
  BY <1>1, <1>2, ReadGains
<1>3. CASE Die
  BY <1>1, <1>3, DieInterrupts DEF Transfer!TNext
<1>4. CASE ~ Read(t) /\ ~ Die
  <2>1. ThreadFrame
    BY <1>4, StepOfThread
  <2>2. \/ part' = part
        \/ part' = [u \in T |-> IF u = hname THEN [part[u] EXCEPT !.is = "file"] ELSE part[u]]
        \/ part' = [u \in T |-> IF u = w[t].name THEN Flushed(part[u]) ELSE part[u]]
    BY <1>4 DEF ThreadStep, ClearInfo, ParseUrl, HeaderReset, NoFile, TakeName, TakeRange, SendRequest, Header, HeaderLost, Open,
                ReadEnd, LoadShown, StoreShown, Close
  <2>3. mpc' = mpc /\ Phase' = Phase /\ Whole' = Whole
    BY <2>1 DEF ThreadFrame, Phase, Whole
  <2>4. ASSUME NEW u \in T PROVE part'[u].clean = part[u].clean
    <3>1. Flushed(part[u]).clean = part[u].clean
      BY <1>0, FlushedIs
    <3>2. CASE part' = part
      BY <3>2
    <3>3. CASE part' = [v \in T |-> IF v = hname THEN [part[v] EXCEPT !.is = "file"] ELSE part[v]]
      BY <1>0, <3>3, OpenedIs
    <3>4. CASE part' = [v \in T |-> IF v = w[t].name THEN Flushed(part[v]) ELSE part[v]]
      <4>1. part'[u] = part[u] \/ part'[u] = Flushed(part[u])
        BY <1>0, <3>4
      <4> QED BY <3>1, <4>1
    <3> QED BY <2>2, <3>2, <3>3, <3>4
  <2>5. Have' = Have
    BY <1>1, <2>3, <2>4, SameHave
  <2> QED BY <2>3, <2>5, Unseen
<1> QED BY <1>2, <1>3, <1>4

(* Merging begins when every part is complete. *)
LEMMA JoinMerges ==
    ASSUME IInv, IInv', Join, ~tainted', failures' = 0
    PROVE  Transfer!Merge
<1>1. /\ mpc = "create" /\ mpc' = "merge" /\ part' = part /\ idx' = 0
      /\ target' = [len |-> 0, clean |-> 0]
  BY DEF Join
<1>2. Phase = "fetching" /\ Phase' = "merging" /\ ~Whole'
  BY <1>1, ConstantsAssumption DEF Phase, Whole
<1>3. ASSUME NEW t \in T
      PROVE  part[t].clean = PartSize(FileSize, Threads, t) /\ ~ t < idx'
  <2>1. t \in Nat /\ ~ t < idx' /\ idx' <= t
    BY <1>1, PartTypes
  <2>2. PartWhole(t)' /\ PartOK(t)'
    BY <1>1, <2>1 DEF IInv, MergeInv, OwnInv
  <2>3. part[t].disk = PartSize(FileSize, Threads, t) /\ part[t].clean = Held(part[t])
        /\ Held(part[t]) <= PartSize(FileSize, Threads, t)
    BY <1>1, <2>2 DEF PartWhole, PartOK
  <2>4. part[t].disk \in Nat /\ part[t].mem \in Nat
    BY Components DEF IInv
  <2> QED BY <2>1, <2>3, <2>4 DEF Held
<1>4. Have = [t \in T |-> PartSize(FileSize, Threads, t)]
  BY <1>1, <1>3 DEF Have
<1>5. Have' = Have
  BY <1>1, <1>3 DEF Have
<1> QED BY <1>2, <1>4, <1>5 DEF Transfer!Merge

(* A part is in the target when it is removed; with the last the file is     *)
(* there.                                                                    *)
LEMMA MergePartDelivers ==
    ASSUME IInv, MergePart, ~tainted, failures = 0
    PROVE  Transfer!TNext \/ UNCHANGED Transfer!tvars
<1>1. /\ mpc = "merge" /\ mpc' = "merge" /\ idx < Threads /\ idx \in T /\ idx' = idx + 1
      /\ part' = [part EXCEPT ![idx] = NoPart] /\ DOMAIN part = T
  BY PartTypes DEF MergePart, IInv, TypeOK, ProcessTypeOK, FilesTypeOK
<1>2. idx \in Nat /\ T \subseteq Nat
  BY <1>1, PartTypes
<1>3. Phase = "merging" /\ Phase' = "merging"
  BY <1>1 DEF Phase
<1>4. PartWhole(idx) /\ PartOK(idx)
  BY <1>1, <1>2 DEF IInv, MergeInv, OwnInv
<1>5. part[idx].clean = PartSize(FileSize, Threads, idx)
  <2>1. part[idx].disk = PartSize(FileSize, Threads, idx) /\ part[idx].clean = Held(part[idx])
        /\ Held(part[idx]) <= PartSize(FileSize, Threads, idx)
    BY <1>4 DEF PartWhole, PartOK
  <2>2. part[idx].disk \in Nat /\ part[idx].mem \in Nat
    BY <1>1, Components DEF IInv
  <2> QED BY <2>1, <2>2 DEF Held
<1>6. Have' = Have
  <2>1. ASSUME NEW t \in T PROVE Have'[t] = Have[t]
    <3>1. CASE t = idx
      BY <1>1, <1>2, <1>5, <3>1 DEF Have
    <3>2. CASE t # idx
      <4>1. part'[t] = part[t]
        BY <1>1, <3>2
      <4>2. t < idx' <=> t < idx
        BY <1>1, <1>2, <3>2
      <4> QED BY <1>1, <4>1, <4>2 DEF Have
    <3> QED BY <3>1, <3>2
  <2> QED BY <2>1 DEF Have
<1>7. ~Whole
  <2>1. target.len = Merged(idx)
    BY <1>1 DEF IInv, MergeInv
  <2>3. idx # Threads
    BY <1>1, <1>2, ConstantsAssumption
  <2>4. target.len = Home(idx)
    BY <2>1, <2>3 DEF Merged
  <2>2. /\ PartSize(FileSize, Threads, idx) > 0
        /\ Home(idx) + PartSize(FileSize, Threads, idx) <= FileSize
        /\ Home(idx) \in Nat /\ PartSize(FileSize, Threads, idx) \in Nat /\ FileSize \in Nat
    BY <1>1, <1>4, PartTypes, ConstantsAssumption DEF PartWhole
  <2> QED BY <2>2, <2>4 DEF Whole
<1>8. CASE Whole'
  BY <1>3, <1>6, <1>8 DEF Transfer!TNext, Transfer!Deliver
<1>9. CASE ~Whole'
  <2>1. Whole' = Whole
    BY <1>7, <1>9 DEF Whole
  <2> QED BY <1>3, <1>6, <2>1, Unseen
<1> QED BY <1>8, <1>9

(* The end of the process. *)
LEMMA FinishEnds ==
    ASSUME IInv, RemovedInv, Finish, ~tainted, failures = 0
    PROVE  Transfer!End
<1>1. mpc = "check" /\ mpc' = "done" /\ target' = target /\ part' = part
  BY DEF Finish, Gone
<1>2. Phase = "merging" /\ Phase' = "done"
  BY <1>1 DEF Phase
<1>3. Whole /\ Whole'
  BY <1>1 DEF IInv, MergeInv, Whole
<1>4. \A t \in T : part'[t].clean = 0
  BY <1>1, PartTypes DEF RemovedInv, NoPart
<1>5. Have' = [t \in T |-> 0]
  BY <1>1, <1>4 DEF Have
<1> QED BY <1>2, <1>3, <1>5 DEF Transfer!End

LEMMA MainStepImplements ==
    ASSUME IInv, IInv', RemovedInv, MainStep, ~tainted, failures = 0, ~tainted', failures' = 0
    PROVE  Transfer!TNext \/ UNCHANGED Transfer!tvars
<1>1. CASE GetSize \/ CreateThread \/ SkipComplete
  <2>1. mpc \in {"size", "create"} /\ mpc' = "create" /\ part' = part /\ target' = target
    BY <1>1 DEF GetSize, CreateThread, SkipComplete
  <2>2. Phase' = Phase /\ Whole' = Whole /\ Have' = Have
    BY <2>1 DEF Phase, Whole, Have
  <2> QED BY <2>2, Unseen
<1>2. CASE Join
  BY <1>2, JoinMerges DEF Transfer!TNext
<1>3. CASE MergePart
  BY <1>3, MergePartDelivers
<1>4. CASE MergeMissing \/ CheckMissing
  <2>1. Die /\ Phase = "merging"
    BY <1>4 DEF MergeMissing, CheckMissing, Phase
  <2> QED BY <2>1, DieInterrupts DEF Transfer!TNext
<1>5. CASE MergeEmpty \/ MergeEnd
  <2>1. mpc = "merge" /\ mpc' = "check" /\ UNCHANGED <<idx, part, target>>
    BY <1>5 DEF MergeEmpty, MergeEnd
  <2>2. Phase' = Phase /\ Whole' = Whole /\ Have' = Have
    BY <2>1 DEF Phase, Whole, Have
  <2> QED BY <2>2, Unseen
<1>6. CASE Finish
  BY <1>6, FinishEnds DEF Transfer!TNext
<1> QED BY <1>1, <1>2, <1>3, <1>4, <1>5, <1>6 DEF MainStep

(* A step without failing connections before or in it. *)
LEMMA StepImplements ==
    ASSUME IInv, IInv', RemovedInv, [Next]_vars, ~tainted', failures' = 0
    PROVE  Transfer!TNext \/ UNCHANGED Transfer!tvars
<1>0. ~tainted /\ failures = 0
  BY Before
<1>1. CASE Spawn
  <2>1. mpc \in Ended /\ mpc' = "size" /\ part' = part /\ target' = target
    BY <1>1 DEF Spawn
  <2>2. Phase \in {"idle", "done"} /\ Phase' = "fetching" /\ Whole' = Whole /\ Have' = Have
    BY <2>1 DEF Phase, Ended, Whole, Have
  <2> QED BY <2>2 DEF Transfer!TNext, Transfer!Begin
<1>2. CASE Kill
  <2>1. Die /\ mpc \notin Ended
    BY <1>2 DEF Kill
  <2>2. Phase \in {"fetching", "merging"}
    BY <2>1 DEF Phase, Ended, IInv, TypeOK, ProcessTypeOK
  <2> QED BY <1>0, <2>1, <2>2, DieInterrupts DEF Transfer!TNext
<1>3. ~ SizeNotLearnt /\ ~ PrintError
  BY <1>0 DEF SizeNotLearnt, PrintError
<1>4. ASSUME NEW t \in T PROVE ~ ServerFails(t)
  BY <1>0 DEF ServerFails
<1>8. ASSUME NEW t \in T, ConnectFails(t) PROVE Transfer!TNext
  <2>1. Exit /\ w[t].pc # "none"
    BY <1>3, <1>8 DEF ConnectFails
  <2>2. Phase = "fetching"
    BY <2>1, Living DEF Phase
  <2> QED BY <1>0, <2>1, <2>2, DieInterrupts DEF Transfer!TNext
<1>5. CASE UNCHANGED vars \/ \E t \in T : ServerCloses(t)
  <2>1. UNCHANGED <<mpc, idx, part, target>>
    BY <1>5 DEF vars, ServerCloses, ServerFrame
  <2>2. Phase' = Phase /\ Whole' = Whole /\ Have' = Have
    BY <2>1 DEF Phase, Whole, Have
  <2> QED BY <2>2, Unseen
<1>6. CASE MainStep
  BY <1>0, <1>6, MainStepImplements
<1>7. ASSUME NEW t \in T, ThreadStep(t) PROVE Transfer!TNext \/ UNCHANGED Transfer!tvars
  BY <1>0, <1>7, ThreadStepImplements
<1> QED BY <1>1, <1>2, <1>3, <1>4, <1>5, <1>6, <1>7, <1>8 DEF Next, SizeFails

(* An HTTP download in which no thread uses what is another's and no         *)
(* connection fails implements ResumableTransfer, although it removes parts  *)
(* one by one while it merges: only a kill gives up bytes, only whole parts  *)
(* are merged, and the end is reached with the file delivered.               *)
THEOREM RefinementCorrect == Spec => ImplementsTransfer
<1>1. Init => RemovedInv /\ Transfer!TInit
  BY ConstantsAssumption DEF Init, RemovedInv, Transfer!TInit, Phase, Have, NoPart, Whole
<1>2. (IInv /\ IInv') /\ RemovedInv /\ [Next]_vars => RemovedInv'
  BY NextRemoves
<1>3. (IInv /\ IInv') /\ RemovedInv /\ [Next]_vars => [TransferStep]_vars
  BY StepImplements DEF TransferStep
<1> QED BY <1>1, <1>2, <1>3, IInvCorrect, PTL DEF Spec, ImplementsTransfer
===============================================================================
