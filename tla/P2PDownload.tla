----------------------------- MODULE P2PDownload -----------------------------
(***************************************************************************)
(* The P2P download of one file: the process p2p_download_process_create   *)
(* (operation "start") or p2p_continue_process_create ("continue") runs in,*)
(* its main thread and one thread per part (file_download, file_continue), *)
(* the request buffer and the progress counter the threads share, the part *)
(* files with their stdio buffers, and merging the parts.  A process can be*)
(* killed at any step ("stop", or SIGPIPE from the progress message when   *)
(* the browser is gone) and a later process resumes from the part files.   *)
(* One process works on the file at a time.                                *)
(*                                                                         *)
(* Data.  Part t of the file holds the bytes PartStart .. PartStart +      *)
(* PartSize - 1.  A part file is described by how many bytes of it reached *)
(* the disk, how many are still in the FILE buffer, and how long the prefix*)
(* is that equals the file's own bytes of that part (PartFiles).  String    *)
(* buffers are taken to be long enough for their contents.                 *)
(***************************************************************************)
EXTENDS Segments, PartFiles, FiniteSets

CONSTANTS
    FileSize,         \* php_operation->file_size
    Threads,          \* php_operation->thread_num
    Servers,          \* php_operation->p2p_server_num
    Block,            \* res_content_len: most bytes one recv returns
    Radix,            \* base of the numbers in the request text: 10 in the code
    MaxRuns,          \* bound: processes started for this file
    MaxFailures       \* bound: servers that die

ASSUME ConstantsAssumption ==
    /\ FileSize \in Nat
    /\ Threads \in Nat \ {0}
    /\ Servers \in Nat \ {0}
    /\ Block \in Nat \ {0}
    /\ Radix \in Nat \ {0, 1}
    /\ MaxRuns \in Nat
    /\ MaxFailures \in Nat

T == Parts(Threads)
Size(t) == PartSize(FileSize, Threads, t)
Start(t) == PartStart(FileSize, Threads, t)
Server(t) == ServerOf(Threads, Servers, t)

VARIABLES
    mpc,        \* where the main thread of the process is
    op,         \* the operation the process was started for
    idx,        \* loop variable i of the main thread
    mld,        \* value of rate the main thread has read in "rate += ..."
    rate,       \* the progress counter, *request_info->rate
    lock,       \* work_mutex: the part whose thread holds it, or -1
    buf,        \* mozart_req_content: size and start written into it
    w,          \* the threads
    conn,       \* the connection of each thread, as its server sees it
    part,       \* the part files
    tempDir,    \* whether <file>_temp exists
    target,     \* the merged file: its length, and that of its right prefix
    aborted,    \* file_merge returned from inside its loop
    flag,       \* download_flag
    peerUp,     \* which servers live
    runs,       \* processes started so far
    failures,   \* servers that died so far
    tainted     \* history: a request was formatted while another thread's was
                \* in the buffer, or a failed recv was written to a part

mainVars == <<mpc, op, idx, mld, aborted, flag>>
fileVars == <<part, tempDir, target>>
vars == <<mpc, op, idx, mld, rate, lock, buf, w, conn, part, tempDir, target,
          aborted, flag, peerUp, runs, failures, tainted>>

Ops == {"start", "continue"}
Ended == {"none", "done", "dead"}              \* no process is running
Unlocked == -1

NoThread == [pc |-> "none", size |-> 0, start |-> 0, all |-> 0, got |-> 0, ld |-> 0]
NoConn == [st |-> "none", pos |-> 0, left |-> 0]

-------------------------------------------------------------------------------
(* The request text *)

(* Characters "%d" prints. *)
Digits(n) ==
    LET m == IF n < 0 THEN -n ELSE n
    IN  (IF n < 0 THEN 2 ELSE 1) + Cardinality({k \in 1 .. m : Radix ^ k <= m})

(* Length of the request, less the part every request has in common. *)
TextLen(size, start) == Digits(size) + Digits(start)

(* Bytes a server sends for a request: it stops at the end of the file.  A   *)
(* negative size makes it read the rest at once, which may overrun its       *)
(* buffer and end it (P2PServer): here it is one of the servers that die.    *)
Granted(size, start) ==
    LET rest == IF start < FileSize THEN FileSize - start ELSE 0
    IN  IF size < 0 THEN rest ELSE Lesser(size, rest)

-------------------------------------------------------------------------------
(* The life of the process *)

Init ==
    /\ mpc = "none" /\ op = "start" /\ idx = 0 /\ mld = 0
    /\ rate = 0 /\ lock = Unlocked
    /\ buf = [size |-> 0, start |-> 0]
    /\ w = [t \in T |-> NoThread]
    /\ conn = [t \in T |-> NoConn]
    /\ part = [t \in T |-> NoPart]
    /\ tempDir = FALSE
    /\ target = [len |-> 0, clean |-> 0]
    /\ aborted = FALSE /\ flag = 0
    /\ peerUp = [k \in {0, 1} |-> TRUE]
    /\ runs = 0 /\ failures = 0 /\ tainted = FALSE

(* main forks, the child enters the directory of the parts: "start" makes it *)
(* and takes over what an earlier process left there.                        *)
Spawn(o) ==
    /\ mpc \in Ended /\ runs < MaxRuns
    /\ runs' = runs + 1
    /\ mpc' = "create" /\ op' = o /\ idx' = 0 /\ mld' = 0
    /\ aborted' = FALSE /\ flag' = 0
    /\ rate' = 0 /\ lock' = Unlocked
    /\ buf' = [size |-> 0, start |-> 0]
    /\ tempDir' = (o = "start" \/ tempDir)
    /\ UNCHANGED <<w, conn, part, target, peerUp, failures, tainted>>

(* The process dies: its threads, connections and stdio buffers are gone.    *)
Die ==
    /\ mpc' = "dead" /\ idx' = 0 /\ mld' = 0 /\ aborted' = FALSE
    /\ rate' = 0 /\ lock' = Unlocked
    /\ buf' = [size |-> 0, start |-> 0]
    /\ w' = [t \in T |-> NoThread]
    /\ conn' = [t \in T |-> NoConn]
    /\ part' = [t \in T |-> Unflushed(part[t])]
    /\ UNCHANGED <<op, flag, tempDir, target, peerUp, runs, failures, tainted>>

(* SIGTERM from a "stop", or SIGPIPE from the progress message. *)
Kill == mpc \notin Ended /\ Die

-------------------------------------------------------------------------------
(* Threads: file_download and file_continue *)

ThreadFrame == UNCHANGED <<mainVars, tempDir, target, peerUp, runs, failures>>

Goto(t, pc) == w' = [w EXCEPT ![t].pc = pc]

(* connect(): its result is not looked at. *)
Connect(t) ==
    /\ w[t].pc = "connect"
    /\ Goto(t, "format")
    /\ conn' = [conn EXCEPT ![t].st = IF peerUp[Server(t)] THEN "open" ELSE "refused"]
    /\ ThreadFrame
    /\ UNCHANGED <<rate, lock, buf, part, tainted>>

(* Another thread's request is being written or waits to be sent. *)
BufferBusy(t) == \E u \in T \ {t} : w[u].pc \in {"format2", "send"}

(* snprintf into mozart_req_content, first the size, then the start, so that *)
(* another thread can send half of each.                                     *)
FormatSize(t) ==
    /\ w[t].pc = "format"
    /\ buf' = [buf EXCEPT !.size = w[t].size]
    /\ Goto(t, "format2")
    /\ tainted' = (tainted \/ BufferBusy(t))
    /\ ThreadFrame
    /\ UNCHANGED <<rate, lock, conn, part>>

FormatStart(t) ==
    /\ w[t].pc = "format2"
    /\ buf' = [buf EXCEPT !.start = w[t].start]
    /\ Goto(t, "send")
    /\ tainted' = (tainted \/ BufferBusy(t))
    /\ ThreadFrame
    /\ UNCHANGED <<rate, lock, conn, part>>

(* send(): the buffer as it is now, cut to the length of the thread's own    *)
(* text.  A server that is sent less than a whole request waits for the rest *)
(* and the thread for its answer.  A server that died after the connect      *)
(* leaves the thread to read the end of the stream.                          *)
Send(t) ==
    /\ w[t].pc = "send" /\ conn[t].st # "refused"
    /\ Goto(t, "response")
    /\ conn' = [conn EXCEPT ![t] =
         IF @.st # "open" THEN @
         ELSE IF TextLen(w[t].size, w[t].start) < TextLen(buf.size, buf.start)
         THEN [@ EXCEPT !.st = "hang"]
         ELSE [@ EXCEPT !.pos = buf.start, !.left = Granted(buf.size, buf.start)]]
    /\ ThreadFrame
    /\ UNCHANGED <<rate, lock, buf, part, tainted>>

(* send() on a connection that was refused raises SIGPIPE. *)
SendOnRefused(t) ==
    /\ w[t].pc = "send" /\ conn[t].st = "refused"
    /\ Die

(* Mutation: both operations empty the part. *)
OpenedEmpty(p) == [NoPart EXCEPT !.is = "file"]

(* fopen: "wb+" in file_download empties the part, "ab" in file_continue     *)
(* keeps it.                                                                 *)
Opened(p) == IF op = "start" THEN [NoPart EXCEPT !.is = "file"] ELSE [p EXCEPT !.is = "file"]

(* get_res_info found "Start: 1". *)
Response(t) ==
    /\ w[t].pc = "response" /\ conn[t].st # "hang"
    /\ Goto(t, "recv")
    /\ part' = [part EXCEPT ![t] = Opened(@)]
    /\ ThreadFrame
    /\ UNCHANGED <<rate, lock, buf, conn, tainted>>

(* The server died before it answered, and start_flag, which nothing         *)
(* initialises, is not 1: the thread ends.                                   *)
NoResponse(t) ==
    /\ w[t].pc = "response" /\ conn[t].st \in {"eof", "reset"}
    /\ Goto(t, "done")
    /\ conn' = [conn EXCEPT ![t] = NoConn]
    /\ ThreadFrame
    /\ UNCHANGED <<rate, lock, buf, part, tainted>>

Remaining(t) == w[t].size - w[t].all

(* recv and fwrite: the bytes are right when the stream is where the file is.*)
Recv(t) ==
    /\ w[t].pc = "recv" /\ Remaining(t) > 0
    /\ conn[t].st \in {"open", "eof"} /\ conn[t].left > 0
    /\ \E n \in 1 .. Lesser(Block, conn[t].left) :
         /\ \E f \in 0 .. part[t].mem + n :
               part' = [part EXCEPT ![t] =
                          Appended(@, n, conn[t].pos = Start(t) + Held(@), f)]
         /\ conn' = [conn EXCEPT ![t].pos = @ + n, ![t].left = @ - n]
         /\ w' = [w EXCEPT ![t].pc = "lock", ![t].all = @ + n, ![t].got = n]
    /\ ThreadFrame
    /\ UNCHANGED <<rate, lock, buf, tainted>>

(* recv returned 0: nothing is written and the loop never ends. *)
RecvEnd(t) ==
    /\ w[t].pc = "recv" /\ Remaining(t) > 0
    /\ conn[t].st = "eof" /\ conn[t].left = 0
    /\ Goto(t, "spin")
    /\ ThreadFrame
    /\ UNCHANGED <<rate, lock, buf, conn, part, tainted>>

(* recv returned -1, and fwrite of that many bytes writes what follows the   *)
(* buffer, up to some length, into the part ...                              *)
RecvError(t) ==
    /\ w[t].pc = "recv" /\ Remaining(t) > 0
    /\ conn[t].st = "reset"
    /\ \E n \in 1 .. Block :
         /\ part' = [part EXCEPT ![t] = Appended(@, n, FALSE, 0)]
         /\ w' = [w EXCEPT ![t].pc = "lock", ![t].all = @ + n, ![t].got = n]
    /\ conn' = [conn EXCEPT ![t] = [st |-> "eof", pos |-> 0, left |-> 0]]
    /\ tainted' = TRUE
    /\ ThreadFrame
    /\ UNCHANGED <<rate, lock, buf>>

(* ... or faults. *)
RecvFault(t) ==
    /\ w[t].pc = "recv" /\ Remaining(t) > 0
    /\ conn[t].st = "reset"
    /\ Die

(* Mutation: the counter is read without the lock. *)
ReadRate(t) ==
    /\ w[t].pc = "lock"
    /\ lock' = t
    /\ w' = [w EXCEPT ![t].pc = "store", ![t].ld = rate]
    /\ ThreadFrame
    /\ UNCHANGED <<rate, buf, conn, part, tainted>>

(* pthread_mutex_lock, and the read of "*rate += write_flag". *)
LockRate(t) ==
    /\ w[t].pc = "lock" /\ lock = Unlocked
    /\ lock' = t
    /\ w' = [w EXCEPT ![t].pc = "store", ![t].ld = rate]
    /\ ThreadFrame
    /\ UNCHANGED <<rate, buf, conn, part, tainted>>

(* Mutation: the lock is not given back. *)
StoreRateLocked(t) ==
    /\ w[t].pc = "store"
    /\ rate' = w[t].ld + w[t].got
    /\ w' = [w EXCEPT ![t].pc = "recv", ![t].got = 0, ![t].ld = 0]
    /\ ThreadFrame
    /\ UNCHANGED <<lock, buf, conn, part, tainted>>

(* The write of "*rate += write_flag", the progress message and the unlock. *)
StoreRate(t) ==
    /\ w[t].pc = "store"
    /\ rate' = w[t].ld + w[t].got
    /\ lock' = Unlocked
    /\ w' = [w EXCEPT ![t].pc = "recv", ![t].got = 0, ![t].ld = 0]
    /\ ThreadFrame
    /\ UNCHANGED <<buf, conn, part, tainted>>

(* The loop is over: fclose writes the buffer out, the thread ends. *)
Finish(t) ==
    /\ w[t].pc = "recv" /\ Remaining(t) <= 0
    /\ Goto(t, "done")
    /\ part' = [part EXCEPT ![t].disk = Held(part[t]), ![t].mem = 0]
    /\ conn' = [conn EXCEPT ![t] = NoConn]
    /\ ThreadFrame
    /\ UNCHANGED <<rate, lock, buf, tainted>>

ThreadStep(t) ==
    \/ Connect(t) \/ FormatSize(t) \/ FormatStart(t) \/ Send(t) \/ SendOnRefused(t)
    \/ Response(t) \/ NoResponse(t)
    \/ Recv(t) \/ RecvEnd(t) \/ RecvError(t) \/ RecvFault(t)
    \/ LockRate(t) \/ StoreRate(t) \/ Finish(t)

-------------------------------------------------------------------------------
(* The main thread *)

MainFrame == UNCHANGED <<lock, buf, conn, op, peerUp, runs, failures, tainted>>

NewThread(size, start) ==
    [pc |-> "connect", size |-> size, start |-> start, all |-> 0, got |-> 0, ld |-> 0]

(* One round of the loop of p2p_download_process_create. *)
CreateThread ==
    /\ mpc = "create" /\ op = "start" /\ idx < Threads
    /\ w' = [w EXCEPT ![idx] = NewThread(Size(idx), Start(idx))]
    /\ idx' = idx + 1
    /\ MainFrame
    /\ UNCHANGED <<mpc, mld, rate, part, tempDir, target, aborted, flag>>

(* One round of the loop of p2p_continue_process_create, up to the read of   *)
(* "rate += temp_file_len", which no lock protects ...                       *)
MeasurePart ==
    /\ mpc = "create" /\ op = "continue" /\ idx < Threads /\ part[idx].is = "file"
    /\ mpc' = "add" /\ mld' = rate
    /\ MainFrame
    /\ UNCHANGED <<idx, rate, w, part, tempDir, target, aborted, flag>>

(* Mutations: the whole part is counted as downloaded; the missing bytes are *)
(* asked for from the start of the part.                                     *)
CountsWholePart ==
    LET len == Held(part[idx]) IN
    /\ mpc = "add"
    /\ rate' = mld + Size(idx)
    /\ w' = IF len = Size(idx) THEN w
            ELSE [w EXCEPT ![idx] = NewThread(Size(idx) - len, Start(idx) + len)]
    /\ mpc' = "create" /\ mld' = 0 /\ idx' = idx + 1
    /\ MainFrame
    /\ UNCHANGED <<part, tempDir, target, aborted, flag>>

AsksFromPartStart ==
    LET len == Held(part[idx]) IN
    /\ mpc = "add"
    /\ rate' = mld + len
    /\ w' = IF len = Size(idx) THEN w
            ELSE [w EXCEPT ![idx] = NewThread(Size(idx) - len, Start(idx))]
    /\ mpc' = "create" /\ mld' = 0 /\ idx' = idx + 1
    /\ MainFrame
    /\ UNCHANGED <<part, tempDir, target, aborted, flag>>

(* ... and from its write on: a thread for the bytes the part lacks. *)
ContinuePart ==
    LET len == Held(part[idx]) IN
    /\ mpc = "add"
    /\ rate' = mld + len
    /\ w' = IF len = Size(idx) THEN w
            ELSE [w EXCEPT ![idx] = NewThread(Size(idx) - len, Start(idx) + len)]
    /\ mpc' = "create" /\ mld' = 0 /\ idx' = idx + 1
    /\ MainFrame
    /\ UNCHANGED <<part, tempDir, target, aborted, flag>>

(* fseek on the NULL fopen returned for a part that is not there. *)
MeasureMissing ==
    /\ mpc = "create" /\ op = "continue" /\ idx < Threads /\ part[idx].is = "absent"
    /\ Die

(* Mutation: only the last thread created is waited for. *)
JoinLast ==
    /\ mpc = "create" /\ idx = Threads
    /\ w[Threads - 1].pc \in {"none", "done"}
    /\ mpc' = "merge" /\ idx' = 0
    /\ target' = [len |-> 0, clean |-> 0]
    /\ w' = [t \in T |-> NoThread]
    /\ MainFrame
    /\ UNCHANGED <<mld, rate, part, tempDir, aborted, flag>>

(* All threads are joined; file_merge opens the target, which empties it. *)
Join ==
    /\ mpc = "create" /\ idx = Threads
    /\ \A t \in T : w[t].pc \in {"none", "done"}
    /\ mpc' = "merge" /\ idx' = 0
    /\ target' = [len |-> 0, clean |-> 0]
    /\ w' = [t \in T |-> NoThread]
    /\ MainFrame
    /\ UNCHANGED <<mld, rate, part, tempDir, aborted, flag>>

(* One round of the loop of file_merge: the part goes behind the others. *)
MergePart ==
    /\ mpc = "merge" /\ idx < Threads /\ part[idx].is = "file" /\ Held(part[idx]) > 0
    /\ target' = [len |-> target.len + Held(part[idx]),
                  clean |-> IF target.clean = target.len /\ target.len = Start(idx)
                            THEN target.clean + part[idx].clean
                            ELSE target.clean]
    /\ idx' = idx + 1
    /\ MainFrame
    /\ UNCHANGED <<mpc, mld, rate, w, part, tempDir, aborted, flag>>

(* An empty part: file_merge returns at once, still inside the directory of  *)
(* the parts.                                                                *)
MergeEmpty ==
    /\ mpc = "merge" /\ idx < Threads /\ part[idx].is = "file" /\ Held(part[idx]) = 0
    /\ mpc' = "cleanup" /\ aborted' = TRUE
    /\ MainFrame
    /\ UNCHANGED <<idx, mld, rate, w, part, tempDir, target, flag>>

(* fseek on the NULL fopen returned. *)
MergeMissing ==
    /\ mpc = "merge" /\ idx < Threads /\ part[idx].is = "absent"
    /\ Die

(* fclose and md5_com, which leaves the directory of the parts.  The result  *)
(* is printed and looked at no further.                                      *)
MergeEnd ==
    /\ mpc = "merge" /\ idx = Threads
    /\ mpc' = "cleanup"
    /\ MainFrame
    /\ UNCHANGED <<idx, mld, rate, w, part, tempDir, target, aborted, flag>>

(* chdir("..") and "rm -rf <file>_temp".  After md5_com that is one directory*)
(* too high, where there is nothing to remove; after an aborted merge it     *)
(* removes the parts.  Then the flag, and the end of the process.            *)
Cleanup ==
    /\ mpc = "cleanup"
    /\ tempDir' = (tempDir /\ ~aborted)
    /\ part' = IF aborted THEN [t \in T |-> NoPart] ELSE part
    /\ flag' = 1
    /\ mpc' = "done" /\ idx' = 0
    /\ MainFrame
    /\ UNCHANGED <<mld, rate, w, target, aborted>>

MainStep ==
    \/ CreateThread \/ MeasurePart \/ ContinuePart \/ MeasureMissing \/ Join
    \/ MergePart \/ MergeEmpty \/ MergeMissing \/ MergeEnd \/ Cleanup

-------------------------------------------------------------------------------
(* A server process dies.  On each of its connections what was in flight is  *)
(* delivered in part, followed by an end of stream, or is lost to a reset.   *)
PeerDies(k) ==
    /\ k < Servers /\ peerUp[k] /\ failures < MaxFailures
    /\ peerUp' = [peerUp EXCEPT ![k] = FALSE]
    /\ failures' = failures + 1
    /\ LET hit == {t \in T : Server(t) = k /\ conn[t].st \in {"open", "hang"}} IN
       \E how \in [hit -> {"eof", "reset"}], arrives \in [hit -> 0 .. FileSize] :
         conn' = [t \in T |->
                    IF t \in hit
                    THEN [st |-> how[t], pos |-> conn[t].pos,
                          left |-> IF how[t] = "eof" THEN Lesser(arrives[t], conn[t].left) ELSE 0]
                    ELSE conn[t]]
    /\ UNCHANGED <<mainVars, fileVars, rate, lock, buf, w, runs, tainted>>

-------------------------------------------------------------------------------
Next ==
    \/ \E o \in Ops : Spawn(o)
    \/ MainStep
    \/ \E t \in T : ThreadStep(t)
    \/ Kill
    \/ \E k \in {0, 1} : PeerDies(k)

Spec == Init /\ [][Next]_vars

(* The kernel runs every thread of a process, and a live server sends.       *)
Fairness ==
    /\ WF_vars(MainStep)
    /\ \A t \in T : WF_vars(ThreadStep(t))

FairSpec == Spec /\ Fairness

-------------------------------------------------------------------------------
(* Properties *)

Workers == {"none", "connect", "format", "format2", "send", "response", "recv",
            "lock", "store", "spin", "done"}

Thread == [pc : Workers, size : Int, start : Nat, all : Nat, got : Nat, ld : Nat]
Connection == [st : {"none", "open", "refused", "hang", "eof", "reset"}, pos : Nat, left : Nat]
Request == [size : Int, start : Nat]
Target == [len : Nat, clean : Nat]
MainPcs == {"none", "done", "dead", "create", "add", "merge", "cleanup"}

MainTypeOK ==
    /\ mpc \in MainPcs /\ op \in Ops
    /\ idx \in 0 .. Threads /\ mld \in Nat /\ flag \in {0, 1}
    /\ mpc = "add" => idx \in T

SharedTypeOK ==
    /\ rate \in Nat /\ lock \in T \cup {Unlocked}
    /\ buf \in Request

DataTypeOK ==
    /\ w \in [T -> Thread] /\ conn \in [T -> Connection]
    /\ part \in [T -> PartFile]

WorldTypeOK ==
    /\ target \in Target
    /\ runs \in 0 .. MaxRuns /\ failures \in 0 .. MaxFailures

BooleanTypeOK ==
    /\ tempDir \in BOOLEAN /\ aborted \in BOOLEAN /\ tainted \in BOOLEAN
    /\ peerUp \in [{0, 1} -> BOOLEAN]

(* The type of every variable. *)
TypeOK == MainTypeOK /\ SharedTypeOK /\ DataTypeOK /\ WorldTypeOK /\ BooleanTypeOK

(* As long as no two requests met in the shared buffer and no failed recv    *)
(* was written, every part file is a prefix of its part of the file: over    *)
(* kills that lose buffered bytes, restarts that begin again or go on where  *)
(* the file ends, and servers that die.  The resume offset of                *)
(* p2p_continue.c:59, the modes of the two fopen calls, the part sizes and   *)
(* the flushing of the buffer have to agree for this.                        *)
PartIsPrefix(t) == part[t].clean = Held(part[t]) /\ Held(part[t]) <= Size(t)

PartsArePrefixes == ~tainted => \A t \in T : PartIsPrefix(t)

(* A process that reaches its end has merged the whole file, unless requests *)
(* met in the buffer, a server died, or the file has fewer bytes than the    *)
(* download has threads.                                                     *)
Whole == target.clean = FileSize /\ target.len = FileSize

DoneMeansWhole ==
    (mpc = "done" /\ ~tainted /\ failures = 0 /\ FileSize >= Threads) => Whole

(* The counter behind the progress messages never claims more than the part  *)
(* files hold, whatever the unlocked additions of p2p_continue.c:53 and 60   *)
(* lose: the percentage shown is never ahead of the download.                *)
HeldInAll == Total([t \in T |-> Held(part[t])], Threads)

RateNeverOverstates == mpc \notin Ended => rate <= HeldInAll

(* In a fresh download only threads add to the counter and the lock makes it *)
(* exact: it is the number of bytes received and added up so far.            *)
Added(t) == w[t].all - w[t].got

RateExactInStart ==
    (mpc = "create" /\ op = "start") => rate = Total([t \in T |-> Added(t)], Threads)

(* A continue gives up no byte an earlier process brought to the disk,       *)
(* whatever requests meet, servers die and failed recvs are written (the     *)
(* "ab" of p2p_continue.c:134): all its end can do is remove the parts, after*)
(* it found one of them empty, which is so only if requests met, a server    *)
(* died, or the file has fewer bytes than the download has threads.          *)
ContinueKeepsDisk ==
    [][(op = "continue" /\ mpc \notin Ended) =>
         \/ \A t \in T : part'[t].disk >= part[t].disk
         \/ /\ mpc = "cleanup" /\ \E t \in T : Held(part[t]) = 0
            /\ tainted \/ failures > 0 \/ FileSize < Threads]_vars

(* A process ends: either the file is merged, or it is killed or crashes,    *)
(* provided no requests met and every server lives.  No thread waits for a   *)
(* server that waits for it, and none for the lock forever.                  *)
Completes ==
    (mpc = "create") ~> (mpc \in {"done", "dead"} \/ tainted \/ failures > 0)

(* A thread that can take a step, on its own or because a live server        *)
(* answers: what ENABLED ThreadStep(t) comes to.                             *)
Ready(t) ==
    \/ w[t].pc \in {"connect", "format", "format2", "send", "store"}
    \/ w[t].pc = "response" /\ conn[t].st # "hang"
    \/ w[t].pc = "recv" /\ Remaining(t) <= 0
    \/ w[t].pc = "recv" /\ conn[t].st = "open" /\ conn[t].left > 0
    \/ w[t].pc = "lock" /\ lock = Unlocked

WaitsForLock(t) ==
    /\ w[t].pc = "lock"
    /\ lock \in T \ {t} /\ w[lock].pc = "store"

(* Why a process ends, at every single step: while requests do not meet and  *)
(* servers live, a thread that has not ended can go on, or waits for the     *)
(* mutex, whose holder can.  So no thread waits for a rest of its request    *)
(* that it thinks it has sent, none spins on the end of its stream, and the  *)
(* bytes a server has yet to send never run out before the part is complete. *)
NobodyWaitsInVain ==
    (mpc \in {"create", "add"} /\ ~tainted /\ failures = 0) =>
        \A t \in T : w[t].pc \in {"none", "done"} \/ Ready(t) \/ WaitsForLock(t)

-------------------------------------------------------------------------------
(* What comments of the code say, and the code does not do *)

(* download_flag is the "download complete" flag (p2p_download.c:43,         *)
(* main.c:44): when it is set, the file is there.                            *)
FlagMeansComplete == flag = 1 => Whole

-------------------------------------------------------------------------------
(* The inductive invariant behind PartsArePrefixes and DoneMeansWhole.  All  *)
(* but the frame speaks of runs that are not tainted.                        *)

Requesting == {"connect", "format", "format2", "send", "response"}
Receiving == {"recv", "lock", "store", "spin"}

(* Outside the loop that creates threads there are none; inside it thread t  *)
(* exists only once the loop has passed t.                                   *)
FrameInv ==
    /\ mpc \notin {"create", "add"} => \A t \in T : w[t].pc = "none"
    /\ mpc = "add" => op = "continue"
    /\ mpc \in {"create", "add"} => \A t \in T : t >= idx => w[t].pc = "none"
    /\ \A t \in T : w[t].pc \in {"none", "connect", "format", "done"} => conn[t].left = 0

(* A thread asks for what its part file lacks, and holds the file open with  *)
(* everything it received since.                                             *)
AskInv(t) ==
    /\ w[t].pc # "none" => w[t].start + w[t].size = Start(t) + Size(t)
    /\ w[t].pc \in Requesting => w[t].all = 0
    /\ w[t].pc \in Requesting => part[t].mem = 0
    /\ w[t].pc \in Requesting => w[t].size = IF op = "start" THEN Size(t) ELSE Size(t) - Held(part[t])
    /\ w[t].pc \in Receiving => Held(part[t]) + w[t].size = Size(t) + w[t].all
    /\ w[t].pc \in {"none", "done"} => part[t].mem = 0

(* The buffer belongs to the one thread between its formatting and its send. *)
BufInv(t) ==
    /\ w[t].pc \in {"format2", "send"} => ~BufferBusy(t)
    /\ w[t].pc \in {"format2", "send"} => buf.size = w[t].size
    /\ w[t].pc = "send" => buf.start = w[t].start

(* What its server still sends a thread goes right behind what it holds, and *)
(* is no more than it lacks.                                                 *)
StreamInv(t) ==
    /\ w[t].pc \in {"format2", "send"} => conn[t].left = 0
    /\ (w[t].pc \in {"response"} \cup Receiving /\ conn[t].left > 0) =>
         /\ conn[t].pos = w[t].start + w[t].all
         /\ conn[t].left <= Remaining(t)

PrefixInv ==
    /\ FrameInv
    /\ ~tainted => \A t \in T : PartIsPrefix(t) /\ AskInv(t) /\ BufInv(t) /\ StreamInv(t)

(* The rest of the invariant, behind DoneMeansWhole, ContinueKeepsDisk and   *)
(* the refinement: as long as nothing is lost, the parts whose threads have  *)
(* ended are complete, and file_merge has joined what lies before part idx.  *)
Normal == ~tainted /\ failures = 0 /\ FileSize >= Threads

Complete(t) == Held(part[t]) = Size(t)

Merged == IF idx < Threads THEN Start(idx) ELSE FileSize

CompleteInv ==
    /\ \A t \in T : conn[t].st \notin {"eof", "reset"}
    /\ mpc \in {"create", "add"} =>
         \A t \in T : (t < idx /\ w[t].pc \in {"none", "done"}) => Complete(t)
    /\ mpc = "merge" => /\ \A t \in T : Complete(t)
                        /\ target.len = Merged /\ target.clean = Merged
    /\ mpc \in {"cleanup", "done"} => Whole
    /\ mpc \in {"create", "add", "merge", "cleanup"} => ~aborted

NormalInv == Normal => CompleteInv

(* The merge was given up at an empty part, and nothing is written since. *)
AbortInv ==
    /\ mpc \in {"create", "add", "merge"} => ~aborted
    /\ (mpc = "cleanup" /\ aborted) => idx \in T /\ Held(part[idx]) = 0

IInv == PrefixInv /\ NormalInv

(* The invariant behind NobodyWaitsInVain.  Who holds the mutex is about to  *)
(* give it back; and a server that lives owes a thread exactly what its part *)
(* lacks, once it was asked.                                                 *)
LockInv ==
    /\ lock # Unlocked => w[lock].pc = "store"
    /\ \A t \in T : w[t].pc = "store" => lock = t

ServedInv(t) ==
    /\ w[t].pc # "spin"
    /\ w[t].pc \in {"format", "format2", "send"} => conn[t].st = "open"
    /\ w[t].pc \in {"response", "recv", "lock", "store"} =>
         conn[t].st = "open" /\ conn[t].left = Remaining(t)

LiveInv ==
    /\ LockInv
    /\ (~tainted /\ failures = 0) =>
         (\A k \in {0, 1} : peerUp[k]) /\ (\A t \in T : ServedInv(t))

(* The invariant behind RateNeverOverstates and RateExactInStart.  A thread  *)
(* received no more than its part file holds, and has added all of it up but *)
(* what it is about to add.                                                  *)
CountInv(t) ==
    /\ w[t].pc \in {"none"} \cup Requesting => w[t].all = 0
    /\ w[t].pc \notin {"lock", "store"} => w[t].got = 0
    /\ w[t].got <= w[t].all /\ w[t].all <= Held(part[t])

(* What was added of part t when nothing is lost: in a "continue", also what *)
(* the main thread measured.                                                 *)
Counted(t) ==
    IF op = "start" THEN Added(t)
    ELSE IF t < idx THEN Held(part[t]) - w[t].got ELSE 0

CountedInAll == Total([t \in T |-> Counted(t)], Threads)

(* Whoever is about to write rate read it under the lock in a "start"; in a  *)
(* "continue" what it read may be old, and the addition of another is lost.  *)
AddInv ==
    mpc \in {"create", "add"} =>
        /\ rate <= CountedInAll
        /\ mpc = "add" => mld <= CountedInAll /\ op = "continue"
        /\ \A t \in T : w[t].pc = "store" => w[t].ld <= CountedInAll

ExactInv ==
    (mpc = "create" /\ op = "start") =>
        /\ rate = CountedInAll
        /\ \A t \in T : w[t].pc = "store" => lock = t /\ w[t].ld = rate

RateInv ==
    /\ \A t \in T : CountInv(t)
    /\ AddInv /\ ExactInv
    /\ mpc \in {"merge", "cleanup"} => rate <= HeldInAll
===============================================================================
