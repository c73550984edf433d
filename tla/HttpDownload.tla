------------------------------ MODULE HttpDownload -----------------------------
(***************************************************************************)
(* The HTTP download of one file (http17.c): the process of a "start" or a *)
(* "continue", which do the same, its main thread and one thread per part  *)
(* that is not complete.  The main thread hands every thread the same      *)
(* structure and sleeps for a second before it fills it in for the next    *)
(* one, which orders nothing: a thread may take longer to read it.  The    *)
(* threads pass what they read through the globals host_info, http_info and*)
(* req_info.  The mutex around showbyte is a local variable of each thread *)
(* and excludes nobody.  A process can be killed at any step, and a later  *)
(* one goes on from the part files.                                        *)
(*                                                                         *)
(* One process works on the file at a time, with the same number of        *)
(* threads.  Writing or reading the fields of a structure is one step.  Two*)
(* threads that write one file are taken to share its stdio buffer, and of *)
(* what threads append to the target, which the next merge empties, nothing*)
(* is taken to be lost with the process.                                   *)
(***************************************************************************)
EXTENDS Segments, PartFiles

CONSTANTS
    FileSize,         \* size of the file
    Threads,          \* thread_num
    Block,            \* size of the buffer of download: BUFSIZ
    MaxRuns,          \* bound: processes started for this file
    MaxFailures       \* bound: connections that fail

ASSUME ConstantsAssumption ==
    /\ FileSize \in Nat \ {0} /\ Threads \in Nat \ {0} /\ Block \in Nat \ {0}
    /\ MaxRuns \in Nat /\ MaxFailures \in Nat

T == Parts(Threads)

VARIABLES
    mpc,        \* where the main thread is
    size,       \* what getsize returned
    idx,        \* loop variable i of the main thread
    arg,        \* *htdn_info: part file, first and last byte
    hname,      \* host_info.new_name
    hsize,      \* http_info.file_size
    req,        \* req_info, with the part the range was meant for
    showbyte,   \* bytes the progress messages count
    astray,     \* history: bytes threads of this process appended to the target
    w,          \* the threads
    conn,       \* what the server has for each thread
    part,       \* the part files
    target,     \* the merged file: its length, and that of its right prefix
    runs,       \* processes started so far
    failures,   \* connections that failed so far
    tainted     \* history: a thread went on with what was another's, or a range
                \* that ends before it begins

globals == <<arg, hname, hsize, req>>
vars == <<mpc, size, idx, globals, showbyte, astray, w, conn, part, target, runs, failures, tainted>>

Ended == {"none", "done", "dead"}

(* eachpart, a division of C; first and last byte of a part, and its length. *)
Each == IF size < 0 THEN -((-size) \div Threads) ELSE size \div Threads
First(t) == t * Each
Last(t) == IF t < Threads - 1 THEN (t + 1) * Each - 1 ELSE size - 1
Length(t) == Last(t) - First(t) + 1

(* Where the bytes of a part file belong. *)
Home(t) == PartStart(FileSize, Threads, t)

(* Names in host_info that are no part's: the one in the url, which is that  *)
(* of the target, and none.                                                  *)
Target == -1
Nowhere == -2
Names == T \cup {Target, Nowhere}

Ask(t, first, last) == [name |-> t, start |-> first, end |-> last]
NoRange == Ask(0, 0, 0)
NoThread == [pc |-> "none", name |-> 0, size |-> 0, sum |-> 0, got |-> 0, ld |-> 0]
NoConn == [st |-> "none", pos |-> 0, left |-> 0, total |-> 0]

HeldInAll == Total([t \in T |-> Held(part[t])], Threads)

Init ==
    /\ mpc = "none" /\ size = 0 /\ idx = 0
    /\ arg = NoRange /\ hname = Target /\ hsize = 0 /\ req = NoRange
    /\ showbyte = 0 /\ astray = 0
    /\ w = [t \in T |-> NoThread]
    /\ conn = [t \in T |-> NoConn]
    /\ part = [t \in T |-> NoPart]
    /\ target = [len |-> 0, clean |-> 0]
    /\ runs = 0 /\ failures = 0 /\ tainted = FALSE

-------------------------------------------------------------------------------
(* The process *)

Spawn ==
    /\ mpc \in Ended /\ runs < MaxRuns
    /\ runs' = runs + 1
    /\ mpc' = "size"
    /\ UNCHANGED <<size, idx, globals, showbyte, astray, w, conn, part, target, failures, tainted>>

(* The process is gone, and with it everything but the files. *)
Gone(end) ==
    /\ mpc' = end /\ size' = 0 /\ idx' = 0
    /\ arg' = NoRange /\ hname' = Target /\ hsize' = 0 /\ req' = NoRange
    /\ showbyte' = 0 /\ astray' = 0
    /\ w' = [t \in T |-> NoThread]
    /\ conn' = [t \in T |-> NoConn]
    /\ UNCHANGED <<runs, tainted>>

Die == Gone("dead") /\ part' = [t \in T |-> Unflushed(part[t])] /\ UNCHANGED <<target, failures>>

(* print_error: exit, which writes out what other threads have buffered. *)
Exit ==
    /\ Gone("dead") /\ part' = [t \in T |-> Flushed(part[t])]
    /\ UNCHANGED target

PrintError == failures < MaxFailures /\ failures' = failures + 1 /\ Exit

Kill == mpc \notin Ended /\ Die

-------------------------------------------------------------------------------
(* Threads: http_get and download *)

ThreadFrame == UNCHANGED <<mpc, size, idx, arg, target, astray, runs>>

Goto(t, pc) == w' = [w EXCEPT ![t].pc = pc]
Taint(foreign) == tainted' = (tainted \/ foreign)

(* host_info and http_info are cleared, ... *)
ClearInfo(t) ==
    /\ w[t].pc = "clear"
    /\ Goto(t, "parse")
    /\ hname' = Nowhere /\ hsize' = 0
    /\ ThreadFrame /\ UNCHANGED <<req, showbyte, conn, part, failures, tainted>>

(* ... host_info gets what is in the url, the same for all threads, ...      *)
ParseUrl(t) ==
    /\ w[t].pc = "parse"
    /\ Goto(t, "name")
    /\ hname' = Target
    /\ ThreadFrame /\ UNCHANGED <<hsize, req, showbyte, conn, part, failures, tainted>>

(* ... and the name of the part file. *)
TakeName(t) ==
    /\ w[t].pc = "name"
    /\ Goto(t, "connect")
    /\ hname' = arg.name /\ Taint(arg.name # t)
    /\ ThreadFrame /\ UNCHANGED <<hsize, req, showbyte, conn, part, failures>>

(* There is no connection, or no host, as another thread cleared its name.   *)
ConnectFails(t) ==
    w[t].pc = "connect" /\ (PrintError \/ (hname = Nowhere /\ Exit /\ UNCHANGED failures))

(* The connection is there, and the range is copied. *)
TakeRange(t) ==
    /\ w[t].pc = "connect"
    /\ Goto(t, "send")
    /\ conn' = [conn EXCEPT ![t].st = "open"]
    /\ req' = arg /\ Taint(arg.name # t)
    /\ ThreadFrame /\ UNCHANGED <<hname, hsize, showbyte, part, failures>>

(* What the server answers a range with: those bytes; the whole file if the  *)
(* range ends before it begins; a page of its own if it begins behind the    *)
(* file, or there is no name of a file with it.                              *)
Pages == {[st |-> "open", pos |-> -1, left |-> n, total |-> n] : n \in 0 .. Block}

Answers(r) ==
    IF r.end < r.start THEN {[st |-> "open", pos |-> 0, left |-> FileSize, total |-> FileSize]}
    ELSE IF r.start < FileSize
    THEN LET n == Lesser(r.end + 1, FileSize) - r.start
         IN  {[st |-> "open", pos |-> r.start, left |-> n, total |-> n]}
    ELSE Pages

SendRequest(t) ==
    /\ w[t].pc = "send"
    /\ Goto(t, "header")
    /\ \E answer \in Answers(req) \cup (IF hname = Nowhere THEN Pages ELSE {}) :
         conn' = [conn EXCEPT ![t] = answer]
    /\ Taint(hname = Nowhere \/ req.name # t \/ req.end < req.start)
    /\ ThreadFrame /\ UNCHANGED <<hname, hsize, req, showbyte, part, failures>>

(* parse_http_header: the length of what follows. *)
Header(t) ==
    /\ w[t].pc = "header" /\ conn[t].st # "reset"
    /\ Goto(t, "open")
    /\ hsize' = conn[t].total
    /\ ThreadFrame /\ UNCHANGED <<hname, req, showbyte, conn, part, failures, tainted>>

(* The stream ended before the header, and is read like an empty body. *)
HeaderLost(t) ==
    /\ w[t].pc = "header" /\ conn[t].st = "eof" /\ conn[t].left = 0
    /\ Goto(t, "open")
    /\ conn' = [conn EXCEPT ![t].total = 0]
    /\ ThreadFrame /\ UNCHANGED <<hname, hsize, req, showbyte, part, failures, tainted>>

(* read returns -1, for ever, and each time a byte is written behind the last*)
(* one until that faults.                                                    *)
HeaderReset(t) == w[t].pc = "header" /\ conn[t].st = "reset" /\ Die

(* Mutation: the file is opened to be written anew. *)
OpenAnew(t) ==
    /\ w[t].pc = "open"
    /\ w' = [w EXCEPT ![t].pc = "read", ![t].name = hname, ![t].size = hsize]
    /\ part' = [u \in T |-> IF u = hname THEN [NoPart EXCEPT !.is = "file"] ELSE part[u]]
    /\ Taint(hname # t \/ hsize # conn[t].total)
    /\ ThreadFrame /\ UNCHANGED <<hname, hsize, req, showbyte, conn, failures>>

(* download is passed copies of host_info and http_info, and opens the file  *)
(* to append to it, which may be the target; fopen of no name returns NULL.  *)
Open(t) ==
    /\ w[t].pc = "open"
    /\ w' = [w EXCEPT ![t].pc = "read", ![t].name = hname, ![t].size = hsize]
    /\ part' = [u \in T |-> IF u = hname THEN [part[u] EXCEPT !.is = "file"] ELSE part[u]]
    /\ Taint(hname # t \/ hsize # conn[t].total)
    /\ ThreadFrame /\ UNCHANGED <<hname, hsize, req, showbyte, conn, failures>>

(* n bytes go to the file of a part, or to the target. *)
Write(t, n) ==
    \/ /\ w[t].name \in T
       /\ \E f \in 0 .. part[w[t].name].mem + n :
            part' = [part EXCEPT ![w[t].name] =
                       Appended(@, n, conn[t].pos = Home(w[t].name) + Held(@), f)]
       /\ UNCHANGED <<target, astray>>
    \/ /\ w[t].name = Target
       /\ target' = [target EXCEPT !.len = @ + n] /\ astray' = astray + n
       /\ UNCHANGED part

(* read and fwrite. *)
Read(t) ==
    /\ w[t].pc = "read" /\ conn[t].left > 0
    /\ \E n \in 1 .. Lesser(Block, conn[t].left) :
         /\ Write(t, n)
         /\ conn' = [conn EXCEPT ![t].pos = @ + n, ![t].left = @ - n]
         /\ w' = [w EXCEPT ![t].pc = "load", ![t].sum = @ + n, ![t].got = n]
    /\ UNCHANGED <<mpc, size, idx, arg, hname, hsize, req, showbyte, runs, failures, tainted>>

(* read returned 0 or -1. *)
ReadEnd(t) ==
    /\ w[t].pc = "read" /\ w[t].name # Nowhere /\ conn[t].left = 0 /\ conn[t].st # "open"
    /\ Goto(t, "close")
    /\ ThreadFrame /\ UNCHANGED <<hname, hsize, req, showbyte, conn, part, failures, tainted>>

(* fwrite or fclose of NULL. *)
NoFile(t) ==
    /\ w[t].pc = "read" /\ w[t].name = Nowhere
    /\ conn[t].left > 0 \/ conn[t].st # "open"
    /\ Die

(* "showbyte+=len" reads, behind a mutex nobody else can hold, ... *)
LoadShown(t) ==
    /\ w[t].pc = "load"
    /\ w' = [w EXCEPT ![t].pc = "store", ![t].ld = showbyte]
    /\ ThreadFrame /\ UNCHANGED <<hname, hsize, req, showbyte, conn, part, failures, tainted>>

(* Mutation: only the end of the stream ends the loop. *)
StoreShownGoesOn(t) ==
    /\ w[t].pc = "store"
    /\ showbyte' = w[t].ld + w[t].got
    /\ w' = [w EXCEPT ![t].pc = "read", ![t].got = 0, ![t].ld = 0]
    /\ ThreadFrame /\ UNCHANGED <<hname, hsize, req, conn, part, failures, tainted>>

(* ... and writes; the loop is left when as many bytes came as announced.    *)
StoreShown(t) ==
    /\ w[t].pc = "store"
    /\ showbyte' = w[t].ld + w[t].got
    /\ w' = [w EXCEPT ![t].pc = IF w[t].size = w[t].sum THEN "close" ELSE "read",
                      ![t].got = 0, ![t].ld = 0]
    /\ ThreadFrame /\ UNCHANGED <<hname, hsize, req, conn, part, failures, tainted>>

Close(t) ==
    /\ w[t].pc = "close"
    /\ Goto(t, "done")
    /\ part' = [u \in T |-> IF u = w[t].name THEN Flushed(part[u]) ELSE part[u]]
    /\ conn' = [conn EXCEPT ![t] = NoConn]
    /\ ThreadFrame /\ UNCHANGED <<hname, hsize, req, showbyte, failures, tainted>>

ThreadStep(t) ==
    \/ ClearInfo(t) \/ ParseUrl(t) \/ TakeName(t) \/ TakeRange(t) \/ SendRequest(t)
    \/ Header(t) \/ HeaderLost(t) \/ HeaderReset(t) \/ Open(t)
    \/ Read(t) \/ ReadEnd(t) \/ NoFile(t) \/ LoadShown(t) \/ StoreShown(t) \/ Close(t)

-------------------------------------------------------------------------------
(* The main thread: http, process_create, http_file_merge *)

MainFrame == UNCHANGED <<hname, req, astray, conn, runs, failures>>

(* The size of the file, and of what is there of it. *)
GetSize ==
    /\ mpc = "size"
    /\ mpc' = "create" /\ size' = FileSize /\ hsize' = FileSize
    /\ showbyte' = HeldInAll
    /\ MainFrame /\ UNCHANGED <<idx, arg, w, part, target, tainted>>

(* The connection ended before the header: the size is -1, and used. *)
SizeNotLearnt ==
    /\ mpc = "size" /\ failures < MaxFailures /\ failures' = failures + 1
    /\ mpc' = "create" /\ size' = -1
    /\ showbyte' = HeldInAll
    /\ UNCHANGED <<idx, globals, astray, w, conn, part, target, runs, tainted>>

SizeFails == mpc = "size" /\ PrintError

(* stat, which does not see what is buffered. *)
Downloaded(t) == part[t].disk
Complete(t) == Downloaded(t) # 0 /\ Downloaded(t) = Length(t)

Hand(t, first, last) == arg' = Ask(t, first, last) /\ w' = [w EXCEPT ![t].pc = "clear"]

(* Mutations: from the first byte of the part; counting what is there again. *)
CreateThreadFromFirst ==
    /\ mpc = "create" /\ idx < Threads /\ ~Complete(idx)
    /\ Hand(idx, First(idx), Last(idx))
    /\ idx' = idx + 1
    /\ MainFrame /\ UNCHANGED <<mpc, size, hsize, showbyte, part, target, tainted>>

CreateThreadCounts ==
    /\ mpc = "create" /\ idx < Threads /\ ~Complete(idx)
    /\ Hand(idx, First(idx) + Downloaded(idx), Last(idx))
    /\ idx' = idx + 1 /\ showbyte' = showbyte + Downloaded(idx)
    /\ MainFrame /\ UNCHANGED <<mpc, size, hsize, part, target, tainted>>

(* One round of the loop: a thread for the bytes the part lacks.  (The test  *)
(* for too long a part, "0<downLoaded<eachpart", is always true.)            *)
CreateThread ==
    /\ mpc = "create" /\ idx < Threads /\ ~Complete(idx)
    /\ Hand(idx, First(idx) + Downloaded(idx), Last(idx))
    /\ idx' = idx + 1
    /\ MainFrame /\ UNCHANGED <<mpc, size, hsize, showbyte, part, target, tainted>>

(* Mutation: a part that was begun is taken for complete. *)
SkipBegun ==
    /\ mpc = "create" /\ idx < Threads /\ Downloaded(idx) # 0
    /\ idx' = idx + 1
    /\ MainFrame /\ UNCHANGED <<mpc, size, arg, hsize, showbyte, w, part, target, tainted>>

(* One round for a part that is complete. *)
SkipComplete ==
    /\ mpc = "create" /\ idx < Threads /\ Complete(idx)
    /\ idx' = idx + 1
    /\ MainFrame /\ UNCHANGED <<mpc, size, arg, hsize, showbyte, w, part, target, tainted>>

(* All threads are joined, and http_file_merge opens the target. *)
Join ==
    /\ mpc = "create" /\ idx = Threads
    /\ \A t \in T : w[t].pc \in {"none", "done"}
    /\ mpc' = "merge" /\ idx' = 0
    /\ target' = [len |-> 0, clean |-> 0]
    /\ w' = [t \in T |-> NoThread]
    /\ MainFrame /\ UNCHANGED <<size, arg, hsize, showbyte, part, tainted>>

(* The part goes behind the others, is flushed, and removed. *)
MergePart ==
    /\ mpc = "merge" /\ idx < Threads /\ part[idx].disk > 0
    /\ target' = [len |-> target.len + part[idx].disk,
                  clean |-> IF target.clean = target.len /\ target.len = Home(idx)
                            THEN target.clean + part[idx].clean ELSE target.clean]
    /\ part' = [part EXCEPT ![idx] = NoPart]
    /\ idx' = idx + 1
    /\ MainFrame /\ UNCHANGED <<mpc, size, arg, hsize, showbyte, w, tainted>>

(* An empty part ends the merge. *)
MergeEmpty ==
    /\ mpc = "merge" /\ idx < Threads /\ part[idx].is = "file" /\ part[idx].disk = 0
    /\ mpc' = "check"
    /\ MainFrame /\ UNCHANGED <<size, idx, arg, hsize, showbyte, w, part, target, tainted>>

(* fseek on the NULL fopen returned. *)
MergeMissing == mpc = "merge" /\ idx < Threads /\ part[idx].is = "absent" /\ Die

MergeEnd ==
    /\ mpc = "merge" /\ idx = Threads
    /\ mpc' = "check"
    /\ MainFrame /\ UNCHANGED <<size, idx, arg, hsize, showbyte, w, part, target, tainted>>

(* md5_cpy: there is an md5 file, and whatever it says the process ends ...  *)
Finish == mpc = "check" /\ Gone("done") /\ UNCHANGED <<part, target, failures>>

(* ... or there is none, and fread is given NULL.                            *)
CheckMissing == mpc = "check" /\ Die

MainStep ==
    \/ GetSize \/ CreateThread \/ SkipComplete \/ Join
    \/ MergePart \/ MergeEmpty \/ MergeMissing \/ MergeEnd \/ Finish \/ CheckMissing

-------------------------------------------------------------------------------
(* The server *)

ServerFrame == UNCHANGED <<mpc, size, idx, globals, showbyte, astray, w, part, target, runs, tainted>>

(* A connection ends too early, or is reset. *)
ServerFails(t) ==
    /\ w[t].pc \in {"header", "open", "read", "load", "store"}
    /\ conn[t].st = "open" /\ failures < MaxFailures
    /\ failures' = failures + 1
    /\ \/ \E n \in 0 .. conn[t].left : conn' = [conn EXCEPT ![t].st = "eof", ![t].left = n]
       \/ conn' = [conn EXCEPT ![t].st = "reset", ![t].left = 0]
    /\ ServerFrame

(* A connection that is kept alive is closed some time after the last byte.  *)
ServerCloses(t) ==
    /\ w[t].pc = "read" /\ conn[t].st = "open" /\ conn[t].left = 0
    /\ conn' = [conn EXCEPT ![t].st = "eof"]
    /\ ServerFrame /\ UNCHANGED failures

Next ==
    \/ Spawn \/ Kill \/ MainStep \/ SizeNotLearnt \/ SizeFails
    \/ \E t \in T : ThreadStep(t) \/ ConnectFails(t) \/ ServerFails(t) \/ ServerCloses(t)

Spec == Init /\ [][Next]_vars

-------------------------------------------------------------------------------
(* Properties *)

RangeType == [name : T, start : Int, end : Int]

Thread == [pc : {"none", "clear", "parse", "name", "connect", "send", "header", "open", "read",
                 "load", "store", "close", "done"},
           name : Names, size : Nat, sum : Nat, got : Nat, ld : Nat]
Conn == [st : {"none", "open", "eof", "reset"}, pos : Int, left : Nat, total : Nat]

ProcessTypeOK ==
    /\ mpc \in {"none", "size", "create", "merge", "check", "done", "dead"}
    /\ size \in {-1, 0, FileSize} /\ idx \in 0 .. Threads
    /\ runs \in 0 .. MaxRuns /\ failures \in 0 .. MaxFailures
SharedTypeOK ==
    /\ arg \in RangeType /\ req \in RangeType
    /\ hname \in Names /\ hsize \in Nat /\ showbyte \in Nat /\ astray \in Nat
DataTypeOK == w \in [T -> Thread] /\ conn \in [T -> Conn]
FilesTypeOK == part \in [T -> PartFile] /\ target \in [len : Nat, clean : Nat]
FlagTypeOK == tainted \in BOOLEAN

(* The type of every variable. *)
TypeOK == ProcessTypeOK /\ SharedTypeOK /\ DataTypeOK /\ FilesTypeOK /\ FlagTypeOK

(* As long as no thread used what was another's, every part file is a prefix *)
(* of its part: over kills, connections that fail in the header or after it, *)
(* sizes of parts measured while other threads write, and resumed runs       *)
(* (http17.c:933-957, 467-479).                                              *)
PartsArePrefixes ==
    ~tainted => \A t \in T : /\ part[t].clean = Held(part[t])
                             /\ Held(part[t]) <= PartSize(FileSize, Threads, t)

(* The progress shown is never more than there is, although additions to     *)
(* showbyte get lost (http17.c:451, 484) and parts are counted only once, at *)
(* the start (http17.c:915-920).  What is there is in the parts, of whatever *)
(* thread; but a thread that copies host_info while another has parsed the   *)
(* url and not yet copied a name (http17.c:658, 661, 745) appends to the     *)
(* target, and what it appends is counted all the same.                      *)
ShownNeverOverstates == mpc = "create" => showbyte <= HeldInAll + astray

(* A process that reaches its end without failures has merged the whole file,*)
(* also when an earlier one was killed in the middle of a merge that removes *)
(* the parts (http17.c:1136), if no thread used what was another's.          *)
Whole == target.len = FileSize /\ target.clean = FileSize

DoneMeansWhole == (mpc = "done" /\ ~tainted /\ failures = 0) => Whole

(* A thread that used nothing of another's never waits for bytes that will   *)
(* not come, although the connection is kept alive and the length it counts  *)
(* up to went through a global and was copied (http17.c:496, 705, 745).      *)
WaitsOnlyForBytes ==
    ~tainted => \A t \in T :
        (w[t].pc = "read" /\ conn[t].st = "open") => conn[t].left > 0

(* What a download of the file promises: the process always goes on with what*)
(* is there of the parts.  A part that was merged and removed still counts as*)
(* held while the process goes on.                                           *)
Phase == CASE mpc \in {"none", "dead"} -> "idle"
           [] mpc \in {"size", "create"} -> "fetching"
           [] mpc \in {"merge", "check"} -> "merging"
           [] mpc = "done" -> "done"

Have == [t \in T |-> IF mpc \in {"merge", "check"} /\ t < idx
                     THEN PartSize(FileSize, Threads, t) ELSE part[t].clean]

Transfer == INSTANCE ResumableTransfer WITH
    Pieces <- T,
    Bytes <- [t \in T |-> PartSize(FileSize, Threads, t)],
    phase <- Phase,
    resume <- TRUE,
    have <- Have,
    delivered <- Whole

(* As long as no thread uses what is another's and no connection fails, every*)
(* step is one of ResumableTransfer or changes nothing it sees               *)
(* (http17.c:907-1012, 1109-1147): only a kill gives up bytes of a part,     *)
(* merging begins with whole parts and an empty file, removes no part before *)
(* it is in the file, and the process ends only with the file delivered.     *)
TransferStep == (~tainted' /\ failures' = 0) => (Transfer!TNext \/ UNCHANGED Transfer!tvars)
ImplementsTransfer == Transfer!TInit /\ [][TransferStep]_vars

-------------------------------------------------------------------------------
(* What a comment of the code says, and the code does not do *)

(* "The pieces of the file are downloaded to files of different names"       *)
(* (http17.c:914).                                                           *)
Writing(t) == w[t].pc \in {"read", "load", "store", "close"}

PiecesHaveFilesOfTheirOwn ==
    \A t, u \in T : (t # u /\ Writing(t) /\ Writing(u)) => w[t].name # w[u].name

-------------------------------------------------------------------------------
(* The inductive invariant behind the properties above *)

(* Which values go with which step of the process and of a thread. *)
StageInv ==
    /\ (mpc \in {"none", "size", "done", "dead"} => size = 0 /\ idx = 0)
    /\ (mpc \in {"create", "merge", "check"} => size \in {-1, FileSize})
    /\ (size = -1 => failures > 0)

Starting == {"clear", "parse", "name", "connect"}

ThreadStage(t) ==
    /\ (mpc # "create" \/ t >= idx => w[t].pc = "none")
    /\ (w[t].pc = "none" => w[t] = NoThread)
    /\ (w[t].pc \in Starting \cup {"none", "done"} => conn[t] = NoConn)
    /\ (w[t].pc \notin {"load", "store"} => w[t].got = 0)
    /\ (w[t].pc # "store" => w[t].ld = 0)
    /\ (w[t].pc \in Starting \cup {"send", "header", "open"} => w[t].sum = 0)

FrameInv == StageInv /\ \A t \in T : ThreadStage(t)

(* A range that is still its thread's own asks for what its part lacks. *)
Lacking(t) == Ask(t, First(t) + part[t].disk, Last(t))

RangeOK(t) ==
    /\ (w[t].pc \in Starting /\ arg.name = t => arg = Lacking(t))
    /\ (w[t].pc = "send" /\ req.name = t => req = Lacking(t))

PartWhole(t) == part[t].disk = PartSize(FileSize, Threads, t) /\ part[t].disk > 0

(* A part file is a prefix, and nothing is buffered but by its own thread. *)
PartOK(t) ==
    /\ part[t].clean = Held(part[t]) /\ Held(part[t]) <= PartSize(FileSize, Threads, t)
    /\ (w[t].pc \notin {"read", "load", "store", "close"} => part[t].mem = 0)

(* What a connection still brings goes on where the part file ends, and      *)
(* completes it unless a connection failed.                                  *)
StreamOK(t) ==
    /\ conn[t].pos = Home(t) + Held(part[t])
    /\ Held(part[t]) + conn[t].left <= PartSize(FileSize, Threads, t)
    /\ IF conn[t].st = "open"
       THEN /\ Held(part[t]) + conn[t].left = PartSize(FileSize, Threads, t)
            /\ w[t].sum + conn[t].left = conn[t].total
       ELSE failures > 0

ConnOK(t) ==
    /\ (w[t].pc \in {"header", "open", "read", "load", "store"} => StreamOK(t))
    /\ (w[t].pc \in {"header", "open", "read"} /\ conn[t].st = "open" => conn[t].left > 0)
    /\ (w[t].pc \in {"read", "load", "store", "close"} => w[t].name = t)
    /\ (w[t].pc \in {"read", "load", "store"} => w[t].size = conn[t].total)
    /\ (w[t].pc \in {"header", "open", "read", "load", "store", "close"}
          => PartSize(FileSize, Threads, t) > 0)
    /\ (w[t].pc = "close" /\ failures = 0 => Held(part[t]) = PartSize(FileSize, Threads, t))

OwnInv == ~tainted => \A t \in T : RangeOK(t) /\ PartOK(t) /\ ConnOK(t)

(* What the loop has passed without a thread, or with one that is done, is   *)
(* complete; the target holds what was merged so far.                        *)
Passed(t) == mpc = "create" /\ t < idx /\ w[t].pc \in {"none", "done"}
Merged(n) == IF n = Threads THEN FileSize ELSE Home(n)

MergeInv ==
    ~tainted /\ failures = 0 =>
        /\ \A t \in T : Passed(t) \/ (mpc = "merge" /\ idx <= t) => PartWhole(t)
        /\ (mpc = "merge" => target.clean = target.len /\ target.len = Merged(idx))
        /\ (mpc \in {"check", "done"} => Whole)

IInv == TypeOK /\ FrameInv /\ OwnInv /\ MergeInv

(* What the counter holds, or is about to, and what threads have yet to add  *)
(* are no more than what there is.                                           *)
Pending == Total([t \in T |-> w[t].got], Threads)

ShownInv ==
    mpc = "create" =>
        /\ showbyte + Pending <= HeldInAll + astray
        /\ \A t \in T : w[t].ld + Pending <= HeldInAll + astray

(* While the parts are merged, those behind the loop variable are removed,   *)
(* and an undisturbed merge ends behind the last.                            *)
RemovedInv ==
    /\ mpc \in {"merge", "check"} => \A t \in T : t < idx => part[t] = NoPart
    /\ (mpc = "check" /\ ~tainted /\ failures = 0) => idx = Threads
===============================================================================
