------------------------------ MODULE FtpDownload -----------------------------
(***************************************************************************)
(* The FTP download of one file (ftp_download.c, ftp.c): the process of a  *)
(* "start" or a "continue", which do the same, its main thread and one     *)
(* thread per part.  Every thread has connections of its own, but sendline,*)
(* recvline, recvbytes and down_size are global: sendline holds the command*)
(* on its way to a server, recvline its answer, recvbytes the result of the*)
(* last recv of any thread.  down_size is the only one under ftp_mutex.    *)
(* Every look at one of them is a step.  A process can be killed at any    *)
(* step and a later one goes on from the part files.                       *)
(*                                                                         *)
(* One process works on the file at a time, and always with the same       *)
(* number of threads.  The sleep between two pthread_creates orders nothing*)
(* here.  USER, PASS, TYPE, PASV and SIZE are one command, called login.   *)
(***************************************************************************)
EXTENDS Segments, PartFiles

CONSTANTS
    FileSize,         \* size of the file, M->size
    Threads,          \* thread_num
    Block,            \* size of the buffer of ftp_retr
    AnswerLens,       \* bound: lengths of the answers to commands
    MaxRuns,          \* bound: processes started for this file
    MaxFailures,      \* bound: connections that fail
    MaxMeetings       \* bound: how often threads meet in a buffer

ASSUME ConstantsAssumption ==
    /\ FileSize \in Nat /\ Threads \in Nat \ {0} /\ Block \in Nat \ {0}
    /\ AnswerLens \subseteq Nat \ {0}
    /\ MaxRuns \in Nat /\ MaxFailures \in Nat /\ MaxMeetings \in Nat

T == Parts(Threads)

VARIABLES
    mpc,        \* where the main thread is
    fsize,      \* M->size: the size of the file, or 0 if it was not learnt
    idx,        \* its loop variable i
    down_size,  \* bytes of the file the progress messages count
    lock,       \* ftp_mutex: the part whose thread holds it, or Unlocked
    sendline,   \* the command in the buffer
    recvline,   \* the answer in the buffer: none, 227, 150, or another
    recvbytes,  \* result of the last recv
    w,          \* the threads
    conn,       \* what the servers have for each thread
    part,       \* the part files
    tempDir,    \* whether <file>_temp exists
    md5,        \* the md5 file: absent, empty, cut within the digest or
                \* behind it, right, or spoiled
    target,     \* the merged file: its length, and that of its right prefix
    runs,       \* processes started so far
    failures,   \* connections that failed so far
    lineMet,    \* history: how often threads met in sendline and recvline, ...
    bytesMet    \* ... and in recvbytes

lines == <<sendline, recvline, lineMet>>
bytes == <<recvbytes, bytesMet>>
vars == <<mpc, fsize, idx, down_size, lock, lines, bytes, w, conn, part, tempDir,
          md5, target, runs, failures>>

tainted == lineMet > 0 \/ bytesMet > 0

(* login_info->offset, the bytes of the part and login_info->max. *)
Offset(t) == PartStart(fsize, Threads, t)
Size(t) == PartSize(fsize, Threads, t)
Max_(t) == Offset(t) + Size(t)

(* Where the bytes of a part file belong. *)
Home(t) == PartStart(FileSize, Threads, t)

Ended == {"none", "done", "dead"}
Unlocked == -1

(* A line: a command with its offset, and whether a RETR follows in the same *)
(* line.  "none" is no line at all, or one without an end.                   *)
Cmd(c, n) == [cmd |-> c, n |-> n, more |-> FALSE]
NoLine == Cmd("none", 0)

NoThread == [pc |-> "none", i |-> 0, n |-> 0, put |-> FALSE, got |-> 0, ld |-> 0]
NoConn == [st |-> "none", rest |-> 0, pos |-> 0, left |-> 0]

HeldInAll == Total([t \in T |-> Held(part[t])], Threads)

Init ==
    /\ mpc = "none" /\ fsize = 0 /\ idx = 0 /\ down_size = 0 /\ lock = Unlocked
    /\ sendline = NoLine /\ recvline = "none" /\ recvbytes = 0
    /\ w = [t \in T |-> NoThread]
    /\ conn = [t \in T |-> NoConn]
    /\ part = [t \in T |-> NoPart]
    /\ tempDir = FALSE /\ md5 = "none"
    /\ target = [len |-> 0, clean |-> 0]
    /\ runs = 0 /\ failures = 0 /\ lineMet = 0 /\ bytesMet = 0

-------------------------------------------------------------------------------
(* The process *)

(* fork, and progress_bar: what the part files hold is counted. *)
Spawn ==
    /\ mpc \in Ended /\ runs < MaxRuns
    /\ runs' = runs + 1
    /\ mpc' = "md5" /\ fsize' = 0 /\ idx' = 0
    /\ down_size' = IF tempDir THEN HeldInAll ELSE 0
    /\ UNCHANGED <<lock, lines, bytes, w, conn, part, tempDir, md5, target, failures>>

(* The process is gone, and with it everything but the files. *)
Gone ==
    /\ mpc' = "dead" /\ fsize' = 0 /\ idx' = 0 /\ down_size' = 0 /\ lock' = Unlocked
    /\ sendline' = NoLine /\ recvline' = "none" /\ recvbytes' = 0
    /\ w' = [t \in T |-> NoThread]
    /\ conn' = [t \in T |-> NoConn]
    /\ UNCHANGED <<tempDir, target, runs, lineMet, bytesMet>>

(* Killed, or crashed. *)
Die == Gone /\ part' = [t \in T |-> Unflushed(part[t])] /\ UNCHANGED <<md5, failures>>

Kill == mpc \notin Ended /\ Die

(* exit(1), called by any thread: stdio writes out every file left open. *)
Exit == Gone /\ part' = [t \in T |-> Flushed(part[t])]

-------------------------------------------------------------------------------
(* Threads: mul_download and ftp_retr *)

ThreadFrame == UNCHANGED <<mpc, fsize, idx, tempDir, md5, target, runs>>

Goto(t, pc) == w' = [w EXCEPT ![t].pc = pc]

(* Another thread has a command in sendline, or waits for its answer in      *)
(* recvline; is writing a command; has a result in recvbytes.                *)
Writing == {"putLogin", "putRest", "putRetr", "putQuit"}
OnLine == Writing \cup {"sendLogin", "sendRest", "sendRetr", "sendQuit", "open", "look"}
Counting == {"use", "count", "write", "tell", "cut"}

Another(t, pcs) == \E u \in T \ {t} : w[u].pc \in pcs

(* One more meeting, if it is one. *)
Meets(met, isOne) ==
    IF isOne THEN lineMet + bytesMet < MaxMeetings /\ met' = met + 1 ELSE met' = met

(* memset of sendline and recvline, before a command. *)
Clear(t) ==
    /\ sendline' = NoLine /\ recvline' = "none"
    /\ Meets(lineMet, Another(t, OnLine))

ClearFor(t, pc) ==
    /\ Goto(t, pc) /\ Clear(t)
    /\ ThreadFrame /\ UNCHANGED <<down_size, lock, bytes, conn, part, failures>>

(* What two threads that write commands at the same time may make of them:   *)
(* half a line, one no server knows, one of the two, or that and a RETR.     *)
Mixed(a, b) ==
    LET retr == a.cmd = "retr" \/ a.more \/ b.cmd = "retr"
    IN  {NoLine, Cmd("junk", 0)}
          \cup {[c EXCEPT !.more = m] : c \in {a, b}, m \in {FALSE, retr}}

(* sprintf and strcat of a command. *)
Put(t, command, pc) ==
    /\ Goto(t, pc)
    /\ sendline' \in IF Another(t, OnLine) THEN Mixed(sendline, command) ELSE {command}
    /\ UNCHANGED <<recvline, lineMet, bytes, mpc, fsize, idx, down_size, lock, conn, part,
                   tempDir, md5, target, runs, failures>>

(* What a server does with a command.  RETR sends the rest of the file, also *)
(* what lies behind the part.                                                *)
Retr(c) ==
    IF c.st = "open" /\ c.rest <= FileSize
    THEN [c EXCEPT !.st = "sending", !.pos = c.rest, !.left = FileSize - c.rest]
    ELSE c
Serve(c, line) ==
    LET served == CASE line.cmd = "login" -> [c EXCEPT !.st = "open"]
                    [] line.cmd = "rest"  -> [c EXCEPT !.rest = line.n]
                    [] line.cmd = "retr"  -> Retr(c)
                    [] line.cmd = "quit"  -> NoConn
                    [] OTHER              -> c
    IN  IF line.more THEN Retr(served) ELSE served

Answer(c, line) ==
    CASE line.cmd = "login" -> "227"
      [] line.cmd = "retr" /\ Retr(c) # c -> "150"
      [] OTHER -> "other"

(* A recv wrote its result into recvbytes. *)
Received(t, r) == recvbytes' = r /\ Meets(bytesMet, Another(t, Counting))

(* What goes out is sendline as it is, or half of what another makes of it. *)
Sent(t) == {sendline} \cup (IF Another(t, Writing) THEN {NoLine, Cmd("junk", 0)} ELSE {})

(* A command is sent, and its answer received.  What is no line has none,    *)
(* and leaves the thread waiting for it for ever, unless the server gives up.*)
Exchange(t, pc) ==
    /\ \E line \in Sent(t) :
         \/ line.cmd = "none" /\ Goto(t, "hang") /\ UNCHANGED <<conn, recvline, bytes>>
         \/ /\ Goto(t, pc)
            /\ conn' = [conn EXCEPT ![t] = IF pc = "done" THEN NoConn ELSE Serve(@, line)]
            /\ recvline' = Answer(conn[t], line)
            /\ \E r \in AnswerLens : Received(t, r)
    /\ ThreadFrame /\ UNCHANGED <<down_size, lock, sendline, lineMet, part, failures>>

(* ftp_connect, up to the first command. *)
Login(t) ==
    /\ w[t].pc = "connect"
    /\ Goto(t, "putLogin")
    /\ Clear(t) /\ \E r \in AnswerLens : Received(t, r)
    /\ ThreadFrame /\ UNCHANGED <<down_size, lock, conn, part, failures>>

(* ftp_connect failed: the thread ends without a part file. *)
LoginFails(t) ==
    /\ w[t].pc = "connect" /\ failures < MaxFailures
    /\ Goto(t, "done") /\ failures' = failures + 1
    /\ ThreadFrame /\ UNCHANGED <<down_size, lock, lines, bytes, conn, part>>

PutLogin(t) == w[t].pc = "putLogin" /\ Put(t, Cmd("login", 0), "sendLogin")
SendLogin(t) == w[t].pc = "sendLogin" /\ Exchange(t, "open")

(* PASV is not answered with an address: the thread ends the process. *)
PasvFails(t) ==
    /\ w[t].pc = "open" /\ failures < MaxFailures
    /\ failures' = failures + 1
    /\ Exit /\ UNCHANGED md5

(* The data connection is refused, which is printed: the thread goes on.     *)
DataConnectFails(t) ==
    /\ w[t].pc = "open" /\ conn[t].st = "open" /\ failures < MaxFailures
    /\ failures' = failures + 1
    /\ conn' = [conn EXCEPT ![t].st = "none"]
    /\ ThreadFrame /\ UNCHANGED <<down_size, lock, lines, bytes, w, part>>

(* The answer that is looked at is another thread's: to PASV, or to the      *)
(* connect, or to one that is only printed.                                  *)
Misled(t) ==
    /\ w[t].pc = "open" /\ recvline # "227"
    /\ \/ Exit /\ UNCHANGED <<md5, failures>>
       \/ /\ Goto(t, "done")
          /\ conn' = [conn EXCEPT ![t] = NoConn]
          /\ ThreadFrame /\ UNCHANGED <<down_size, lock, lines, bytes, part, failures>>

(* The data connection is closed, and QUIT is next. *)
Leave(t) ==
    /\ w' = [w EXCEPT ![t] = [NoThread EXCEPT !.pc = "quit"]]
    /\ conn' = [conn EXCEPT ![t] = NoConn]
    /\ ThreadFrame /\ UNCHANGED <<down_size, lock, lines, bytes, failures>>

(* fopen appends.  A part that is complete is left at that. *)
OpenComplete(t) ==
    /\ w[t].pc = "open" /\ Held(part[t]) = Size(t)
    /\ part' = [part EXCEPT ![t].is = "file"]
    /\ Leave(t)

(* Otherwise the first byte that is missing is to be asked for. *)
Open(t) ==
    /\ w[t].pc = "open" /\ Held(part[t]) # Size(t)
    /\ part' = [part EXCEPT ![t].is = "file"]
    /\ w' = [w EXCEPT ![t].pc = "rest", ![t].i = Held(part[t]) + Offset(t)]
    /\ ThreadFrame /\ UNCHANGED <<down_size, lock, lines, bytes, conn, failures>>

(* Mutation: the whole part is asked for. *)
PutRestOfWhole(t) == w[t].pc = "putRest" /\ Put(t, Cmd("rest", Offset(t)), "sendRest")

(* REST, whose answer is not looked at. *)
ClearRest(t) == w[t].pc = "rest" /\ ClearFor(t, "putRest")
PutRest(t) == w[t].pc = "putRest" /\ Put(t, Cmd("rest", w[t].i), "sendRest")
SendRest(t) == w[t].pc = "sendRest" /\ Exchange(t, "retr")

ClearRetr(t) == w[t].pc = "retr" /\ ClearFor(t, "putRetr")
PutRetr(t) == w[t].pc = "putRetr" /\ Put(t, Cmd("retr", 0), "sendRetr")
SendRetr(t) == w[t].pc = "sendRetr" /\ Exchange(t, "look")

Look(t) ==
    /\ w[t].pc = "look" /\ recvline = "150" /\ recvbytes >= 0
    /\ Goto(t, "recv")
    /\ ThreadFrame /\ UNCHANGED <<down_size, lock, lines, bytes, conn, part, failures>>

(* The answer is not "150": the file is closed and the recv called all the   *)
(* same, of a connection that then ends.  If it ends with an error the file  *)
(* is closed a second time, which the process may not survive.               *)
LookWrong(t) ==
    /\ w[t].pc = "look" /\ (recvline # "150" \/ recvbytes < 0)
    /\ \/ Die
       \/ part' = [part EXCEPT ![t] = Flushed(@)] /\ Leave(t)

(* recv from the data connection: into the thread's own buffer, with the     *)
(* result in recvbytes.                                                      *)
Recv(t) ==
    /\ w[t].pc = "recv"
    /\ \E r \in IF conn[t].st = "reset" THEN {-1}
                ELSE IF conn[t].left = 0 THEN {0} ELSE 1 .. Lesser(Block, conn[t].left) :
         LET n == IF r > 0 THEN r ELSE 0 IN
         /\ Received(t, r)
         /\ conn' = [conn EXCEPT ![t].pos = @ + n, ![t].left = @ - n]
         /\ w' = [w EXCEPT ![t].pc = "use", ![t].n = n]
    /\ ThreadFrame /\ UNCHANGED <<down_size, lock, lines, part, failures>>

(* The comparisons of recvbytes with 0, both of them.  The recv failed: the  *)
(* file is closed.                                                           *)
UseError(t) ==
    /\ w[t].pc = "use" /\ recvbytes < 0
    /\ part' = [part EXCEPT ![t] = Flushed(@)]
    /\ Leave(t)

(* The end of the stream: the file is left open. *)
UseEnd(t) == w[t].pc = "use" /\ recvbytes = 0 /\ Leave(t) /\ UNCHANGED part

Use(t) ==
    /\ w[t].pc = "use" /\ recvbytes > 0
    /\ Goto(t, "count")
    /\ ThreadFrame /\ UNCHANGED <<down_size, lock, lines, bytes, conn, part, failures>>

(* i counts the bytes, as recvbytes now says. *)
Count(t) ==
    LET i == w[t].i + recvbytes IN
    /\ w[t].pc = "count"
    /\ w' = [w EXCEPT ![t].pc = IF i < Max_(t) THEN "write" ELSE "cut", ![t].i = i]
    /\ ThreadFrame /\ UNCHANGED <<down_size, lock, lines, bytes, conn, part, failures>>

(* fwrite of k bytes of the buffer.  They are the file's if they were        *)
(* received, where the part ends.  A negative k is taken for a huge one: it  *)
(* fills the buffer of a FILE that has one, and fails.                       *)
Fwrite(t, k) ==
    \E m \in IF k >= 0 THEN {k} ELSE IF w[t].put THEN 0 .. Block ELSE {0} :
      \E f \in 0 .. part[t].mem + m :
         part' = [part EXCEPT ![t] =
            Appended(@, m, k >= 0 /\ k <= w[t].n /\ conn[t].pos - w[t].n = Home(t) + Held(@), f)]

(* As many are written as recvbytes says then, ... *)
Write(t) ==
    /\ w[t].pc = "write"
    /\ Fwrite(t, recvbytes)
    /\ w' = IF recvbytes > 0
            THEN [w EXCEPT ![t].pc = "tell", ![t].got = recvbytes, ![t].put = TRUE]
            ELSE [w EXCEPT ![t].pc = "lock"]
    /\ ThreadFrame /\ UNCHANGED <<down_size, lock, lines, bytes, conn, failures>>

(* ... and get_size is what it says after that. *)
Tell(t) ==
    /\ w[t].pc = "tell"
    /\ w' = [w EXCEPT ![t].pc = "lock", ![t].got = recvbytes]
    /\ ThreadFrame /\ UNCHANGED <<down_size, lock, lines, bytes, conn, part, failures>>

(* Mutation: what lies behind the part is written to it too. *)
ResetPast(t) == recvbytes

(* What the part lacks of the last block, with i taken back by recvbytes.    *)
Reset(t) == Max_(t) - (w[t].i - recvbytes)

(* The last block is cut.  i is not used any more: Max_ says that it was.    *)
Cut(t) ==
    /\ w[t].pc = "cut"
    /\ Fwrite(t, Reset(t))
    /\ w' = [w EXCEPT ![t].pc = "lock", ![t].i = Max_(t),
                      ![t].got = IF Reset(t) > 0 THEN Reset(t) ELSE 0]
    /\ ThreadFrame /\ UNCHANGED <<down_size, lock, lines, bytes, conn, failures>>

(* fwrite of a negative number of bytes may also fault. *)
WriteFault(t) ==
    \/ w[t].pc = "write" /\ recvbytes < 0 /\ Die
    \/ w[t].pc = "cut" /\ Reset(t) < 0 /\ Die

(* Mutation: the lock is not waited for. *)
LockNot(t) ==
    /\ w[t].pc = "lock"
    /\ lock' = t
    /\ w' = [w EXCEPT ![t].pc = "add", ![t].ld = down_size]
    /\ ThreadFrame /\ UNCHANGED <<down_size, lines, bytes, conn, part, failures>>

Lock(t) ==
    /\ w[t].pc = "lock" /\ lock = Unlocked
    /\ lock' = t
    /\ w' = [w EXCEPT ![t].pc = "add", ![t].ld = down_size]
    /\ ThreadFrame /\ UNCHANGED <<down_size, lines, bytes, conn, part, failures>>

(* Mutation: the lock is not given back. *)
AddKeepsLock(t) ==
    /\ w[t].pc = "add"
    /\ down_size' = w[t].ld + w[t].got
    /\ w' = [w EXCEPT ![t].pc = IF w[t].i = Max_(t) THEN "close" ELSE "recv",
                      ![t].n = 0, ![t].got = 0, ![t].ld = 0]
    /\ ThreadFrame /\ UNCHANGED <<lock, lines, bytes, conn, part, failures>>

(* down_size is written, the progress message sent, the lock given back. *)
Add(t) ==
    /\ w[t].pc = "add"
    /\ down_size' = w[t].ld + w[t].got
    /\ lock' = Unlocked
    /\ w' = [w EXCEPT ![t].pc = IF w[t].i = Max_(t) THEN "close" ELSE "recv",
                      ![t].n = 0, ![t].got = 0, ![t].ld = 0]
    /\ ThreadFrame /\ UNCHANGED <<lines, bytes, conn, part, failures>>

(* The part is complete. *)
Close(t) ==
    /\ w[t].pc = "close"
    /\ part' = [part EXCEPT ![t] = Flushed(@)]
    /\ Leave(t)

ClearQuit(t) == w[t].pc = "quit" /\ ClearFor(t, "putQuit")
PutQuit(t) == w[t].pc = "putQuit" /\ Put(t, Cmd("quit", 0), "sendQuit")
SendQuit(t) == w[t].pc = "sendQuit" /\ Exchange(t, "done")

ThreadStep(t) ==
    \/ Login(t) \/ PutLogin(t) \/ SendLogin(t) \/ Misled(t) \/ OpenComplete(t) \/ Open(t)
    \/ ClearRest(t) \/ PutRest(t) \/ SendRest(t) \/ ClearRetr(t) \/ PutRetr(t) \/ SendRetr(t)
    \/ Look(t) \/ LookWrong(t) \/ Recv(t) \/ UseError(t) \/ UseEnd(t) \/ Use(t)
    \/ Count(t) \/ Write(t) \/ Tell(t) \/ Cut(t) \/ WriteFault(t) \/ Lock(t) \/ Add(t)
    \/ Close(t) \/ ClearQuit(t) \/ PutQuit(t) \/ SendQuit(t)

-------------------------------------------------------------------------------
(* The main thread: ftp_download, ftp_download_main *)

MainFrame == UNCHANGED <<fsize, lock, lines, bytes, conn, runs>>

(* The thread that asks for the size and fetches the md5 file is joined at   *)
(* once.  It appends, but always fetches the whole file: onto one that is cut*)
(* short that is wrong.  It does not fetch one that has its full length.     *)
Md5Frame == UNCHANGED <<idx, down_size, lock, lines, bytes, w, conn, part, target, runs>>

(* What ftp_md5_cpy reads of it are its 32 first characters, the digest. *)
Fetched == CASE md5 \in {"none", "empty", "right"} -> "right"
             [] md5 = "digest" -> "digest"
             [] OTHER -> "spoiled"

FetchMd5 ==
    /\ mpc = "md5"
    /\ md5' = Fetched
    /\ mpc' = "create" /\ fsize' = FileSize /\ tempDir' = TRUE
    /\ Md5Frame /\ UNCHANGED failures

(* The fetch ended early, or its recv failed: then it is called for ever. *)
FetchMd5Fails ==
    /\ mpc = "md5" /\ md5 # "right"
    /\ failures < MaxFailures /\ failures' = failures + 1
    /\ md5' \in CASE md5 \in {"none", "empty"} -> {"empty", "cut", "digest"}
                  [] md5 = "cut" -> {"cut", "spoiled"}
                  [] OTHER -> {md5}
    /\ fsize' = FileSize
    /\ \/ mpc' = "create" /\ tempDir' = TRUE
       \/ mpc' = "spin" /\ UNCHANGED tempDir
    /\ Md5Frame

(* No address or no data connection for it: exit, with the file made. *)
FetchMd5Exits ==
    /\ mpc = "md5" /\ md5 # "right"
    /\ failures < MaxFailures /\ failures' = failures + 1
    /\ md5' = IF md5 = "none" THEN "empty" ELSE md5
    /\ Exit

(* ftp_connect failed, or SIZE was refused: the size stays 0, and is used. *)
SizeNotLearnt ==
    /\ mpc = "md5"
    /\ failures < MaxFailures /\ failures' = failures + 1
    /\ mpc' = "create" /\ tempDir' = TRUE
    /\ md5' \in {md5, Fetched}
    /\ Md5Frame /\ UNCHANGED fsize

(* One round of the loop of ftp_download. *)
CreateThread ==
    /\ mpc = "create" /\ idx < Threads
    /\ w' = [w EXCEPT ![idx] = [NoThread EXCEPT !.pc = "connect"]]
    /\ idx' = idx + 1
    /\ MainFrame /\ UNCHANGED <<mpc, down_size, part, tempDir, md5, target, failures>>

(* Mutation: the last thread is not waited for. *)
JoinBut ==
    /\ mpc = "create" /\ idx = Threads
    /\ \A t \in T \ {Threads - 1} : w[t].pc = "done"
    /\ mpc' = "merge" /\ idx' = 0
    /\ target' = [len |-> 0, clean |-> 0]
    /\ w' = [t \in T |-> NoThread]
    /\ MainFrame /\ UNCHANGED <<down_size, part, tempDir, md5, failures>>

(* All are joined, and ftp_file_merge opens the target. *)
Join ==
    /\ mpc = "create" /\ idx = Threads
    /\ \A t \in T : w[t].pc = "done"
    /\ mpc' = "merge" /\ idx' = 0
    /\ target' = [len |-> 0, clean |-> 0]
    /\ w' = [t \in T |-> NoThread]
    /\ MainFrame /\ UNCHANGED <<down_size, part, tempDir, md5, failures>>

(* What is on the disk of the part goes behind the others. *)
MergePart ==
    LET p == Unflushed(part[idx]) IN
    /\ mpc = "merge" /\ idx < Threads /\ part[idx].is = "file"
    /\ target' = [len |-> target.len + p.disk,
                  clean |-> IF target.clean = target.len /\ target.len = Home(idx)
                            THEN target.clean + p.clean ELSE target.clean]
    /\ idx' = idx + 1
    /\ MainFrame /\ UNCHANGED <<mpc, down_size, w, part, tempDir, md5, failures>>

(* fseek on the NULL fopen returned. *)
MergeMissing == mpc = "merge" /\ idx < Threads /\ part[idx].is = "absent" /\ Die

Whole == target.len = FileSize /\ target.clean = FileSize

(* Mutation: the parts are removed whatever the md5 file says. *)
CheckNot == mpc = "merge" /\ idx = Threads

(* ftp_md5_cpy found what the md5 file says. *)
Checked == mpc = "merge" /\ idx = Threads /\ Whole /\ md5 \in {"right", "digest"}

(* Then removedir takes the parts.  The process exits.  What ftp_md5_cpy     *)
(* returns is the address of a local variable: it may be found to be NULL,   *)
(* and then the parts are kept although the file is right.                   *)
FinishRemoved ==
    /\ Checked
    /\ tempDir' = FALSE /\ part' = [t \in T |-> NoPart]
    /\ mpc' = "done" /\ idx' = 0 /\ down_size' = 0
    /\ MainFrame /\ UNCHANGED <<w, md5, target, failures>>

(* fseek on the NULL fopen returned for the md5 file. *)
CheckMissing == mpc = "merge" /\ idx = Threads /\ md5 = "none" /\ Die

(* Or they stay, and exit writes out what is in files left open. *)
FinishKept ==
    /\ mpc = "merge" /\ idx = Threads /\ md5 # "none"
    /\ part' = [t \in T |-> Flushed(part[t])]
    /\ mpc' = "done" /\ idx' = 0 /\ down_size' = 0
    /\ MainFrame /\ UNCHANGED <<w, tempDir, md5, target, failures>>

MainStep ==
    \/ FetchMd5 \/ CreateThread \/ Join \/ MergePart \/ MergeMissing
    \/ FinishRemoved \/ CheckMissing \/ FinishKept

-------------------------------------------------------------------------------
(* A data connection ends too early, or is reset. *)
DataFails(t) ==
    /\ conn[t].st = "sending" /\ conn[t].left > 0 /\ failures < MaxFailures
    /\ failures' = failures + 1
    /\ \E st \in {"eof", "reset"} : conn' = [conn EXCEPT ![t].st = st, ![t].left = 0]
    /\ UNCHANGED <<mpc, fsize, idx, down_size, lock, lines, bytes, w, part, tempDir, md5, target,
                   runs>>

Next ==
    \/ Spawn \/ Kill \/ MainStep \/ FetchMd5Fails \/ FetchMd5Exits \/ SizeNotLearnt
    \/ \E t \in T :
         ThreadStep(t) \/ LoginFails(t) \/ PasvFails(t) \/ DataConnectFails(t) \/ DataFails(t)

Spec == Init /\ [][Next]_vars

(* The kernel runs every thread, and servers answer and send. *)
FairSpec == Spec /\ WF_vars(MainStep) /\ \A t \in T : WF_vars(ThreadStep(t))

-------------------------------------------------------------------------------
(* Properties *)

Pcs == {"none", "connect", "rest", "retr", "recv", "lock", "add", "close", "quit", "done",
        "hang"}
         \cup OnLine \cup Counting
Thread == [pc : Pcs, i : Int, n : Nat, put : BOOLEAN, got : Int, ld : Int]
Connection == [st : {"none", "open", "sending", "eof", "reset"}, rest : Int, pos : Int, left : Nat]
Command == [cmd : {"none", "junk", "login", "rest", "retr", "quit"}, n : Int, more : BOOLEAN]

ProcessTypeOK ==
    /\ mpc \in {"none", "md5", "spin", "create", "merge", "done", "dead"}
    /\ fsize \in {0, FileSize} /\ idx \in 0 .. Threads
    /\ runs \in 0 .. MaxRuns /\ failures \in 0 .. MaxFailures
SharedTypeOK ==
    /\ down_size \in Int /\ lock \in T \cup {Unlocked}
    /\ sendline \in Command /\ recvline \in {"none", "227", "150", "other"}
    /\ recvbytes \in Int
DataTypeOK == w \in [T -> Thread] /\ conn \in [T -> Connection] /\ part \in [T -> PartFile]
FilesTypeOK ==
    /\ md5 \in {"none", "empty", "cut", "digest", "right", "spoiled"}
    /\ target \in [len : Nat, clean : Nat]
FlagTypeOK == tempDir \in BOOLEAN /\ lineMet \in Nat /\ bytesMet \in Nat

(* The type of every variable. *)
TypeOK == ProcessTypeOK /\ SharedTypeOK /\ DataTypeOK /\ FilesTypeOK /\ FlagTypeOK

(* As long as threads do not meet in recvbytes, a part file never grows      *)
(* beyond its part, although servers send the file to its end, other threads *)
(* spoil commands, and a size that was not learnt counts as 0: the comparison*)
(* of ftp.c:558 cuts the last block.                                         *)
PartsFit == bytesMet = 0 => \A t \in T : Held(part[t]) <= PartSize(FileSize, Threads, t)

(* As long as threads do not meet in the global buffers, every part file is a*)
(* prefix of its part, over kills, failing connections and resumed runs      *)
(* (ftp.c:492-509).                                                          *)
PartsArePrefixes == ~tainted => \A t \in T : part[t].clean = Held(part[t])

(* As long as threads do not meet in the global buffers, down_size is exactly*)
(* what the part files hold, less what threads are about to add:             *)
(* progress_bar, the fwrite results and the mutex agree (ftp.c:560-562).     *)
Pending == Total([t \in T |-> w[t].got], Threads)

ProgressExact == (~tainted /\ mpc \in {"md5", "create"}) => down_size + Pending = HeldInAll

(* Part files go only when the whole file is merged, and whatever else       *)
(* happens a byte on the disk stays there: races, failures and kills cost    *)
(* time, never what was downloaded.                                          *)
KeepsDisk ==
    [][\A t \in T : part'[t].disk >= part[t].disk \/ Whole]_vars

(* A process that reaches its end without a failing connection and without   *)
(* threads that met has merged the whole file.                               *)
DoneMeansWhole == (mpc = "done" /\ ~tainted /\ failures = 0) => Whole

(* What a download of the file promises: the process always goes on with what*)
(* is there of the parts.                                                    *)
Phase == CASE mpc \in {"none", "dead"} -> "idle"
           [] mpc \in {"md5", "spin", "create"} -> "fetching"
           [] mpc = "merge" -> "merging"
           [] mpc = "done" -> "done"

Have == [t \in T |-> part[t].clean]

Transfer == INSTANCE ResumableTransfer WITH
    Pieces <- T,
    Bytes <- [t \in T |-> PartSize(FileSize, Threads, t)],
    phase <- Phase,
    resume <- TRUE,
    have <- Have,
    delivered <- Whole

(* As long as threads do not meet and no connection fails, every step is one *)
(* of ResumableTransfer or changes nothing it sees (ftp_download.c:68-123,   *)
(* ftp.c:492-577): of a part only a kill gives up bytes, and only what stdio *)
(* had not written; merging begins with whole parts, and with an empty file; *)
(* and the process ends only with the whole file delivered.                  *)
TransferStep == (~tainted' /\ failures' = 0) => (Transfer!TNext \/ UNCHANGED Transfer!tvars)
ImplementsTransfer == Transfer!TInit /\ [][TransferStep]_vars

(* Every process ends, also one whose connections fail or whose threads meet *)
(* in recvbytes: none waits for the lock, for data or for an answer forever. *)
(* Only a reset of the connection the md5 file comes on keeps it             *)
(* (ftp.c:436-455, where recv is called for ever), or threads that met in    *)
(* sendline, as what one then sends may be no line (ftp.c:297-308).          *)
Completes == (mpc \notin Ended) ~> (mpc \in Ended \/ mpc = "spin" \/ lineMet > 0)

-------------------------------------------------------------------------------
(* The inductive invariant behind the properties above *)

Starting == {"none", "connect", "putLogin", "sendLogin"}
Quitting == {"quit", "putQuit", "sendQuit", "done"}
Asking == {"rest", "putRest", "sendRest", "retr", "putRetr", "sendRetr"}

(* Threads live while the main thread creates and joins them; who has not    *)
(* logged in or is about to end has no connection, who has not opened its    *)
(* part has nothing buffered for it.                                         *)
FrameInv ==
    \A t \in T :
        /\ (mpc # "create" \/ t >= idx) => w[t] = NoThread
        /\ w[t].pc \in Starting \cup Quitting => conn[t] = NoConn
        /\ (mpc # "merge" /\ w[t].pc \in Starting \cup {"open"}) => part[t].mem = 0

(* What no other thread disturbed in recvbytes: it says what was received,   *)
(* and the offset a thread counts is where its part file ends, or will once  *)
(* that is written.  If the size was not learnt it may give up at the end of *)
(* a part of no bytes.                                                       *)
OffsetInv(t) ==
    /\ Held(part[t]) <= PartSize(FileSize, Threads, t)
    /\ w[t].put => fsize = FileSize
    /\ w[t].pc \in Asking \cup {"look", "recv", "use", "count", "tell"}
         => w[t].i = Offset(t) + Held(part[t])
    /\ w[t].pc \in {"write", "cut"} => w[t].i = Offset(t) + Held(part[t]) + w[t].n
    /\ w[t].pc = "write" => w[t].i < Max_(t)
    /\ w[t].pc = "cut" => w[t].i >= Max_(t)
    /\ w[t].pc = "use" /\ recvbytes > 0 => recvbytes = w[t].n
    /\ w[t].pc \in {"count", "write", "tell", "cut"} => recvbytes > 0 /\ recvbytes = w[t].n
    /\ w[t].pc = "tell" => w[t].got = w[t].n
    /\ w[t].pc \in {"lock", "add", "close"}
         => w[t].i = Offset(t) + Held(part[t]) \/ (w[t].i = Max_(t) /\ fsize # FileSize)

(* Without a meeting, one thread at a time is at the command buffers. *)
AloneInv == \A t, u \in T : w[t].pc \in OnLine /\ w[u].pc \in OnLine => t = u

(* What no other thread disturbed: the command, the answer and the place of  *)
(* the stream are the thread's own.                                          *)
CleanInv(t) ==
    /\ part[t].clean = Held(part[t])
    /\ w[t].pc = "sendLogin" => sendline = Cmd("login", 0)
    /\ w[t].pc = "open" => recvline = "227"
    /\ w[t].pc = "sendRest" => sendline = Cmd("rest", w[t].i)
    /\ w[t].pc \in {"retr", "putRetr", "sendRetr"} => conn[t].rest = w[t].i
    /\ w[t].pc = "sendRetr" => sendline = Cmd("retr", 0)
    /\ w[t].pc = "look" /\ recvline = "150" => conn[t].pos = w[t].i
    /\ w[t].pc \in {"recv", "write", "tell", "cut"} => conn[t].pos = w[t].i
    /\ w[t].pc \in {"use", "count"} => conn[t].pos = w[t].i + w[t].n
    /\ w[t].pc \in {"lock", "add"} => conn[t].pos = w[t].i \/ w[t].i = Max_(t)
    /\ w[t].pc = "sendQuit" => sendline = Cmd("quit", 0)

(* A part that is complete, and on the disk. *)
Complete(t) ==
    part[t].is = "file" /\ part[t].mem = 0 /\ part[t].disk = PartSize(FileSize, Threads, t)

(* What no failure disturbed either: the server sends to the end of the file.*)
WholeInv(t) ==
    /\ mpc = "create" => fsize = FileSize
    /\ conn[t].st # "reset" /\ recvbytes >= 0
    /\ w[t].pc \in Asking \cup {"open"} => conn[t].st = "open"
    /\ w[t].pc \in Asking \cup {"look", "recv", "use", "count"} => w[t].i < Max_(t)
    /\ w[t].pc \in Counting \cup {"look", "recv", "lock", "add"}
         => conn[t].st = "sending" /\ conn[t].pos + conn[t].left = FileSize
    /\ w[t].pc = "look" => recvline = "150"
    /\ w[t].pc = "use" => recvbytes > 0
    /\ w[t].pc = "close" => w[t].i = Max_(t)
    /\ w[t].pc \notin Starting \cup {"open", "hang"} => part[t].is = "file"
    /\ (w[t].pc \in Quitting \/ mpc = "merge") => Complete(t)

(* The target holds the parts merged so far. *)
MergeInv ==
    /\ mpc = "merge" => /\ target.clean = target.len
                        /\ target.len = IF idx < Threads THEN Home(idx) ELSE FileSize
    /\ mpc = "done" => Whole

IInv ==
    /\ TypeOK /\ FrameInv
    /\ bytesMet = 0 => \A t \in T : OffsetInv(t)
    /\ ~tainted => AloneInv /\ \A t \in T : CleanInv(t)
    /\ (~tainted /\ failures = 0) => MergeInv /\ \A t \in T : WholeInv(t)

(* Who adds to down_size holds the lock and read what it still is; what was  *)
(* written counts as pending until it is added.                              *)
LockInv ==
    \A t \in T :
        /\ w[t].pc = "add" => lock = t /\ w[t].ld = down_size
        /\ w[t].pc \notin {"tell", "lock", "add"} => w[t].got = 0

(* Without the directory there is nothing that progress_bar could miss.      *)
DirInv == tempDir \/ (mpc \notin {"create", "merge"} /\ \A t \in T : Held(part[t]) = 0)

ProgressInv == LockInv /\ DirInv /\ ProgressExact
===============================================================================
