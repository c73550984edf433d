# A verification of fileTransSys

fileTransSys is a download service. A browser talks over a web socket to a control
server; the server forks one process per download; the process fetches one file in
parts, one thread per part, from P2P servers, from an FTP server or from an HTTP server,
puts the parts together and reports progress to the browser. This directory holds TLA+
modules that model the program, TLC configurations that check them on small instances,
and proofs checked by TLAPS. Paths below are relative to `src/file/` unless they say
otherwise.

## 1. The system

### Components, their state and operations

| Component | Source | State it keeps | Operations |
|---|---|---|---|
| Control server | `main.c`, `mission.c` | the epoll set, one `event_ptr` per connection (with `process_pid`), `e_ptr` of the connection accepted last, forked children | epoll_wait, accept and handshake, receive an operation, start, continue, stop, delete, close; in a child: run the mission, leave the epoll set, exit |
| Web socket and JSON layer | `get_php_oper_info.c` | none | `shake_hands`, `analy_data` (one recv, one frame), `get_websocket_oper`, `send_websocket_res_head` |
| P2P download | `p2p_download.c`, `p2p_continue.c` | part files, `rate` under `work_mutex`, the request buffer `mozart_req_content`, the merged file | create threads, connect, request, receive and write, add to the counter, join, merge, compare digests, remove the parts |
| P2P server | `p2p_server.c` | connections, open files, one detached thread per connection | accept, parse, open, header, send blocks, close the file |
| FTP download | `ftp_download.c`, `ftp.c` | part files, the md5 file, globals `sendline`, `recvline`, `recvbytes`, `down_size` under `ftp_mutex` | count what is there, fetch size and md5 file, create threads, login, REST, RETR, receive and write, join, merge, check, remove the parts |
| HTTP download | `http17.c` | part files, globals `host_info`, `http_info`, `req_info`, `showbyte`, one argument structure for all threads | ask for the size, create threads, range request, receive and write, join, merge and remove the parts, check |
| Oracle access, test client, md5 test | `../oci_oracle.c`, `../test_client2000/test_client.c`, `file_download/md5test.c` | none | stand-alone programs nothing else calls |

### Interactions

- Browsers and the control server exchange web socket frames over connections the server
  watches edge triggered. A child inherits all descriptors, among them the epoll instance,
  which parent and children therefore *share*.
- A download process sends progress frames on its browser's connection; when the browser is
  gone, SIGPIPE ends the process. "stop" ends it by `kill`. Nothing but the part files
  survives; "continue" starts a new process from them.
- The threads of a download process share the request or command buffer, the counter and
  its mutex, and each owns one part file.
- P2P downloads fetch from P2P servers of this or other hosts. A P2P server is one process:
  what kills one of its threads kills all.

### What is hard

Threads that share unprotected globals; processes killed between a `fwrite` and the
moment stdio writes its buffer out, then resumed; servers and browsers that leave at any time;
errors that are not looked at (`recv` returning 0 or -1, `connect`, `accept`, `fopen`);
edge triggered events; an epoll set that two processes change; streams that TCP cuts anywhere, read one recv at
a time; several download processes of one file in one directory; arithmetic at the boundaries
of parts and blocks. `PROJECT.json` lists every such place with its line under "hazards".

### What makes each part correct

- *P2P, FTP and HTTP download*: a part file is always a prefix of its part of the file; a resumed
  download goes on exactly there and gives nothing up; the end of a process means a whole
  file; the progress shown is not more than there is; a process ends.
- *Control server*: whoever is connected and has not left is listened to; no message
  stays unread; a stop reaches the download it is meant for; the server does not give up; ended processes are waited for.
- *Web socket layer*: a frame that arrived whole is understood; nothing but a browser's wish closes its connection; what
  browsers send cannot end the server; the browser can read what is sent. (The first holds for the frame a recv begins with, the last two not in
  general: the properties say how far they go.)
- *P2P server*: each request gets exactly the bytes it names; the service ends for no other
  reason than those one can enumerate; a client that stays and reads is served.

## 2. The modules

| Module | What it is |
|---|---|
| `Segments` | the division of a file into parts, and of parts among servers (pure operators) |
| `PartLemmas` | theorems about it, for every file size and number of threads, and the lemmas the proofs of all downloads share: what the operators on part files do, and what a sum over parts is |
| `PartFiles` | a part file as stdio and the disk see it: bytes on the disk, bytes buffered, length of the right prefix |
| `P2PDownload` | the P2P download of one file, both operations, with its threads, servers, kills and resumed runs |
| `P2PDownload_proofs` | type correctness, the inductive invariants of the parts, the counter and the waiting, all safety properties, and the refinement of `ResumableTransfer` |
| `ResumableTransfer` | what any resumable download promises; the P2P, the FTP and the HTTP download are shown to implement it |
| `P2PImplementsTransfer` | the refinement mapping from `P2PDownload` to it |
| `SharedDownloads`, `SharedDownloads_proofs` | several P2P downloads of one file at once, on `Segments`: one directory, the same part files and target; all its properties proved |
| `ControlServer`, `ControlServer_proofs` | event loop, download processes as far as the server sees them, browsers; all safety properties proved |
| `BrowserMessages` | the messages to a browser: what it makes of the headers the server gives them |
| `WebSocketFrames`, `WebSocketFrames_proofs` | one connection at the level of bytes, on `BrowserMessages`: request, frames, recvs; all safety properties proved |
| `P2PServer`, `P2PServer_proofs` | accept loop, request threads, clients, descriptors; all safety properties proved |
| `FtpDownload`, `FtpDownload_proofs` | the FTP download of one file, on `Segments` and `PartFiles`; all safety properties and the refinement of `ResumableTransfer` proved |
| `HttpDownload`, `HttpDownload_proofs` | the HTTP download of one file, on `Segments` and `PartFiles`; all safety properties and the refinement of `ResumableTransfer` proved |

### How the modules correspond to the code

**PartFiles.** The contents of a file are abstracted to `[is, disk, mem, clean]`: the bytes
that reached the disk, those still in the buffer of the `FILE`, and the length of the prefix
that equals the file's own bytes at that place. `Appended` is `fwrite` (stdio may flush any
amount at any time), `Flushed` is `fclose`, `Unflushed` what a killed process leaves.

**P2PDownload.** `Spawn(o)` is the fork in `main.c` together with `mkdir`/`chdir`.
`CreateThread` is one round of the loop at `p2p_download.c:56`; for a "continue" the round is
split where the code reads and where it writes `rate` without the lock (`MeasurePart`,
`ContinuePart`). A thread goes through `Connect`, `FormatSize`, `FormatStart` (the
`snprintf` into the shared buffer, in two steps because another thread can send in between),
`Send` (which sends the *thread's own length* of *whatever is in the buffer*), `Response`,
then rounds of `Recv`, `LockRate`, `StoreRate`, and `Finish`. The text of a request is a pair
of numbers and a length; the length matters because a text cut short makes the server wait
forever (`"hang"`). `RecvEnd` is the endless loop on `recv` = 0, `RecvError` and `RecvFault` the
two outcomes of passing -1 to `fwrite`. `Join`, `MergePart`, `MergeEmpty`, `MergeMissing`, `MergeEnd` and
`Cleanup` are `file_merge` and what follows, including the working directory that makes
`rm -rf` miss after success and hit after an early return. `Kill` may happen anywhere.
`tainted` is a history variable: it records that two requests met in the buffer, or that a
failed `recv` was written. `PeerDies` delivers part of what was in flight, or resets.

**ResumableTransfer.** A transfer is `"idle"`, `"fetching"`, `"merging"` or `"done"`; `have[p]` counts the right bytes held of part p, `delivered` says
that the whole file is there. A fresh transfer may start a part over, a resumed one only gains; merging begins with every part complete; `End` needs
`delivered` and leaves the parts or removes them all; `Interrupt` may take the tail of any part, at any time. The mappings read `have` off the part files:
`P2PImplementsTransfer` for P2P, the end of `FtpDownload` and of `HttpDownload` for those. P2P is mapped as a specification whose steps are
those in which nothing goes wrong (`NormalSpec`); for FTP and HTTP `ImplementsTransfer` says the same of every single step in which no threads met and no connection failed.
HTTP removes the parts one by one in the middle of its merge, so its mapping counts a removed part as held until the merge is over.

**SharedDownloads.** Here a file is the sequence of its bytes, each right for its place, wrong or a hole, because overlapping
processes overwrite, truncate and append. Every process has its own offset in a part it opened with `wb+` and
appends to one opened with `ab` (`WrittenOut`). What it lays down there (`Laid`) is right only if that is the place of the bytes it asked for, whichever
operation it is. `in` says whether the directory a process stands in still exists: `rm -rf` of another (`RemoveDir`, after
the early return `MergeEmpty`) takes it away, `linked` whether a part a thread has open still has a name. `Join` is the end of the loop that joins, and the
`chdir("..")`, `fopen(.., "wb")`, `chdir` of `file_merge`, which enters the directory anew; `alone` is a history variable: the process
started last has had the files for itself. Requests, counter and failing servers are in `P2PDownload`.

**WebSocketFrames.** The browser's stream is its request and, behind it, frames with their places (`frames`); `Arrive` brings any piece
of it, `taken` is what recvs took. `ShakeHands` and `Receive` take one recv each, up to `Buffer`. `Analysed` gives all that
may come of a recv: the end of the connection for eight bytes, a fault for less than two or for what is no final frame, the text
of the first frame (`AtFrame`), or garbage if the recv begins inside a frame. `Encoded` is the `strlen` of the binary digest.
`cut` is a history variable: a piece that arrived or a recv ended within
a frame or the request. `Message` is `send_websocket_res_head` and the send behind it.

**BrowserMessages.** `LengthBytes` are the bytes the code writes for a length; from 126 on the two bytes are in the wrong order and the high one is always 0, and from 65535 on
they are written through a NULL pointer (`SendTooLong`: the download ends). The stream a browser reads has the messages one behind the other, so a wrong length is not the loss of one message:
`due` is what the browser still takes for the rest of the message it reads, and a message behind it is swallowed (`Swallows`) or read from the middle of a text (`Strays`).

**ControlServer.** Connections are numbered in the order accept returns them, so "the
connection accepted last" (`e_ptr`) is `accepted`. `ready` is the kernel's ready list; `Wait`
reports those in it that still have something to read; `Received` is one recv of all that arrived, of
which the first frame is used. `pidOf[c]` is `process_pid` in the structure of connection c.
`KidFinishes`, `KidDies` and `KidSends` are all a download process does that the server can see. An ended process is in `zombies` until
`Reap`, the `waitpid` loop before `epoll_wait`, or the `waitpid` of a stop (`WaitedFor`), which does not wait. A browser may connect and never send its
request: then main stays in `shake`.

**P2PServer.** `EnterAccept` and `Accept` split `accept`, which takes its descriptor before it
waits. `Chunk` is one round of the loop of `handle_request`; what `send` does depends on what
the client did (`Sends`, `SendFails`, `SendKills`): one that does not read (`Stall`, until `Resume`) makes it wait, after a FIN one send still succeeds, after a reset one fails and the next raises
SIGPIPE. A size may be negative, as `p2p_continue.c:58` computes one for a part that has grown too long: `fread` then reads to the end of the file (`Reads`), which
overruns the buffer on the stack if there is more than a block (`Overrun`).

**FtpDownload.** `Spawn` counts what the parts hold (`progress_bar`), `FetchMd5`, `FetchMd5Fails`
and `SizeNotLearnt` are the thread that is joined at once; then one thread per part. The program is compiled without optimisation, so every look at a global is
a step of its own, with steps of other threads between:

- a command is cleared away with the answer before it (`Login`, `ClearRest`, `ClearRetr`, `ClearQuit`: the `memset`s), written (`PutLogin`, ...: `sprintf`
  and `strcat`, of which two threads at once make any of `Mixed`), and exchanged for its answer (`SendLogin`, ...). What is sent is what stands in `sendline` then, or half of
  it if another thread is writing (`Sent`). What is no whole line no server answers, and the thread stays in `recv` (`"hang"`). The answer goes to the global `recvline`, which is looked at later
  (`Open`, `Look`), when it may be another's (`Misled`, `LookWrong`);
- `Recv` puts its result into the *global* `recvbytes`, which is read again and again: to see whether bytes came (`Use`, `UseEnd`, `UseError`, `ftp.c:545` and 553), to add to the offset (`Count`, 557), to write
  (`Write`, 560), to say how much was written (`Tell`, 560 again), and to cut the last block (`Cut`, 569-573). If another thread's `recv` falls in between, a thread counts,
  writes and tells different numbers, negative ones included (`Fwrite`, `WriteFault`);
- `Lock` and `Add` are the addition to `down_size` under `ftp_mutex`, `Close`, `Leave` the end of a part.

`lineMet` and `bytesMet` are history variables: how often threads met in the command buffers and in `recvbytes`; `tainted` is that they met at all.
Failures: `LoginFails` (the thread ends), `PasvFails` and `FetchMd5Exits` (one thread calls
`exit(1)` and ends all, with stdio writing out), `DataConnectFails` (goes on, and RETR is not answered with 150),
`DataFails`, `FetchMd5Fails`, `SizeNotLearnt`. The md5 file may be cut behind the digest (`"digest"`), which the comparison of its first 32 characters does not see. `ftp_md5_cpy` returns the address
of a local variable, which compilers may replace by NULL, so a right file may end in `FinishKept` too.

**HttpDownload.** `Spawn` is `http` up to `process_create`, `GetSize`, `SizeNotLearnt` and `SizeFails` are what `getsize`
can come to, with the loop that adds up what the parts hold. `CreateThread` and `SkipComplete` are one round of the
loops that create threads; `arg` is the structure all threads get. The `sleep(1)` after each round is no synchronisation, so the
next round may come before a thread has read it. A thread goes through `ClearInfo` (the `bzero` of `host_info` and `http_info`), `ParseUrl` (which gives `host_info` the name in the url, that of the *target*), `TakeName` (copies
the name of its part file over it), `TakeRange` (copies the range into `req_info`), `SendRequest`, `Header` (the length announced goes
to the global `http_info`), `Open` (copies both globals and opens the file the name stands for, the target included; no name at all gives NULL, `NoFile`), then rounds of `Read`, `LoadShown` and `StoreShown`
(`showbyte += len` under a mutex that is a local variable), and `Close`. `Join`, `MergePart`, `MergeEmpty`, `MergeMissing` and
`MergeEnd` are `http_file_merge`, which removes each part as it goes; `Finish` and `CheckMissing` are `md5_cpy`. `tainted` records that a
thread used what was meant for another, or sent a range that ends before it begins; `astray` counts the bytes threads appended to the target.

## 3. The runs

| Run | Question | Instance |
|---|---|---|
| `p2p_safety` | Are parts prefixes, the counter honest, the end whole, resumed bytes kept; does any thread wait in vain, and does a process end, when its servers live? | 4 bytes, 2 threads, 1 server, 2 processes, 1 failure |
| `p2p_refine` | Does the download implement `ResumableTransfer`? | 5 bytes, 3 threads, 2 servers, 2 processes, no failures |
| `p2p_flag_race` | Does the completion flag mean a complete file? **No** | radix 3, 1 process |
| `shared` | What can downloads of one file in one directory do to each other? | 3 bytes, 2 threads, blocks of 2, 3 processes, 2 at a time |
| `control` | Who is listened to, do events and arrivals agree, whose process is noted, when does the server give up; is every message of a watched connection received, every ended process waited for? | 2 connections, 2 operations |
| `control_stop` | Does a stop reach only the sender's download? **No** | 2 connections, 3 operations |
| `frames` | What does one recv per event make of frames in pieces, together, or too long; what closes a connection or ends the server; which messages does the browser read? | buffer of 20, medium payloads from 5, requests of 10 and 22 bytes, payloads 3, 5, 14, 2 frames; 3 messages of 4, 5, 24 or 63 bytes |
| `server` | Does each request get what it names; what ends the service? | file of 3 bytes, blocks of 2, sizes -1 to 4, offsets 0 to 3, 2 requests, 3 descriptors |
| `server_sigpipe` | Is a failed send handled, as the code says? **No** | file of 3 bytes, blocks of 2, 1 request |
| `ftp` | The same questions for FTP, `ResumableTransfer` included, with failures (connects, PASV, the size, the md5 file, data connections) and threads that meet in the global buffers | 3 bytes, 2 threads, blocks of 2, answers of 2 bytes, 2 processes, 1 failure, 1 meeting |
| `http` | The same safety questions for HTTP, and does a thread ever wait for bytes that will not come? | 3 bytes, 2 threads, blocks of 2, 2 processes, 1 failure |
| `http_names` | Does every part have a file of its own? **No** | 3 bytes, 2 threads, 1 process, no failures |

*Why these bounds.* Two threads are the least that can meet in a buffer or at a mutex, and
already give a part that has a successor and a last part with the remainder. Blocks of 2 with
parts of 2 bytes (FTP and HTTP: 1 and 2) give full, short and cut blocks. Two processes give every
combination of start or continue after a complete, a killed or a crashed one; a third sees nothing
but part files the second could see too. `Radix` replaces ten so that a change in the
number of digits, and with it in the length of the request, happens with numbers below 5.
In the control server two connections distinguish the sender from the connection accepted
last, two operations are the least for two downloads or a download and its stop, and `control_stop` has three for start, start, stop.
In `shared` two processes at a time are the least that overlap, and a third finds what two overlapping or killed ones left;
the part of two bytes is the least that can have a hole. In `frames` the sizes are the code's (1024, 126, 256) scaled down so that a request or a frame
is shorter than, or longer than, the buffer, a payload is short, of the first medium length and medium, and a frame has the eight bytes that count as an end. The four lengths of messages are the longest short one, the shortest medium one, whose wrong length reaches into what follows, a
multiple of `Base`, whose wrong length is 0, and the first that is too long (`Base` * `Base` - 1). In the P2P server sizes run
from -1 to one more than the file and offsets to its end; three descriptors run out with two
connections and two open files. In FTP there is one meeting, between any two accesses; of the properties that
speak of runs with meetings `KeepsDisk` and `PartsFit` are proved for any number, and only `Completes` is limited to it.

What the bounds cut is of two kinds. The number of processes, failures, meetings, connections,
messages and requests: each is a guard with a constant of its own (`MaxRuns`, `MaxTogether`, `MaxFailures`, `MaxMeetings`,
`MaxConns`, `MaxMessages`, `MaxFrames`, `MaxOut`, `Requests`). And the values that come from outside: the sizes and offsets asked of the P2P server (`Sizes`, `Starts`, and `CutStarts` for a
request whose text ends early; -1 stands for all negative sizes, and what is beyond the end of the file for all that is), the lengths of requests, operations, messages and
answers (`ReqLens`, `OpLens`, `MsgLens`, `AnswerLens`). The theorems below hold for every value of the constants among these; `Sizes`, `Starts` and `CutStarts` are ranges that depend on `FileSize`, and
bound the theorems on the P2P server too.

Deadlock is not checked: all systems here may stop. A process that ran through and may not be started again, a
server that died, browsers that all left are proper ends; where a stop would be an error, a liveness property
says so (`Completes`, `MessagesReceived`, `EndedAreWaitedFor`, `ServesWhoStays`). HTTP has none, only `WaitsOnlyForBytes`: that its processes end would rest on
servers that close idle connections.

### What the violated runs show

- `p2p_flag_race`: without any failure, two threads format their requests into
  `mozart_req_content` before either sends (`p2p_download.c:184`, `187`). One part is filled with
  another's bytes; the flag is set to 1 whatever the merge and the digest say.
- `control_stop`: `e_ptr->process_pid` (`main.c:200`, `218`) belongs to the connection accepted last.
- `http_names`: the main thread puts the next part's name into the structure (`http17.c:953`, `1013`), or the next thread into
  `host_info` (`http17.c:661`), before the thread in front has opened its file (`http17.c:466`).
- `server_sigpipe`: the handling of a failed send (`p2p_server.c:118`) is not reached,
  because SIGPIPE is not ignored.

In the passing runs the same places are exercised; the properties say what still holds there,
e.g. that the counter never claims *too much* although updates are lost (`p2p_continue.c:60` adds without the mutex), that
overlapping fresh downloads leave holes but no wrong byte, and a later one that has the files for itself delivers the whole file whatever they
left, that several frames at once never end the server while one frame in pieces can, that FTP parts
never lose what is on the disk although threads overwrite each
other's buffers, and do not grow past their end as long as it is only the commands they overwrite, that HTTP counts nothing that is in no file at all, or that a noted process number is never one of a *later* browser.

### Fairness

`WF(MainStep)` and `WF(ThreadStep(t))` for each thread: the kernel schedules every runnable thread, and
a live server answers and sends. Weak fairness is enough, since a thread that waits for a
mutex competes only with threads that give it back and that, having a bounded number of bytes
to receive, take it finitely often. Kills, deaths of servers and failures of connections are never fair: they may not happen.
In the control server only main is weakly fair; browsers and download processes owe nothing. A browser that connects and stays silent keeps main in the
blocking `recv` behind `main.c:121`: the two liveness properties say that this, for ever, is the only way a message stays unread or an ended process
is not waited for. In the P2P server every thread is weakly fair; a client owes nothing, but who does not read
is not served, so `ServesWhoStays` asks that it does not stop reading for ever (`<>[](gone # "full")`); that others do is no condition. `Completes` of P2P and FTP takes the browser to read the progress it is sent
(`p2p_download.c:204`, `ftp.c:565` and `ftp.c:578` send it under the mutex). That of FTP names what keeps a process: a reset of the connection the md5 file comes on (`"spin"`), and threads that met in `sendline`, one
of which may then wait for the answer to what is no command.

## 4. What is proved

Every theorem holds for every value of the constants that meets the module's `ConstantsAssumption`, which says no more
than that sizes, bounds and numbers of threads are natural numbers, positive where the code divides by them or loops over
them. `WebSocketFrames` also assumes what the code lives on: an operation is longer than two bytes (it is a JSON object with
fields), and a request reaches to the end of its key. Nothing else is assumed and nothing is left out; each component's theorems
rest on an inductive invariant that stands at the end of the component's module.

**The parts of a file** (`PartLemmas`). Each byte of the file lies in exactly one part and no part reaches outside
(`SegmentsTileFile`), parts are adjacent (`PartsAdjacent`), the last ends with the file (`LastPartEndsFile`), and no part is asked
of a server the request does not name (`PartsAskNamedServers`). They rest on division with remainder. The lemmas on `Total`, the sum over
the parts, are what the theorems on progress need: the sum of integers is an integer and that of natural numbers a natural number (`TotalInt`, `TotalType`), it grows with its summands, and a step of one
thread changes it by what that thread's summand changes by (`TotalStep`). The sum is a recursive function; instead of an induction, which the
provers cannot instantiate, each lemma takes the least partial sum that does not have the property and shows there is none.

**P2P download** (`P2PDownload_proofs`). `PartsArePrefixes` is not inductive: whether the next block
continues a part depends on what the server was asked for, and that on what stood in the buffer when it was sent. `PrefixInv`
adds this chain. `FrameInv`: threads exist only while the main thread is in its loop and only up
to where the loop has come. `AskInv`: a thread asks for exactly what its part file lacks. `BufInv`: between formatting and sending the
buffer holds the thread's own request. `StreamInv`: what a server still sends goes right behind
what the part holds and is no more than it lacks. `NormalInv` says what more is known while nothing went wrong: parts whose threads have ended
are complete, the target is the prefix merged so far, no merge was aborted. With both, `IInv`, come

- `DoneCorrect`: a process that ends, with nothing gone wrong, has merged the whole file, however often earlier ones were killed;
- `ContinueKeepsDiskCorrect` (an action property): no step of a "continue" takes a byte from the disk, also when requests meet, servers die and failed recvs are written, but
  the removal behind a merge that found a part empty; and, by `AbortInv` and `CompleteInv`, it finds one only after such an event or in a file of fewer bytes than threads;
- `RefinementCorrect`: with a byte for each thread, every behaviour in which nothing goes wrong implements `ResumableTransfer`:
  `Init` maps to its initial states, and each action, taken one by one, to one of its steps or a stutter.

The counter has a layer of its own, `RateInv`: a thread has added all it received but what it is about to add (`CountInv`); no thread in the middle of
its addition, and not the main thread in the middle of one without the lock, read a value above the sum of what was counted (`AddInv`), and
in a "start" what it read is `rate` itself (`ExactInv`). From it `NeverOverstatesCorrect` and `RateExactCorrect`.

Why a download ends is proved as far as a single step can show it. `NobodyWaitsInVain`: while requests do not meet and servers live, every thread
that has not ended can take a step (`Ready`), or waits for the mutex and its holder can. `LiveInv` carries it: whoever holds the mutex is about to give it back (`LockInv`), and once a
server was asked it owes the thread *exactly* what its part still lacks (`ServedInv`), so a stream neither dries up before the part is complete nor leaves a thread
in the endless loop on `recv` = 0. For that the number of bytes sent must be the length of the request, hence the equality where `StreamInv` has only a bound. What is left to TLC
is that fair steps reach the end (`Completes`).

**Overlapping P2P downloads** (`SharedDownloads_proofs`, where files are sequences of bytes). `LifeInv`: threads live only in the loop of their process.
`StartsInv` holds while all processes ever started are fresh downloads: every thread asks for its part as a whole, no byte of a part is wrong, no part is
too long, and each part file is whole, or some process died, or the thread that opened the part last (`Restores`) is still there: it emptied the part, all it has written out
since is right, and what it still owes ends where the part does. That the bytes are right rests on `base + out` being the offset of the file, for every thread and
whatever others did to the file in between, and this on `base` being 0 in a fresh download. Bytes of other threads may lie behind, with holes between, and right bytes stay right whoever writes.
So `StartsWriteRightCorrect`, and, with no thread left, `StartsLeaveWholePartsCorrect`. The name of the last opener is not kept; that some thread has these
properties is enough, and is what a `Finish` of it turns into a whole part. `LoneInv` follows the process started last
as long as it is a fresh one that had the files for itself: no other runs, its threads leave whole parts, and the target is right up to where the next part
begins (`Offset`). It carries `LoneStartDeliversCorrect`; a part that is not empty, for a file with a byte for each thread, rules out the early return of the merge.
`ContinuesKeepDiskCorrect` is an action property: whoever opens with `ab` appends, at whatever length others have given the part.

**FTP download** (`FtpDownload_proofs`). The invariant has a part for each thing other threads may disturb. Whatever they do, `TypeOK` and `FrameInv`
hold (with `down_size` any integer, since a negative count may be added), and `KeepsDiskCorrect`, an action
property: only the removal behind a merge that was checked takes bytes from the disk. While no threads met in `recvbytes`, `OffsetInv` ties the offset a thread counts, the result of its last recv and the end of its part file
between any two of its accesses, which gives `FitCorrect`. While none met at all, `AloneInv` says that one thread at a time is at the command buffers, and `CleanInv` is the chain from `sendline` over the answers
to the stream (`PrefixCorrect`); if no connection failed either, `WholeInv` and `MergeInv` say what is complete (`DoneCorrect`). `RefinementCorrect`, for a file of at least one byte, takes every step of an undisturbed process to one of
`ResumableTransfer` or a stutter. `ProgressCorrect`, under the same condition as `PrefixCorrect`, needs `LockInv` (who adds
holds `ftp_mutex` and read the value that is still there) and `DirInv` (`progress_bar` misses nothing when the directory is not there yet).

**HTTP download** (`HttpDownload_proofs`). `FrameInv` says which values go with which step of the process and of a thread. `OwnInv` is the chain
of what is still a thread's own: the range in the structure or in `req_info` asks for what the part lacks (`RangeOK`), what the connection brings goes on
where the part file ends and completes it unless a connection failed, and the length counted up to is the one announced (`ConnOK`).
`MergeInv` says that the loop skips only complete parts and what the merge has joined. They give `PrefixCorrect`, `WaitsCorrect` and
`DoneCorrect`. `RefinementCorrect` also needs `RemovedInv`, which says what parts a merge under way has removed. `ShownCorrect` holds whatever threads do to each other, with its own layer `ShownInv`: neither the counter nor any value a thread has
read and is about to store, with all that is still to be added, is above what the parts hold and what went to the target by mistake (`astray`); so a lost addition can only understate.

**Control server** (`ControlServer_proofs`). `MainInv`, `ClientInv`, `WatchInv` and `KidInv` say where main is and what it works on, what a browser can
have sent, who is in the epoll set, and whose children there are. With them all five safety properties are inductive, `StaysWatched` as a
consequence of `WatchInv`: only the child of a "start" that ran to its end takes a connection out of the set. `EventsCorrect` needs `EventInv` besides: whatever
has arrived on a watched connection and is not received stands in the kernel's ready list or in the batch main works on. It is the step by step core of `MessagesReceived`: with
edge triggered events and one recv per event, a message without an event would never be reported again.

**P2P server** (`P2PServer_proofs`). `HandlersInv`: what was sent, with what size and place in the file still give, is what was asked for, for
a client that stays, reading or not, and asks for a size that is not negative; and a thread whose client stays has a negative size only if
that client asked for one. `SendsCorrect`, `DescriptorsCorrect` and `DiesOnlyBecauseCorrect` follow.

**Web socket layer** (`WebSocketFrames_proofs`). `FramesInv`: frames lie behind the request and behind each other, without gaps.
`RecvInv`: as long as nothing was cut, the next recv begins where a frame does, and an event is there only for something unread. The four
properties of what browsers send follow, `NothingLeftBehindCorrect` among them: only behind a recv that filled the buffer are bytes left without an event, as a frame of exactly `Buffer` bytes with another
behind it shows. `OnlyShortReadBackCorrect` is proved of `BrowserMessages` alone (`MsgInvCorrect`), which every behaviour of `WebSocketFrames` implements (`ImplementsMessages`): with `InStepInv`, that the browser is in step exactly as long as all messages were short.

TLC checked each invariant on the instance of its component's run before it was proved. Types and inductive invariants are not checked there
again; the proofs do that for every instance.

Proof attempts also changed the modules. Two CASE expressions of `WebSocketFrames` (`AtFrame`, `Analysed`) had guards that overlapped, where TLC takes the
first and the language allows any; they are chains of IF now, in the order of the code. Three properties say more than they did:
`RateNeverOverstates` holds for both operations and also when requests met in the buffer, `RateExactInStart` and `ProgressExact` also while a thread
holds the lock. Sums over parts are
`Total`, a recursive function, and not a fold over a set.

### Only model-checked

- Liveness (`Completes` of P2P and FTP, `MessagesReceived`, `EndedAreWaitedFor`, `ServesWhoStays`): the prover handles neither
  fairness nor ENABLED. What single steps contribute to the first and the third is proved (`NobodyWaitsInVainCorrect`, `EventsCorrect`);
  `Ready` is what ENABLED would say, and TLC agrees that it does on the instance of `p2p_safety`.
- What the violated runs refute.

## 5. Abstractions

- The contents of files are abstracted to the length of the right prefix, requests to two numbers, operations to
  their names. Path names, the text of messages, logging, digests and percentages are left out. The digest is "equal iff the file is whole".
- Fixed-size buffers (`location_temp[32]`, `file_temp[]`, `system_call[]`, `file_md5[33]`, `websocket_head`) are taken
  to be large enough for what is written to them.
- `int` holds every file size.
- In all modules but `SharedDownloads` one process works on a file at a time, always with the same number of threads and servers, and the merged file is
  not touched by others. In `SharedDownloads` servers live, the requests of one process do not meet, and `..` of a removed directory is its old parent, as on Linux.
- In `ControlServer` browsers send whole masked frames that fit the receive buffer together; `WebSocketFrames` has the others, but none with a length of eight bytes, none
  that is not final or not masked, and takes the byte behind a payload, where `strlen` looks for the end of the text, to be zero. Browsers name one of the three
  protocols. Process numbers are not used again.
- P2P: connect, the response header and each round of `recv`/`fwrite` are one step; a server dies as a whole.
- FTP: USER, PASS, TYPE, PASV and SIZE are one command with its answer, "login"; of two
  commands that threads write at once a server gets the offset of one, never digits of both; `recvline` is read in one step, and so is `recvbytes` at `ftp.c:545` and
  553, which differs only for a thread at the end of its stream if another's `recv` fails just then: it would go on with a count of -1, as threads that meet elsewhere do. Servers answer every line in the order they get them. After
  an answer other than 150 the server ends the data connection, and bytes written to the `FILE` that was closed there are lost.
  `ftp.c:388` closes an uninitialised descriptor when the md5 file is complete; it is taken to be none.
- HTTP: writing or copying the fields of a structure (`bzero`, `strcpy`, an assignment) is one step; two
  threads that write one file are taken to share its stdio buffer; the server answers a range that ends before it begins with
  the whole file, one that begins behind the file, or comes with no name, with a page of its own; a host whose name was cleared ends the process; other names resolve. FTP and HTTP servers
  send no other bytes of the file than those they were asked for, though maybe fewer.
- P2P server: a request is read in one step, a client's departure is seen by sends in the order TCP gives. A negative offset, which `fseek` refuses, is one of 0. What overrunning the buffer on the stack
  does is that the process dies or, by chance, goes on.

## 6. Not modelled

- `../oci_oracle.c`, `../test_client2000`, `file_download/md5test.c`: programs of their own without state that others use.
- `get_php_oper` and the commented-out code: not called.
- SHA1, base64, MD5, unmasking, URLs and the text of headers: pure functions of their input, which the properties do not tell apart.
- Unknown protocols (`mission.c:8`): the child may go on as a second event loop. Two FTP or two HTTP processes in one directory.

## 7. Plan

Done: 1. `Segments` with its theorems. 2. `P2PDownload` with runs, `TypeCorrect` and `PrefixCorrect`. 3.
`ResumableTransfer` and the refinement. 4. `ControlServer`, with silent browsers and ended processes. 5. `P2PServer`. 6. `FtpDownload`, with its failing exchanges. 7.
`HttpDownload`. 8. `WebSocketFrames`. 9. `SharedDownloads`. 10. Proofs of all safety properties of these, of the
three refinements of `ResumableTransfer`, and of the steps that keep a P2P download and the control server going.

Next, in this order:

1. A child that goes on as a second event loop (`mission.c:8`).
2. Two FTP or two HTTP processes in one directory, as `SharedDownloads` has it for P2P.
