-------------------------- MODULE FtpDownload_proofs --------------------------
(***************************************************************************)
(* Proofs about FtpDownload for every file size, number of threads, block  *)
(* size, lengths of answers, number of processes, of failures and of       *)
(* meetings: its types, that parts fit and are prefixes, that the progress *)
(* is exact, that nothing downloaded is given up, and that a process       *)
(* nothing disturbs delivers the whole file and implements                 *)
(* ResumableTransfer.                                                      *)
(***************************************************************************)
EXTENDS FtpDownload, PartLemmas

-------------------------------------------------------------------------------
(* Parts and records *)

LEMMA PartTypes ==
    /\ T \subseteq Nat /\ Unlocked \notin T
    /\ \A t \in T : t < Threads
    /\ \A i \in 0 .. Threads : i < Threads => i \in T
    /\ \A t \in T : /\ Home(t) \in Nat /\ PartSize(FileSize, Threads, t) \in Nat
                    /\ Home(t) + PartSize(FileSize, Threads, t) <= FileSize
<1>1. T \subseteq Nat /\ Unlocked \notin T /\ \A t \in T : t < Threads
  BY ConstantsAssumption DEF T, Parts, Unlocked
<1>2. \A i \in 0 .. Threads : i < Threads => i \in T
  BY ConstantsAssumption DEF T, Parts
<1>3. ASSUME NEW t \in T
      PROVE  /\ Home(t) \in Nat /\ PartSize(FileSize, Threads, t) \in Nat
             /\ Home(t) + PartSize(FileSize, Threads, t) <= FileSize
  BY ConstantsAssumption, PartInFile DEF T, Home
<1> QED BY <1>1, <1>2, <1>3

(* The parts of a file whose size was not learnt are empty.                  *)
LEMMA Offsets ==
    ASSUME TypeOK, NEW t \in T
    PROVE  /\ Offset(t) \in Nat /\ Size(t) \in Nat /\ Max_(t) \in Nat
           /\ Max_(t) = Offset(t) + Size(t) /\ Max_(t) <= FileSize
           /\ fsize = FileSize => /\ Offset(t) = Home(t)
                                  /\ Size(t) = PartSize(FileSize, Threads, t)
           /\ fsize # FileSize => Offset(t) = 0 /\ Size(t) = 0
<1>1. fsize \in {0, FileSize} /\ FileSize \in Nat
  BY ConstantsAssumption DEF TypeOK, ProcessTypeOK
<1>2. /\ Offset(t) \in Nat /\ Size(t) \in Nat /\ Offset(t) + Size(t) <= fsize
  BY <1>1, ConstantsAssumption, PartInFile DEF T, Offset, Size
<1>3. Max_(t) = Offset(t) + Size(t)
  BY DEF Max_
<1>4. fsize = FileSize => Offset(t) = Home(t) /\ Size(t) = PartSize(FileSize, Threads, t)
  BY DEF Offset, Size, Home
<1> QED BY <1>1, <1>2, <1>3, <1>4

(* The components of the records.                                            *)
LEMMA Components ==
    ASSUME TypeOK, NEW t \in T
    PROVE  /\ DOMAIN w = T /\ DOMAIN conn = T /\ DOMAIN part = T
           /\ w[t] \in Thread /\ conn[t] \in Connection /\ part[t] \in PartFile
           /\ w[t].pc \in Pcs /\ w[t].i \in Int /\ w[t].n \in Nat /\ w[t].put \in BOOLEAN
           /\ w[t].got \in Int /\ w[t].ld \in Int
           /\ conn[t].rest \in Int /\ conn[t].pos \in Int /\ conn[t].left \in Nat
           /\ part[t].disk \in Nat /\ part[t].mem \in Nat /\ part[t].clean \in Nat
           /\ Held(part[t]) \in Nat
<1>1. /\ DOMAIN w = T /\ DOMAIN conn = T /\ DOMAIN part = T
      /\ w[t] \in Thread /\ conn[t] \in Connection /\ part[t] \in PartFile
  BY DEF TypeOK, DataTypeOK
<1>2. /\ w[t].pc \in Pcs /\ w[t].i \in Int /\ w[t].n \in Nat /\ w[t].put \in BOOLEAN
      /\ w[t].got \in Int /\ w[t].ld \in Int
  BY <1>1 DEF Thread
<1>3. conn[t].rest \in Int /\ conn[t].pos \in Int /\ conn[t].left \in Nat
  BY <1>1 DEF Connection
<1>4. part[t].disk \in Nat /\ part[t].mem \in Nat /\ part[t].clean \in Nat
  BY <1>1 DEF PartFile
<1>5. Held(part[t]) \in Nat
  BY <1>1, HeldType
<1> QED BY <1>1, <1>2, <1>3, <1>4, <1>5

LEMMA Nothing == /\ NoThread \in Thread /\ NoThread.pc = "none" /\ NoThread.put = FALSE
                 /\ NoThread.got = 0
                 /\ NoConn \in Connection /\ NoConn.st = "none"
                 /\ NoPart \in PartFile /\ NoPart.mem = 0 /\ Held(NoPart) = 0 /\ NoPart.clean = 0
                 /\ NoLine \in Command
BY DEF NoThread, Thread, Pcs, NoConn, Connection, NoPart, PartFile, Held, NoLine, Cmd, Command

(* A thread that begins, or is done with its part. *)
LEMMA FreshThread ==
    ASSUME NEW pc \in Pcs
    PROVE  LET new == [NoThread EXCEPT !.pc = pc] IN
           new \in Thread /\ new.pc = pc /\ new.put = FALSE /\ new.got = 0
<1> DEFINE new == [NoThread EXCEPT !.pc = pc]
<1>1. NoThread \in Thread /\ NoThread.put = FALSE /\ NoThread.got = 0
  BY Nothing
<1> QED BY <1>1 DEF Thread

(* A thread, or its connections, in a new state. *)
LEMMA ThreadReplaced ==
    ASSUME TypeOK, NEW t \in T, NEW new \in Thread, w' = [w EXCEPT ![t] = new]
    PROVE  w' \in [T -> Thread] /\ w'[t] = new /\ \A u \in T \ {t} : w'[u] = w[u]
BY DEF TypeOK, DataTypeOK

LEMMA ConnReplaced ==
    ASSUME TypeOK, NEW t \in T, NEW new \in Connection, conn' = [conn EXCEPT ![t] = new]
    PROVE  conn' \in [T -> Connection] /\ conn'[t] = new /\ \A u \in T \ {t} : conn'[u] = conn[u]
BY DEF TypeOK, DataTypeOK

(* A thread goes to another place. *)
LEMMA GotoIs ==
    ASSUME TypeOK, NEW t \in T, NEW pc \in Pcs, Goto(t, pc)
    PROVE  /\ w' \in [T -> Thread]
           /\ w'[t].pc = pc /\ w'[t].i = w[t].i /\ w'[t].n = w[t].n /\ w'[t].put = w[t].put
           /\ w'[t].got = w[t].got
           /\ \A u \in T \ {t} : w'[u] = w[u]
<1>1. w[t] \in Thread /\ DOMAIN w = T
  BY Components
<1> DEFINE new == [w[t] EXCEPT !.pc = pc]
<1>2. w' = [w EXCEPT ![t] = new]
  BY <1>1 DEF Goto
<1>3. /\ new \in Thread /\ new.pc = pc /\ new.i = w[t].i /\ new.n = w[t].n
      /\ new.put = w[t].put /\ new.got = w[t].got
  BY <1>1 DEF Thread
<1> HIDE DEF new
<1> QED BY <1>2, <1>3, ThreadReplaced

(* Where a thread goes with a new offset. *)
LEMMA ThreadMoved ==
    ASSUME TypeOK, NEW t \in T, NEW pc \in Pcs, NEW i \in Int,
           w' = [w EXCEPT ![t].pc = pc, ![t].i = i]
    PROVE  /\ w' \in [T -> Thread]
           /\ w'[t].pc = pc /\ w'[t].i = i /\ w'[t].n = w[t].n /\ w'[t].put = w[t].put
           /\ w'[t].got = w[t].got
           /\ \A u \in T \ {t} : w'[u] = w[u]
<1> DEFINE new == [[w[t] EXCEPT !.pc = pc] EXCEPT !.i = i]
<1>1. w[t] \in Thread /\ DOMAIN w = T
  BY Components
<1>2. w' = [w EXCEPT ![t] = new]
  BY <1>1
<1>3. /\ new \in Thread /\ new.pc = pc /\ new.i = i /\ new.n = w[t].n
      /\ new.put = w[t].put /\ new.got = w[t].got
  BY <1>1 DEF Thread
<1> HIDE DEF new
<1> QED BY <1>2, <1>3, ThreadReplaced

(* Its connection is closed. *)
LEMMA ClosedIs ==
    ASSUME TypeOK, NEW t \in T, conn' = [conn EXCEPT ![t] = NoConn]
    PROVE  /\ conn' \in [T -> Connection] /\ conn'[t] = NoConn
           /\ \A u \in T \ {t} : conn'[u] = conn[u]
BY Nothing, ConnReplaced

(* Its part file is closed. *)
LEMMA FileClosedIs ==
    ASSUME TypeOK, NEW t \in T, part' = [part EXCEPT ![t] = Flushed(@)]
    PROVE  /\ part' \in [T -> PartFile]
           /\ \A u \in T \ {t} : part'[u] = part[u]
           /\ Held(part'[t]) = Held(part[t]) /\ part'[t].clean = part[t].clean
           /\ part'[t].is = part[t].is /\ part'[t].mem = 0 /\ part'[t].disk = Held(part[t])
<1>1. part \in [T -> PartFile] /\ part[t] \in PartFile
  BY DEF TypeOK, DataTypeOK
<1>2. Flushed(part[t]) \in PartFile
  BY <1>1, FlushedIs
<1>3. part'[t] = Flushed(part[t])
  BY <1>1
<1>4. part' \in [T -> PartFile] /\ \A u \in T \ {t} : part'[u] = part[u]
  BY <1>1, <1>2
<1> QED BY <1>1, <1>3, <1>4, FlushedIs

(* Its part file is there.                                                   *)
LEMMA OpenedIs ==
    ASSUME TypeOK, NEW t \in T, part' = [part EXCEPT ![t].is = "file"]
    PROVE  /\ part' \in [T -> PartFile]
           /\ \A u \in T \ {t} : part'[u] = part[u]
           /\ Held(part'[t]) = Held(part[t]) /\ part'[t].clean = part[t].clean
           /\ part'[t].is = "file" /\ part'[t].mem = part[t].mem /\ part'[t].disk = part[t].disk
<1>1. part \in [T -> PartFile] /\ part[t] \in PartFile
  BY DEF TypeOK, DataTypeOK
<1>2. /\ part' \in [T -> PartFile]
      /\ \A u \in T \ {t} : part'[u] = part[u]
  BY <1>1 DEF PartFile
<1>3. /\ part'[t].clean = part[t].clean
      /\ part'[t].is = "file" /\ part'[t].mem = part[t].mem /\ part'[t].disk = part[t].disk
  BY <1>1 DEF PartFile
<1> QED BY <1>2, <1>3 DEF Held

-------------------------------------------------------------------------------
(* Threads and what they share *)

Sending == {"sendLogin", "sendRest", "sendRetr", "sendQuit"}

(* What a step of thread t does to what is shared: it disturbs the command   *)
(* and answer, or the count, of another thread only if that is noted.        *)
LinesKept(t) ==
    /\ lineMet' \in Nat /\ (lineMet' = 0 => lineMet = 0)
    /\ ~tainted' => \A u \in T \ {t} :
         w[u].pc \in OnLine => sendline' = sendline /\ recvline' = recvline
BytesKept(t) ==
    /\ bytesMet' \in Nat /\ (bytesMet' = 0 => bytesMet = 0)
    /\ bytesMet' = 0 => \A u \in T \ {t} : w[u].pc \in Counting => recvbytes' = recvbytes
Shares(t) == LinesKept(t) /\ BytesKept(t)

(* It takes the lines only if no other thread is at them.                    *)
EntersAlone(t) ==
    (~tainted' /\ w'[t].pc \in OnLine) => w[t].pc \in OnLine \/ ~Another(t, OnLine)

LEMMA Untainted ==
    ASSUME TypeOK
    PROVE  ~tainted <=> lineMet = 0 /\ bytesMet = 0
BY DEF TypeOK, FlagTypeOK, tainted

LEMMA SharesIs ==
    ASSUME TypeOK, NEW t \in T, Shares(t)
    PROVE  /\ bytesMet' = 0 => bytesMet = 0
           /\ ~tainted' => ~tainted /\ lineMet = 0 /\ bytesMet = 0 /\ lineMet' = 0 /\ bytesMet' = 0
<1>1. lineMet \in Nat /\ bytesMet \in Nat
  BY DEF TypeOK, FlagTypeOK
<1>2. lineMet' \in Nat /\ bytesMet' \in Nat
  BY DEF Shares, LinesKept, BytesKept
<1>3. (lineMet' = 0 => lineMet = 0) /\ (bytesMet' = 0 => bytesMet = 0)
  BY DEF Shares, LinesKept, BytesKept
<1>4. ~tainted' => lineMet' = 0 /\ bytesMet' = 0
  BY <1>2 DEF tainted
<1>5. lineMet = 0 /\ bytesMet = 0 => ~tainted
  BY DEF tainted
<1> QED BY <1>3, <1>4, <1>5

LEMMA LinesQuiet ==
    ASSUME TypeOK, NEW t \in T, UNCHANGED lines
    PROVE  LinesKept(t) /\ sendline' \in Command /\ recvline' \in {"none", "227", "150", "other"}
BY DEF lines, LinesKept, TypeOK, FlagTypeOK, SharedTypeOK

LEMMA BytesQuiet ==
    ASSUME TypeOK, NEW t \in T, UNCHANGED bytes
    PROVE  BytesKept(t) /\ recvbytes' \in Int
BY DEF bytes, BytesKept, TypeOK, FlagTypeOK, SharedTypeOK

(* A step that touches neither. *)
LEMMA QuietIs ==
    ASSUME TypeOK, NEW t \in T, UNCHANGED <<lines, bytes>>,
           down_size' \in Int, lock' \in T \cup {Unlocked}
    PROVE  Shares(t) /\ SharedTypeOK'
BY LinesQuiet, BytesQuiet DEF Shares, SharedTypeOK

LEMMA ReceivedIs ==
    ASSUME TypeOK, NEW t \in T, NEW r \in Int, Received(t, r)
    PROVE  BytesKept(t) /\ recvbytes' = r
<1>1. bytesMet \in Nat
  BY DEF TypeOK, FlagTypeOK
<1>2. CASE Another(t, Counting)
  BY <1>1, <1>2 DEF Received, Meets, BytesKept
<1>3. CASE ~Another(t, Counting)
  BY <1>1, <1>3 DEF Received, Meets, BytesKept, Another
<1> QED BY <1>2, <1>3

LEMMA ClearIs ==
    ASSUME TypeOK, NEW t \in T, Clear(t), BytesKept(t)
    PROVE  /\ LinesKept(t) /\ sendline' = NoLine /\ recvline' = "none"
           /\ ~tainted' => ~Another(t, OnLine)
<1>1. lineMet \in Nat /\ bytesMet' \in Nat
  BY DEF TypeOK, FlagTypeOK, BytesKept
<1>2. CASE Another(t, OnLine)
  <2>1. lineMet' = lineMet + 1
    BY <1>2 DEF Clear, Meets
  <2>2. tainted' /\ lineMet' \in Nat /\ lineMet' # 0
    BY <1>1, <2>1 DEF tainted
  <2> QED BY <2>2 DEF Clear, LinesKept
<1>3. CASE ~Another(t, OnLine)
  BY <1>1, <1>3 DEF Clear, Meets, LinesKept, Another
<1> QED BY <1>2, <1>3 DEF Clear

LEMMA MixedType ==
    ASSUME NEW a \in Command, NEW b \in Command
    PROVE  Mixed(a, b) \subseteq Command
<1> DEFINE retr == a.cmd = "retr" \/ a.more \/ b.cmd = "retr"
<1>1. retr \in BOOLEAN
  BY DEF Command
<1>2. ASSUME NEW c \in {a, b}, NEW m \in {FALSE, retr}
      PROVE  [c EXCEPT !.more = m] \in Command
  BY <1>1, <1>2 DEF Command
<1>3. NoLine \in Command /\ Cmd("junk", 0) \in Command
  BY Nothing DEF Cmd, Command
<1>4. Mixed(a, b) = {NoLine, Cmd("junk", 0)}
                      \cup {[c EXCEPT !.more = m] : c \in {a, b}, m \in {FALSE, retr}}
  BY DEF Mixed
<1> HIDE DEF retr
<1>5. ASSUME NEW x \in Mixed(a, b), x # NoLine, x # Cmd("junk", 0) PROVE x \in Command
  <2>1. PICK c \in {a, b}, m \in {FALSE, retr} : x = [c EXCEPT !.more = m]
    BY <1>4, <1>5
  <2> QED BY <1>2, <2>1
<1> QED BY <1>3, <1>5

(* A command is written, as it is meant if no other thread is at the lines.  *)
LEMMA PutIs ==
    ASSUME IInv, NEW t \in T, NEW command \in Command, NEW pc, w[t].pc \in Writing,
           Put(t, command, pc)
    PROVE  /\ LinesKept(t) /\ sendline' \in Command /\ recvline' = recvline
           /\ ~tainted' => sendline' = command
<1>1. TypeOK /\ sendline \in Command /\ w[t].pc \in OnLine
  BY DEF IInv, TypeOK, SharedTypeOK, OnLine
<1>2. /\ sendline' \in IF Another(t, OnLine) THEN Mixed(sendline, command) ELSE {command}
      /\ UNCHANGED <<recvline, lineMet, bytes>>
  BY DEF Put
<1>3. tainted' = tainted
  BY <1>2 DEF tainted, bytes
<1>4. ~tainted => ~Another(t, OnLine)
  BY <1>1 DEF IInv, AloneInv, Another
<1>5. LinesKept(t)
  BY <1>1, <1>2, <1>3, <1>4 DEF LinesKept, Another, TypeOK, FlagTypeOK
<1> QED BY <1>1, <1>2, <1>3, <1>4, <1>5, MixedType

(* What a server does with a command. *)
LEMMA RetrIs ==
    ASSUME NEW c \in Connection
    PROVE  /\ Retr(c) \in Connection /\ Retr(c).rest = c.rest
           /\ Retr(c) # c => Retr(c).pos = c.rest
           /\ (c.st = "open" /\ c.rest <= FileSize)
                => /\ Retr(c) # c /\ Retr(c).st = "sending"
                   /\ Retr(c).pos = c.rest /\ Retr(c).left = FileSize - c.rest
<1> DEFINE d == [c EXCEPT !.st = "sending", !.pos = c.rest, !.left = FileSize - c.rest]
<1>0. c.rest \in Int /\ FileSize \in Nat
  BY ConstantsAssumption DEF Connection
<1>1. CASE c.st = "open" /\ c.rest <= FileSize
  <2>1. Retr(c) = d
    BY <1>1 DEF Retr
  <2>2. /\ d.st = "sending" /\ d.rest = c.rest /\ d.pos = c.rest /\ d.left = FileSize - c.rest
    BY DEF Connection
  <2>3. FileSize - c.rest \in Nat
    BY <1>0, <1>1
  <2>4. d \in Connection
    BY <1>0, <2>3 DEF Connection
  <2> QED BY <1>1, <2>1, <2>2, <2>4
<1>2. CASE ~(c.st = "open" /\ c.rest <= FileSize)
  BY <1>2 DEF Retr
<1> QED BY <1>1, <1>2

LEMMA ServeIs ==
    ASSUME NEW c \in Connection, NEW line \in Command
    PROVE  /\ Serve(c, line) \in Connection
           /\ line = Cmd("login", 0) => Serve(c, line).st = "open" /\ Answer(c, line) = "227"
           /\ line = Cmd("rest", line.n)
                => Serve(c, line).rest = line.n /\ Serve(c, line).st = c.st
           /\ line = Cmd("retr", 0)
                => /\ Serve(c, line) = Retr(c)
                   /\ Answer(c, line) = IF Retr(c) # c THEN "150" ELSE "other"
           /\ Answer(c, line) \in {"none", "227", "150", "other"}
<1> DEFINE served == CASE line.cmd = "login" -> [c EXCEPT !.st = "open"]
                       [] line.cmd = "rest"  -> [c EXCEPT !.rest = line.n]
                       [] line.cmd = "retr"  -> Retr(c)
                       [] line.cmd = "quit"  -> NoConn
                       [] OTHER              -> c
<1>1. line.cmd \in {"none", "junk", "login", "rest", "retr", "quit"} /\ line.n \in Int
  BY DEF Command
<1>2. CASE line.cmd = "login"
  <2>1. served = [c EXCEPT !.st = "open"]
    BY <1>2
  <2> HIDE DEF served
  <2>2. served \in Connection /\ served.st = "open"
    BY <2>1 DEF Connection
  <2>3. Serve(c, line) = IF line.more THEN Retr(served) ELSE served
    BY DEF Serve, served
  <2>4. Serve(c, line) \in Connection
    BY <2>2, <2>3, RetrIs
  <2>5. line = Cmd("login", 0) => ~line.more
    BY DEF Cmd
  <2> QED BY <1>2, <2>2, <2>3, <2>4, <2>5 DEF Answer, Cmd
<1>3. CASE line.cmd = "rest"
  <2>1. served = [c EXCEPT !.rest = line.n]
    BY <1>3
  <2> HIDE DEF served
  <2>2. served \in Connection /\ served.rest = line.n /\ served.st = c.st
    BY <1>1, <2>1 DEF Connection
  <2>3. Serve(c, line) = IF line.more THEN Retr(served) ELSE served
    BY DEF Serve, served
  <2>4. Serve(c, line) \in Connection
    BY <2>2, <2>3, RetrIs
  <2>5. line = Cmd("rest", line.n) => ~line.more
    BY DEF Cmd
  <2> QED BY <1>3, <2>2, <2>3, <2>4, <2>5 DEF Answer, Cmd
<1>4. CASE line.cmd = "retr"
  <2>1. served = Retr(c)
    BY <1>4
  <2> HIDE DEF served
  <2>3. Serve(c, line) = IF line.more THEN Retr(served) ELSE served
    BY DEF Serve, served
  <2>4. Serve(c, line) \in Connection
    BY <2>1, <2>3, RetrIs
  <2>5. line = Cmd("retr", 0) => ~line.more
    BY DEF Cmd
  <2>6. Answer(c, line) = IF Retr(c) # c THEN "150" ELSE "other"
    BY <1>4 DEF Answer
  <2> QED BY <1>4, <2>1, <2>3, <2>4, <2>5, <2>6 DEF Cmd
<1>5. CASE line.cmd \in {"none", "junk", "quit"}
  <2>1. served \in {NoConn, c}
    BY <1>5
  <2> HIDE DEF served
  <2>2. served \in Connection
    BY <2>1, Nothing
  <2>3. Serve(c, line) = IF line.more THEN Retr(served) ELSE served
    BY DEF Serve, served
  <2>4. Serve(c, line) \in Connection
    BY <2>2, <2>3, RetrIs
  <2>5. Answer(c, line) = "other"
    BY <1>5 DEF Answer
  <2> QED BY <1>5, <2>4, <2>5 DEF Cmd
<1> QED BY <1>1, <1>2, <1>3, <1>4, <1>5

(* A command is sent: its thread waits for ever, or what was sent is served  *)
(* and answered.  It is its own if no other thread is at the lines.          *)
LEMMA ExchangeIs ==
    ASSUME IInv, NEW t \in T, NEW pc \in Pcs, w[t].pc \in Sending, Exchange(t, pc)
    PROVE  /\ Shares(t) /\ SharedTypeOK'
           /\ ThreadFrame /\ UNCHANGED <<down_size, lock, sendline, part, failures>>
           /\ \/ Goto(t, "hang") /\ UNCHANGED <<conn, recvline, recvbytes>>
              \/ \E line \in Command :
                   /\ Goto(t, pc)
                   /\ conn' = [conn EXCEPT ![t] = IF pc = "done" THEN NoConn ELSE Serve(@, line)]
                   /\ recvline' = Answer(conn[t], line) /\ recvbytes' > 0
                   /\ ~tainted' => line = sendline
<1>0. TypeOK /\ sendline \in Command /\ w[t].pc \in OnLine
  BY DEF IInv, TypeOK, SharedTypeOK, OnLine, Sending
<1>1. /\ ThreadFrame /\ UNCHANGED <<down_size, lock, sendline, lineMet, part, failures>>
  BY DEF Exchange
<1>2. ~tainted => ~Another(t, OnLine)
  BY <1>0 DEF IInv, AloneInv, Another
<1>3. Sent(t) \subseteq Command /\ (~tainted => Sent(t) = {sendline})
  <2>1. NoLine \in Command /\ Cmd("junk", 0) \in Command
    BY Nothing DEF Cmd, Command
  <2>2. ~tainted => ~Another(t, Writing)
    BY <1>2 DEF Another, OnLine
  <2> QED BY <1>0, <2>1, <2>2 DEF Sent
<1>4. PICK line \in Sent(t) :
        \/ line.cmd = "none" /\ Goto(t, "hang") /\ UNCHANGED <<conn, recvline, bytes>>
        \/ /\ Goto(t, pc)
           /\ conn' = [conn EXCEPT ![t] = IF pc = "done" THEN NoConn ELSE Serve(@, line)]
           /\ recvline' = Answer(conn[t], line)
           /\ \E r \in AnswerLens : Received(t, r)
  BY DEF Exchange
<1>5. line \in Command /\ (~tainted => line = sendline)
  BY <1>3, <1>4
<1>6. CASE line.cmd = "none" /\ Goto(t, "hang") /\ UNCHANGED <<conn, recvline, bytes>>
  <2>1. UNCHANGED lines /\ UNCHANGED bytes
    BY <1>1, <1>6 DEF lines
  <2>3. down_size' \in Int /\ lock' \in T \cup {Unlocked}
    BY <1>0, <1>1 DEF TypeOK, SharedTypeOK
  <2>4. Shares(t) /\ SharedTypeOK'
    BY <1>0, <2>1, <2>3, QuietIs
  <2> QED BY <1>1, <1>6, <2>4 DEF bytes
<1>7. CASE /\ Goto(t, pc)
           /\ conn' = [conn EXCEPT ![t] = IF pc = "done" THEN NoConn ELSE Serve(@, line)]
           /\ recvline' = Answer(conn[t], line)
           /\ \E r \in AnswerLens : Received(t, r)
  <2>1. PICK r \in AnswerLens : Received(t, r)
    BY <1>7
  <2>2. r \in Nat \ {0}
    BY ConstantsAssumption
  <2>3. BytesKept(t) /\ recvbytes' = r
    BY <1>0, <2>1, <2>2, ReceivedIs
  <2>4. ~tainted' => ~tainted
    <3>1. lineMet \in Nat /\ bytesMet \in Nat /\ lineMet' = lineMet
      BY <1>0, <1>1 DEF TypeOK, FlagTypeOK
    <3>2. bytesMet' \in Nat /\ (bytesMet' = 0 => bytesMet = 0)
      BY <2>3 DEF BytesKept
    <3> QED BY <3>1, <3>2 DEF tainted
  <2>5. LinesKept(t)
    BY <1>0, <1>1, <1>2, <2>4 DEF LinesKept, Another, TypeOK, FlagTypeOK
  <2>6. Answer(conn[t], line) \in {"none", "227", "150", "other"}
    BY <1>0, <1>5, Components, ServeIs
  <2>7. SharedTypeOK'
    BY <1>0, <1>1, <1>7, <2>2, <2>3, <2>6 DEF TypeOK, SharedTypeOK
  <2>8. recvbytes' > 0
    BY <2>2, <2>3
  <2> QED BY <1>1, <1>5, <1>7, <2>3, <2>4, <2>5, <2>7, <2>8 DEF Shares
<1> QED BY <1>4, <1>6, <1>7

-------------------------------------------------------------------------------
(* A step of one thread *)

(* What FrameInv says of a thread that lives. *)
FrameOf(t) ==
    /\ w[t].pc \in Starting \cup Quitting => conn[t] = NoConn
    /\ w[t].pc \in Starting \cup {"open"} => part[t].mem = 0

(* What OffsetInv, CleanInv and WholeInv say of a thread lasts while others  *)
(* step and disturb nothing of its.                                          *)
LEMMA Untouched ==
    ASSUME NEW t \in T, NEW u \in T \ {t}, UNCHANGED <<mpc, fsize>>,
           w'[u] = w[u], conn'[u] = conn[u], part'[u] = part[u], Shares(t)
    PROVE  /\ (bytesMet' = 0 /\ OffsetInv(u)) => OffsetInv(u)'
           /\ (~tainted' /\ CleanInv(u)) => CleanInv(u)'
           /\ (~tainted' /\ bytesMet' = 0 /\ recvbytes' >= 0 /\ WholeInv(u)) => WholeInv(u)'
<1>1. Offset(u)' = Offset(u) /\ Size(u)' = Size(u) /\ Max_(u)' = Max_(u)
  BY DEF Offset, Size, Max_
<1>2. Held(part[u])' = Held(part[u])
  BY DEF Held
<1>3. bytesMet' = 0 /\ w[u].pc \in Counting => recvbytes' = recvbytes
  BY DEF Shares, BytesKept
<1>4. ~tainted' /\ w[u].pc \in OnLine => sendline' = sendline /\ recvline' = recvline
  BY DEF Shares, LinesKept
<1>5. ASSUME bytesMet' = 0, OffsetInv(u) PROVE OffsetInv(u)'
  BY <1>1, <1>2, <1>3, <1>5 DEF OffsetInv, Counting
<1>6. ASSUME ~tainted', CleanInv(u) PROVE CleanInv(u)'
  BY <1>1, <1>2, <1>4, <1>6 DEF CleanInv, OnLine
<1>7. ASSUME ~tainted', bytesMet' = 0, recvbytes' >= 0, WholeInv(u) PROVE WholeInv(u)'
  BY <1>1, <1>3, <1>4, <1>7 DEF WholeInv, Complete, OnLine, Counting
<1> QED BY <1>5, <1>6, <1>7

(* The invariant after a step of thread t that touches nothing that belongs  *)
(* to another.                                                               *)
LEMMA StepOfOne ==
    ASSUME IInv, NEW t \in T, w[t].pc # "none", ThreadFrame,
           w' \in [T -> Thread], conn' \in [T -> Connection], part' \in [T -> PartFile],
           \A u \in T \ {t} : w'[u] = w[u] /\ conn'[u] = conn[u] /\ part'[u] = part[u],
           Shares(t), SharedTypeOK', EntersAlone(t),
           failures' \in 0 .. MaxFailures, failures' = 0 => failures = 0,
           FrameOf(t)', bytesMet' = 0 => OffsetInv(t)', ~tainted' => CleanInv(t)',
           (~tainted' /\ failures' = 0) => WholeInv(t)'
    PROVE  IInv'
<1>0. TypeOK /\ UNCHANGED <<mpc, fsize, idx, tempDir, md5, target, runs>>
  BY DEF IInv, ThreadFrame
<1>1. TypeOK'
  BY <1>0 DEF Shares, LinesKept, BytesKept,
              TypeOK, ProcessTypeOK, DataTypeOK, FilesTypeOK, FlagTypeOK
<1>2. mpc = "create" /\ ~(t >= idx)
  BY Nothing DEF IInv, FrameInv
<1>3. FrameInv'
  <2> SUFFICES ASSUME NEW u \in T
               PROVE  /\ (mpc' # "create" \/ u >= idx') => w'[u] = NoThread
                      /\ w'[u].pc \in Starting \cup Quitting => conn'[u] = NoConn
                      /\ (mpc' # "merge" /\ w'[u].pc \in Starting \cup {"open"})
                           => part'[u].mem = 0
    BY DEF FrameInv
  <2>1. CASE u = t
    BY <1>0, <1>2, <2>1 DEF FrameOf
  <2>2. CASE u # t
    BY <1>0, <2>2 DEF IInv, FrameInv
  <2> QED BY <2>1, <2>2
<1>4. ASSUME bytesMet' = 0, NEW u \in T PROVE OffsetInv(u)'
  <2>1. CASE u = t
    BY <1>4, <2>1
  <2>2. CASE u # t
    <3>1. OffsetInv(u)
      BY <1>0, <1>4, SharesIs DEF IInv
    <3> QED BY <1>0, <1>4, <2>2, <3>1, Untouched
  <2> QED BY <2>1, <2>2
<1>5. ASSUME ~tainted' PROVE AloneInv' /\ \A u \in T : CleanInv(u)'
  <2>0. ~tainted
    BY <1>0, <1>5, SharesIs
  <2>1. AloneInv'
    <3> SUFFICES ASSUME NEW u \in T, NEW v \in T, w'[u].pc \in OnLine, w'[v].pc \in OnLine, u # v
                 PROVE  FALSE
      BY DEF AloneInv
    <3>1. \A x, y \in T : w[x].pc \in OnLine /\ w[y].pc \in OnLine => x = y
      BY <2>0 DEF IInv, AloneInv
    <3>2. u # t => w[u].pc \in OnLine
      OBVIOUS
    <3>3. v # t => w[v].pc \in OnLine
      OBVIOUS
    <3> QED BY <1>5, <3>1, <3>2, <3>3 DEF EntersAlone, Another
  <2>2. ASSUME NEW u \in T PROVE CleanInv(u)'
    <3>1. CASE u = t
      BY <1>5, <3>1
    <3>2. CASE u # t
      <4>1. CleanInv(u)
        BY <2>0 DEF IInv
      <4> QED BY <1>0, <1>5, <3>2, <4>1, Untouched
    <3> QED BY <3>1, <3>2
  <2> QED BY <2>1, <2>2
<1>6. ASSUME ~tainted', failures' = 0 PROVE MergeInv' /\ \A u \in T : WholeInv(u)'
  <2>0. ~tainted /\ failures = 0 /\ bytesMet' = 0
    BY <1>0, <1>6, SharesIs
  <2>1. MergeInv'
    BY <1>0, <1>2 DEF MergeInv
  <2>2. recvbytes' >= 0
    BY <1>6 DEF WholeInv
  <2>3. ASSUME NEW u \in T PROVE WholeInv(u)'
    <3>1. CASE u = t
      BY <1>6, <3>1
    <3>2. CASE u # t
      <4>1. WholeInv(u)
        BY <2>0 DEF IInv
      <4> QED BY <1>0, <1>6, <2>0, <2>2, <3>2, <4>1, Untouched
    <3> QED BY <3>1, <3>2
  <2> QED BY <2>1, <2>3
<1> QED BY <1>1, <1>3, <1>4, <1>5, <1>6 DEF IInv

(* What is known of a thread that lives, before its step. *)
LEMMA Living ==
    ASSUME IInv, NEW t \in T, w[t].pc # "none"
    PROVE  /\ mpc = "create" /\ FrameOf(t)
           /\ bytesMet = 0 => OffsetInv(t)
           /\ ~tainted => bytesMet = 0 /\ OffsetInv(t) /\ CleanInv(t)
           /\ (~tainted /\ failures = 0) => WholeInv(t) /\ fsize = FileSize
           /\ down_size \in Int /\ lock \in T \cup {Unlocked} /\ failures \in 0 .. MaxFailures
           /\ sendline \in Command /\ recvline \in {"none", "227", "150", "other"}
           /\ recvbytes \in Int
<1>0. TypeOK
  BY DEF IInv
<1>1. mpc = "create"
  BY Nothing DEF IInv, FrameInv
<1>2. FrameOf(t)
  BY <1>1 DEF IInv, FrameInv, FrameOf
<1>3. /\ down_size \in Int /\ lock \in T \cup {Unlocked} /\ failures \in 0 .. MaxFailures
      /\ sendline \in Command /\ recvline \in {"none", "227", "150", "other"}
      /\ recvbytes \in Int
  BY <1>0 DEF TypeOK, SharedTypeOK, ProcessTypeOK
<1>4. /\ bytesMet = 0 => OffsetInv(t)
      /\ ~tainted => bytesMet = 0 /\ OffsetInv(t) /\ CleanInv(t)
      /\ (~tainted /\ failures = 0) => WholeInv(t)
  BY <1>0, Untainted DEF IInv
<1> QED BY <1>1, <1>2, <1>3, <1>4 DEF WholeInv

(* The same, for a step that disturbs no other thread, or was not disturbed. *)
LEMMA LivingNow ==
    ASSUME IInv, NEW t \in T, w[t].pc # "none", Shares(t), failures' = 0 => failures = 0
    PROVE  /\ bytesMet' = 0 => bytesMet = 0 /\ OffsetInv(t)
           /\ ~tainted' => /\ ~tainted /\ bytesMet = 0 /\ bytesMet' = 0
                           /\ OffsetInv(t) /\ CleanInv(t)
           /\ (~tainted' /\ failures' = 0) => WholeInv(t) /\ fsize = FileSize /\ failures = 0
<1>1. TypeOK
  BY DEF IInv
<1> QED BY <1>1, Living, SharesIs

LEMMA SameOffsets ==
    ASSUME NEW t \in T, fsize' = fsize
    PROVE  Offset(t)' = Offset(t) /\ Size(t)' = Size(t) /\ Max_(t)' = Max_(t)
BY DEF Offset, Size, Max_

(* A thread that leaves ftp_retr, for QUIT. *)
LEMMA LeaveStep ==
    ASSUME IInv, NEW t \in T, w[t].pc \notin {"none"}, Leave(t),
           part' \in [T -> PartFile], \A u \in T \ {t} : part'[u] = part[u],
           Held(part'[t]) = Held(part[t]), part'[t].clean = part[t].clean,
           (~tainted /\ failures = 0) => part'[t].is = "file" /\ Complete(t)'
    PROVE  IInv'
<1> DEFINE new == [NoThread EXCEPT !.pc = "quit"]
<1>0. TypeOK
  BY DEF IInv
<1>1. /\ w' = [w EXCEPT ![t] = new] /\ conn' = [conn EXCEPT ![t] = NoConn]
      /\ ThreadFrame /\ UNCHANGED <<down_size, lock, lines, bytes, failures>>
  BY DEF Leave
<1>2. new \in Thread /\ new.pc = "quit" /\ new.put = FALSE
  <2>1. "quit" \in Pcs
    BY DEF Pcs
  <2> QED BY <2>1, FreshThread
<1> HIDE DEF new
<1>3. w' \in [T -> Thread] /\ w'[t] = new /\ \A u \in T \ {t} : w'[u] = w[u]
  BY <1>0, <1>1, <1>2, ThreadReplaced
<1>4. conn' \in [T -> Connection] /\ conn'[t] = NoConn /\ \A u \in T \ {t} : conn'[u] = conn[u]
  BY <1>0, <1>1, ClosedIs
<1>5. down_size' \in Int /\ lock' \in T \cup {Unlocked} /\ failures' \in 0 .. MaxFailures
  BY <1>1, Living
<1>6. Shares(t) /\ SharedTypeOK'
  BY <1>0, <1>1, <1>5, QuietIs
<1>7. EntersAlone(t)
  BY <1>2, <1>3 DEF EntersAlone, OnLine, Writing
<1>8. FrameOf(t)'
  BY <1>2, <1>3, <1>4 DEF FrameOf, Starting
<1>9. bytesMet' = 0 => OffsetInv(t)'
  BY <1>1, <1>2, <1>3, <1>6, LivingNow DEF OffsetInv, Asking
<1>10. ~tainted' => CleanInv(t)'
  BY <1>1, <1>2, <1>3, <1>6, LivingNow DEF CleanInv
<1>11. ASSUME ~tainted', failures' = 0 PROVE WholeInv(t)'
  <2>1. WholeInv(t) /\ fsize = FileSize /\ ~tainted /\ failures = 0
    BY <1>1, <1>6, <1>11, LivingNow
  <2>2. recvbytes' >= 0 /\ fsize' = FileSize /\ mpc' = mpc
    BY <1>1, <2>1 DEF WholeInv, bytes, ThreadFrame
  <2>3. Complete(t)' /\ part'[t].is = "file"
    BY <2>1
  <2> QED BY <1>2, <1>3, <1>4, <2>2, <2>3, Nothing DEF WholeInv, Asking, Counting, Starting
<1> QED BY <1>1, <1>3, <1>4, <1>5, <1>6, <1>7, <1>8, <1>9, <1>10, <1>11, StepOfOne

-------------------------------------------------------------------------------
(* The process *)

(* The invariant after a step that leaves no thread and nothing buffered.    *)
LEMMA IdleStep ==
    ASSUME IInv, TypeOK', mpc' # "merge",
           \A t \in T : /\ w'[t] = NoThread /\ conn'[t] = NoConn
                        /\ part'[t] \in PartFile /\ part'[t].mem = 0
                        /\ Held(part'[t]) <= Held(part[t])
                        /\ part[t].clean = Held(part[t]) => part'[t].clean = Held(part'[t]),
           UNCHANGED <<lineMet, bytesMet>>, failures' = 0 => failures = 0,
           recvbytes >= 0 => recvbytes' >= 0,
           (~tainted /\ failures' = 0) => /\ mpc' = "create" => fsize' = FileSize
                                          /\ mpc' = "done" => Whole'
    PROVE  IInv'
<1>0. TypeOK
  BY DEF IInv
<1>1. FrameInv'
  BY DEF FrameInv
<1>n. \A t \in T : w'[t].pc = "none" /\ w'[t].put = FALSE
  BY Nothing
<1>t. tainted' = tainted
  BY DEF tainted
<1>2. ASSUME bytesMet' = 0, NEW t \in T PROVE OffsetInv(t)'
  <2>1. Held(part[t]) \in Nat /\ Held(part'[t]) \in Nat
    BY <1>0, Components, HeldType
  <2>2. Held(part[t]) <= PartSize(FileSize, Threads, t)
    BY <1>2 DEF IInv, OffsetInv
  <2>3. Held(part'[t]) <= PartSize(FileSize, Threads, t)
    BY <2>1, <2>2, PartTypes
  <2> QED BY <1>n, <2>3 DEF OffsetInv, Asking
<1>3. ASSUME ~tainted' PROVE AloneInv' /\ \A t \in T : CleanInv(t)'
  <2>1. AloneInv'
    BY <1>n DEF AloneInv, OnLine, Writing
  <2>2. ASSUME NEW t \in T PROVE CleanInv(t)'
    <3>1. part'[t].clean = Held(part'[t])
      BY <1>t, <1>3 DEF IInv, CleanInv
    <3> QED BY <1>n, <3>1 DEF CleanInv
  <2> QED BY <2>1, <2>2
<1>4. ASSUME ~tainted', failures' = 0 PROVE MergeInv' /\ \A t \in T : WholeInv(t)'
  <2>1. MergeInv'
    BY <1>t, <1>4 DEF MergeInv
  <2>2. ASSUME NEW t \in T PROVE WholeInv(t)'
    <3>1. recvbytes' >= 0
      BY <1>t, <1>4 DEF IInv, WholeInv
    <3> QED BY <1>n, <1>t, <1>4, <3>1, Nothing
            DEF WholeInv, Asking, Counting, Starting, Quitting
  <2> QED BY <2>1, <2>2
<1> QED BY <1>1, <1>2, <1>3, <1>4 DEF IInv

Md5States == {"none", "empty", "cut", "digest", "right", "spoiled"}

(* The process is killed, or exits and stdio writes out what is buffered.    *)
LEMMA GoneStep ==
    ASSUME IInv, mpc' = "dead", fsize' = 0, idx' = 0, down_size' = 0, lock' = Unlocked,
           sendline' = NoLine, recvline' = "none", recvbytes' = 0,
           w' = [t \in T |-> NoThread], conn' = [t \in T |-> NoConn],
           \/ part' = [t \in T |-> Unflushed(part[t])]
           \/ part' = [t \in T |-> Flushed(part[t])],
           md5' \in Md5States,
           failures' \in 0 .. MaxFailures, failures' = 0 => failures = 0,
           UNCHANGED <<tempDir, target, runs, lineMet, bytesMet>>
    PROVE  IInv'
<1>0. TypeOK
  BY DEF IInv
<1>1. ASSUME NEW t \in T
      PROVE  /\ part'[t] \in PartFile /\ part'[t].mem = 0
             /\ Held(part'[t]) <= Held(part[t])
             /\ part[t].clean = Held(part[t]) => part'[t].clean = Held(part'[t])
  <2>1. part[t] \in PartFile /\ Held(part[t]) \in Nat
    BY <1>0, Components
  <2>2. CASE part'[t] = Unflushed(part[t])
    BY <2>1, <2>2, UnflushedIs
  <2>3. CASE part'[t] = Flushed(part[t])
    BY <2>1, <2>3, FlushedIs
  <2> QED BY <2>2, <2>3
<1>2. DataTypeOK'
  <2>1. part' \in [T -> PartFile]
    BY <1>1
  <2> QED BY <2>1, Nothing DEF DataTypeOK
<1>3. ProcessTypeOK' /\ SharedTypeOK' /\ FilesTypeOK' /\ FlagTypeOK'
  BY <1>0, Nothing, ConstantsAssumption
     DEF TypeOK, ProcessTypeOK, SharedTypeOK, FilesTypeOK, FlagTypeOK, Md5States
<1>4. TypeOK'
  BY <1>2, <1>3 DEF TypeOK
<1>5. \A t \in T : w'[t] = NoThread /\ conn'[t] = NoConn
  OBVIOUS
<1>6. recvbytes' >= 0
  OBVIOUS
<1> QED BY <1>1, <1>4, <1>5, <1>6, IdleStep

LEMMA DieKeeps == IInv /\ Die => IInv'
<1> SUFFICES ASSUME IInv, Die PROVE IInv'
  OBVIOUS
<1>1. md5 \in Md5States /\ failures \in 0 .. MaxFailures
  BY DEF IInv, TypeOK, FilesTypeOK, ProcessTypeOK, Md5States
<1> QED BY <1>1, GoneStep DEF Die, Gone

(* Between processes and before its threads a process has nothing under way. *)
LEMMA Idle ==
    ASSUME IInv, mpc \notin {"create", "merge"}
    PROVE  \A t \in T : w[t] = NoThread /\ conn[t] = NoConn /\ part[t].mem = 0
BY Nothing DEF IInv, FrameInv, Starting

(* A step that leaves threads, connections and part files alone. *)
LEMMA IdleQuiet ==
    ASSUME IInv, TypeOK', mpc \notin {"create", "merge"}, mpc' # "merge",
           UNCHANGED <<w, conn, part, recvbytes, lineMet, bytesMet>>,
           failures' = 0 => failures = 0,
           (~tainted /\ failures' = 0) => /\ mpc' = "create" => fsize' = FileSize
                                          /\ mpc' = "done" => Whole'
    PROVE  IInv'
<1>0. TypeOK
  BY DEF IInv
<1>1. \A t \in T : /\ w'[t] = NoThread /\ conn'[t] = NoConn
                   /\ part'[t] \in PartFile /\ part'[t].mem = 0
                   /\ Held(part'[t]) <= Held(part[t])
                   /\ part[t].clean = Held(part[t]) => part'[t].clean = Held(part'[t])
  BY <1>0, Idle, Components
<1> QED BY <1>1, IdleStep

(* The bytes of all parts together are a number. *)
LEMMA HeldInAllType == TypeOK => HeldInAll \in Nat
<1> SUFFICES ASSUME TypeOK PROVE HeldInAll \in Nat
  OBVIOUS
<1> DEFINE held == [t \in T |-> Held(part[t])]
<1>1. \A i \in 0 .. Threads - 1 : held[i] \in Nat
  BY Components DEF T, Parts
<1> HIDE DEF held
<1>2. Total(held, Threads) \in Nat
  BY <1>1, TotalType, ConstantsAssumption
<1> QED BY <1>2 DEF HeldInAll, held

LEMMA SpawnKeeps == IInv /\ Spawn => IInv'
<1> SUFFICES ASSUME IInv, Spawn PROVE IInv'
  OBVIOUS
<1>0. HeldInAll \in Nat
  BY HeldInAllType DEF IInv
<1>1. TypeOK'
  BY <1>0, ConstantsAssumption
     DEF IInv, Spawn, lines, bytes,
         TypeOK, ProcessTypeOK, SharedTypeOK, DataTypeOK, FilesTypeOK, FlagTypeOK
<1>2. mpc \notin {"create", "merge"} /\ mpc' = "md5"
  BY DEF Spawn, Ended
<1> QED BY <1>1, <1>2, IdleQuiet DEF Spawn, lines, bytes

(* The thread that fetches the md5 file, whatever comes of it. *)
LEMMA Md5Keeps ==
    ASSUME IInv, FetchMd5 \/ FetchMd5Fails \/ SizeNotLearnt
    PROVE  IInv'
<1>1. /\ mpc = "md5" /\ mpc' \in {"create", "spin"}
      /\ fsize' \in {0, FileSize}
      /\ md5' \in Md5States
      /\ failures' \in 0 .. MaxFailures
      /\ failures' = 0 => failures = 0 /\ fsize' = FileSize
      /\ tempDir' \in BOOLEAN
      /\ Md5Frame
  <2>0. /\ md5 \in Md5States
        /\ fsize \in {0, FileSize} /\ failures \in 0 .. MaxFailures /\ tempDir \in BOOLEAN
    BY DEF IInv, TypeOK, FilesTypeOK, ProcessTypeOK, FlagTypeOK, Md5States
  <2>1. CASE FetchMd5
    BY <2>0, <2>1 DEF FetchMd5, Fetched, Md5States
  <2>2. CASE FetchMd5Fails
    <3>1. md5' \in Md5States
      <4>1. CASE md5 \in {"none", "empty"}
        BY <2>2, <4>1 DEF FetchMd5Fails, Md5States
      <4>2. CASE md5 = "cut"
        BY <2>2, <4>2 DEF FetchMd5Fails, Md5States
      <4>3. CASE md5 \notin {"none", "empty", "cut"}
        <5>1. md5' \in {md5}
          BY <2>2, <4>3 DEF FetchMd5Fails
        <5> QED BY <2>0, <5>1
      <4> QED BY <4>1, <4>2, <4>3
    <3>2. /\ mpc = "md5" /\ fsize' = FileSize /\ failures' = failures + 1
          /\ failures < MaxFailures /\ Md5Frame
          /\ mpc' \in {"create", "spin"} /\ tempDir' \in BOOLEAN
      BY <2>0, <2>2 DEF FetchMd5Fails
    <3> QED BY <2>0, <3>1, <3>2, ConstantsAssumption
  <2>3. CASE SizeNotLearnt
    BY <2>0, <2>3, ConstantsAssumption DEF SizeNotLearnt, Fetched, Md5States
  <2> QED BY <2>1, <2>2, <2>3
<1>2. /\ UNCHANGED <<idx, down_size, lock, sendline, recvline, recvbytes, lineMet, bytesMet>>
      /\ UNCHANGED <<w, conn, part, target, runs>>
  BY <1>1 DEF Md5Frame, lines, bytes
<1>3. TypeOK'
  BY <1>1, <1>2
     DEF IInv, TypeOK, ProcessTypeOK, SharedTypeOK, DataTypeOK, FilesTypeOK, FlagTypeOK, Md5States
<1>4. mpc \notin {"create", "merge"} /\ mpc' # "merge" /\ mpc' # "done"
  BY <1>1
<1> QED BY <1>1, <1>2, <1>3, <1>4, IdleQuiet

LEMMA Md5ExitsKeeps == IInv /\ FetchMd5Exits => IInv'
<1> SUFFICES ASSUME IInv, FetchMd5Exits PROVE IInv'
  OBVIOUS
<1>1. /\ md5' \in Md5States
      /\ failures' \in 0 .. MaxFailures /\ (failures' = 0 => failures = 0)
  BY ConstantsAssumption DEF IInv, TypeOK, FilesTypeOK, ProcessTypeOK, FetchMd5Exits, Md5States
<1> QED BY <1>1, GoneStep DEF FetchMd5Exits, Exit, Gone

LEMMA PasvFailsKeeps == ASSUME IInv, NEW t \in T, PasvFails(t) PROVE IInv'
<1>1. /\ md5' \in Md5States
      /\ failures' \in 0 .. MaxFailures /\ (failures' = 0 => failures = 0)
  BY ConstantsAssumption DEF IInv, TypeOK, FilesTypeOK, ProcessTypeOK, PasvFails, Md5States
<1> QED BY <1>1, GoneStep DEF PasvFails, Exit, Gone

-------------------------------------------------------------------------------
(* The main thread *)

(* The types of what no main step changes, while it creates and merges. *)
LEMMA MainType ==
    ASSUME IInv, MainFrame, UNCHANGED <<down_size, md5, failures>>,
           mpc' \in {"create", "merge", "done"}, idx' \in 0 .. Threads,
           w' \in [T -> Thread], part' \in [T -> PartFile],
           target' \in [len : Nat, clean : Nat], tempDir' \in BOOLEAN
    PROVE  TypeOK'
BY DEF IInv, MainFrame, lines, bytes,
       TypeOK, ProcessTypeOK, SharedTypeOK, DataTypeOK, FilesTypeOK, FlagTypeOK

LEMMA MainQuiet ==
    ASSUME MainFrame
    PROVE  UNCHANGED <<fsize, conn, sendline, recvline, recvbytes, lineMet, bytesMet, tainted>>
BY DEF MainFrame, lines, bytes, tainted

LEMMA CreateThreadKeeps == IInv /\ CreateThread => IInv'
<1> SUFFICES ASSUME IInv, CreateThread PROVE IInv'
  OBVIOUS
<1> DEFINE new == [NoThread EXCEPT !.pc = "connect"]
<1>0. TypeOK /\ idx \in T /\ idx \in Nat
  BY PartTypes DEF IInv, TypeOK, ProcessTypeOK, CreateThread
<1>1. /\ mpc = "create" /\ idx < Threads /\ idx' = idx + 1 /\ w' = [w EXCEPT ![idx] = new]
      /\ MainFrame /\ UNCHANGED <<mpc, down_size, part, tempDir, md5, target, failures>>
  BY DEF CreateThread
<1>2. new \in Thread /\ new.pc = "connect" /\ new.put = FALSE
  <2>1. "connect" \in Pcs
    BY DEF Pcs
  <2> QED BY <2>1, FreshThread
<1> HIDE DEF new
<1>3. /\ w' \in [T -> Thread] /\ w'[idx] = new /\ \A u \in T \ {idx} : w'[u] = w[u]
  BY <1>0, <1>1, <1>2 DEF TypeOK, DataTypeOK
<1>4. TypeOK'
  <2>1. /\ part' \in [T -> PartFile] /\ idx' \in 0 .. Threads
        /\ target' \in [len : Nat, clean : Nat] /\ tempDir' \in BOOLEAN
    BY <1>0, <1>1, ConstantsAssumption
       DEF TypeOK, DataTypeOK, ProcessTypeOK, FilesTypeOK, FlagTypeOK
  <2> QED BY <1>1, <1>3, <2>1, MainType
<1>q. UNCHANGED <<fsize, conn, sendline, recvline, recvbytes, lineMet, bytesMet, tainted>>
  BY <1>1, MainQuiet
<1>5. conn[idx] = NoConn /\ part[idx].mem = 0 /\ w[idx] = NoThread
  BY <1>0, <1>1, Nothing DEF IInv, FrameInv, Starting
<1>6. FrameInv'
  <2> SUFFICES ASSUME NEW u \in T
               PROVE  /\ (mpc' # "create" \/ u >= idx') => w'[u] = NoThread
                      /\ w'[u].pc \in Starting \cup Quitting => conn'[u] = NoConn
                      /\ (mpc' # "merge" /\ w'[u].pc \in Starting \cup {"open"})
                           => part'[u].mem = 0
    BY DEF FrameInv
  <2>1. CASE u = idx
    BY <1>0, <1>1, <1>q, <1>5, <2>1
  <2>2. CASE u # idx
    <3>1. w'[u] = w[u] /\ conn'[u] = conn[u] /\ part'[u] = part[u]
      BY <1>1, <1>3, <1>q, <2>2
    <3>2. u >= idx' => u >= idx
      BY <1>0, <1>1, PartTypes
    <3> QED BY <1>1, <3>1, <3>2 DEF IInv, FrameInv
  <2> QED BY <2>1, <2>2
<1>7. ASSUME NEW u \in T, u # idx
      PROVE  UNCHANGED <<mpc, fsize>> /\ w'[u] = w[u] /\ conn'[u] = conn[u] /\ part'[u] = part[u]
  BY <1>1, <1>3, <1>q, <1>7
<1>s. Shares(idx)
  BY <1>0, <1>q, LinesQuiet, BytesQuiet DEF Shares, lines, bytes
<1>8. ASSUME NEW u \in T
      PROVE  /\ bytesMet' = 0 => OffsetInv(u)'
             /\ ~tainted' => CleanInv(u)'
             /\ (~tainted' /\ failures' = 0) => WholeInv(u)'
  <2>1. CASE u = idx
    <3>1. w'[u].pc = "connect" /\ w'[u].put = FALSE /\ part' = part
      BY <1>1, <1>2, <1>3, <2>1
    <3>2. bytesMet' = 0 => OffsetInv(u)'
      BY <1>q, <3>1 DEF IInv, OffsetInv, Asking
    <3>3. ~tainted' => CleanInv(u)'
      BY <1>q, <3>1 DEF IInv, CleanInv
    <3>4. (~tainted' /\ failures' = 0) => WholeInv(u)'
      BY <1>1, <1>q, <3>1 DEF IInv, WholeInv, Asking, Counting, Starting, Quitting
    <3> QED BY <3>2, <3>3, <3>4
  <2>2. CASE u # idx
    <3>1. u \in T \ {idx}
      BY <2>2
    <3>2. bytesMet' = 0 => OffsetInv(u)'
      BY <1>0, <1>7, <1>q, <1>s, <2>2, <3>1, Untouched DEF IInv
    <3>3. ~tainted' => CleanInv(u)'
      BY <1>0, <1>7, <1>q, <1>s, <2>2, <3>1, Untouched DEF IInv
    <3>4. ASSUME ~tainted', failures' = 0 PROVE WholeInv(u)'
      <4>1. WholeInv(u) /\ bytesMet' = 0
        BY <1>0, <1>1, <1>q, <1>s, <3>4, SharesIs DEF IInv
      <4>2. recvbytes' >= 0
        BY <1>q, <4>1 DEF WholeInv
      <4> QED BY <1>0, <1>7, <1>s, <2>2, <3>1, <3>4, <4>1, <4>2, Untouched
    <3> QED BY <3>2, <3>3, <3>4
  <2> QED BY <2>1, <2>2
<1>9. ~tainted' => AloneInv'
  <2>1. \A u \in T : w'[u].pc \in OnLine => w[u].pc \in OnLine
    BY <1>2, <1>3 DEF OnLine, Writing
  <2> QED BY <1>q, <2>1 DEF IInv, AloneInv
<1>10. MergeInv'
  BY <1>1 DEF MergeInv
<1> QED BY <1>4, <1>6, <1>8, <1>9, <1>10 DEF IInv

LEMMA JoinKeeps == IInv /\ Join => IInv'
<1> SUFFICES ASSUME IInv, Join PROVE IInv'
  OBVIOUS
<1>0. TypeOK
  BY DEF IInv
<1>1. /\ mpc = "create" /\ mpc' = "merge" /\ idx' = 0
      /\ \A t \in T : w[t].pc = "done"
      /\ target' = [len |-> 0, clean |-> 0] /\ w' = [t \in T |-> NoThread]
      /\ MainFrame /\ UNCHANGED <<down_size, part, tempDir, md5, failures>>
  BY DEF Join
<1>2. TypeOK'
  <2>1. /\ part' \in [T -> PartFile] /\ idx' \in 0 .. Threads
        /\ w' \in [T -> Thread]
        /\ target' \in [len : Nat, clean : Nat] /\ tempDir' \in BOOLEAN
    BY <1>0, <1>1, Nothing, ConstantsAssumption DEF TypeOK, DataTypeOK, FlagTypeOK
  <2> QED BY <1>1, <2>1, MainType
<1>q. UNCHANGED <<fsize, conn, sendline, recvline, recvbytes, lineMet, bytesMet, tainted>>
  BY <1>1, MainQuiet
<1>3. \A t \in T : /\ w'[t] = NoThread /\ w'[t].pc = "none" /\ w'[t].put = FALSE
                   /\ conn'[t] = conn[t] /\ conn[t] = NoConn
  BY <1>1, <1>q, Nothing DEF IInv, FrameInv, Quitting
<1>4. FrameInv'
  BY <1>1, <1>3 DEF FrameInv
<1>5. ~tainted => AloneInv'
  BY <1>3 DEF AloneInv, OnLine, Writing
<1>6. \A t \in T : (bytesMet = 0 => OffsetInv(t)') /\ (~tainted => CleanInv(t)')
  BY <1>1, <1>3 DEF IInv, OffsetInv, CleanInv, Asking
<1>7. ASSUME ~tainted, failures = 0 PROVE MergeInv' /\ \A t \in T : WholeInv(t)'
  <2>1. ASSUME NEW t \in T PROVE WholeInv(t)'
    <3>1. Complete(t)
      BY <1>1, <1>7 DEF IInv, WholeInv, Quitting
    <3>2. recvbytes' >= 0
      BY <1>7, <1>q DEF IInv, WholeInv
    <3>3. Complete(t)'
      BY <1>1, <3>1 DEF Complete
    <3> QED BY <1>1, <1>3, <3>2, <3>3, Nothing
            DEF WholeInv, Asking, Counting, Starting, Quitting
  <2>2. 0 < Threads /\ Home(0) = 0
    <3>1. FileSize \div Threads \in Nat
      BY ConstantsAssumption, DivBounds
    <3> QED BY <3>1, ConstantsAssumption DEF Home, PartStart
  <2>3. MergeInv'
    BY <1>1, <2>2 DEF MergeInv
  <2> QED BY <2>1, <2>3
<1>8. tainted' = tainted /\ bytesMet' = bytesMet /\ failures' = failures
  BY <1>1, <1>q
<1> QED BY <1>2, <1>4, <1>5, <1>6, <1>7, <1>8 DEF IInv

LEMMA MergePartKeeps == IInv /\ MergePart => IInv'
<1> SUFFICES ASSUME IInv, MergePart PROVE IInv'
  OBVIOUS
<1> DEFINE p == Unflushed(part[idx])
           clean == IF target.clean = target.len /\ target.len = Home(idx)
                    THEN target.clean + p.clean ELSE target.clean
<1>0. TypeOK /\ idx \in T /\ idx \in Nat
  BY PartTypes DEF IInv, TypeOK, ProcessTypeOK, MergePart
<1>1. /\ mpc = "merge" /\ idx < Threads /\ idx' = idx + 1
      /\ target' = [len |-> target.len + p.disk, clean |-> clean]
      /\ MainFrame /\ UNCHANGED <<mpc, down_size, w, part, tempDir, md5, failures>>
  BY DEF MergePart
<1>2. /\ p \in PartFile /\ p.disk = part[idx].disk
      /\ part[idx].clean = Held(part[idx]) => p.clean = part[idx].disk
  BY <1>0, Components, UnflushedIs
<1>3. p.disk \in Nat /\ p.clean \in Nat
  BY <1>2 DEF PartFile
<1> HIDE DEF p
<1>4. target.len \in Nat /\ target.clean \in Nat
  BY <1>0 DEF TypeOK, FilesTypeOK
<1>5. TypeOK'
  <2>1. /\ part' \in [T -> PartFile] /\ idx' \in 0 .. Threads
        /\ w' \in [T -> Thread] /\ tempDir' \in BOOLEAN
    BY <1>0, <1>1, ConstantsAssumption DEF TypeOK, DataTypeOK, FlagTypeOK
  <2>2. target' \in [len : Nat, clean : Nat]
    BY <1>1, <1>3, <1>4
  <2> QED BY <1>1, <2>1, <2>2, MainType
<1>q. UNCHANGED <<fsize, conn, sendline, recvline, recvbytes, lineMet, bytesMet, tainted>>
  BY <1>1, MainQuiet
<1>7. \A t \in T : w[t] = NoThread /\ w[t].pc = "none" /\ w[t].put = FALSE
  BY <1>1, Nothing DEF IInv, FrameInv
<1>6. FrameInv' /\ (~tainted => AloneInv')
  <2>1. FrameInv'
    BY <1>1, <1>q DEF IInv, FrameInv
  <2>2. ~tainted => AloneInv'
    BY <1>1 DEF IInv, AloneInv
  <2> QED BY <2>1, <2>2
<1>8. \A t \in T : (bytesMet = 0 => OffsetInv(t)') /\ (~tainted => CleanInv(t)')
  BY <1>1, <1>7 DEF IInv, OffsetInv, CleanInv, Asking
<1>9. ASSUME ~tainted, failures = 0 PROVE MergeInv' /\ \A t \in T : WholeInv(t)'
  <2>1. \A t \in T : WholeInv(t)'
    <3> SUFFICES ASSUME NEW t \in T PROVE WholeInv(t)'
      OBVIOUS
    <3>1. WholeInv(t)
      BY <1>9 DEF IInv
    <3> QED BY <1>1, <1>q, <1>7, <3>1
            DEF WholeInv, Complete, Asking, Counting, Starting, Quitting
  <2>2. /\ part[idx].disk = PartSize(FileSize, Threads, idx) /\ part[idx].mem = 0
        /\ part[idx].clean = Held(part[idx])
    BY <1>0, <1>1, <1>9 DEF IInv, WholeInv, Complete, CleanInv
  <2>3. target.clean = target.len /\ target.len = Home(idx)
    BY <1>1, <1>9 DEF IInv, MergeInv
  <2>4. target'.len = Home(idx) + PartSize(FileSize, Threads, idx) /\ target'.clean = target'.len
    BY <1>1, <1>2, <1>3, <1>4, <2>2, <2>3
  <2>5. Home(idx) + PartSize(FileSize, Threads, idx)
          = IF idx + 1 < Threads THEN Home(idx + 1) ELSE FileSize
    BY <1>0, ConstantsAssumption, PartEnds DEF T, Home
  <2>6. MergeInv'
    BY <1>1, <2>4, <2>5 DEF MergeInv, Home
  <2> QED BY <2>1, <2>6
<1>10. tainted' = tainted /\ bytesMet' = bytesMet /\ failures' = failures
  BY <1>1, <1>q
<1> QED BY <1>5, <1>6, <1>8, <1>9, <1>10 DEF IInv

LEMMA FinishKeeps ==
    ASSUME IInv, FinishRemoved \/ FinishKept
    PROVE  IInv'
<1>0. TypeOK
  BY DEF IInv
<1>1. /\ mpc = "merge" /\ idx = Threads /\ mpc' = "done" /\ idx' = 0 /\ down_size' = 0
      /\ MainFrame /\ UNCHANGED <<w, md5, target, failures>> /\ tempDir' \in BOOLEAN
  BY <1>0 DEF FinishRemoved, FinishKept, Checked, TypeOK, FlagTypeOK
<1>2. ASSUME NEW t \in T
      PROVE  /\ part'[t] \in PartFile /\ part'[t].mem = 0
             /\ Held(part'[t]) <= Held(part[t])
             /\ part[t].clean = Held(part[t]) => part'[t].clean = Held(part'[t])
  <2>1. part[t] \in PartFile /\ Held(part[t]) \in Nat
    BY <1>0, Components
  <2>2. CASE part'[t] = NoPart
    BY <2>1, <2>2, Nothing
  <2>3. CASE part'[t] = Flushed(part[t])
    BY <2>1, <2>3, FlushedIs
  <2> QED BY <2>2, <2>3 DEF FinishRemoved, FinishKept
<1>3. TypeOK'
  <2>1. part' \in [T -> PartFile]
    <3>1. part' = [t \in T |-> part'[t]]
      BY DEF FinishRemoved, FinishKept
    <3> QED BY <1>2, <3>1
  <2> QED BY <1>0, <1>1, <2>1, ConstantsAssumption
          DEF MainFrame, lines, bytes, TypeOK, ProcessTypeOK, SharedTypeOK, DataTypeOK, FilesTypeOK, FlagTypeOK
<1>5. UNCHANGED <<fsize, conn, sendline, recvline, recvbytes, lineMet, bytesMet, tainted>>
  BY <1>1, MainQuiet
<1>4. \A t \in T : w'[t] = NoThread /\ conn'[t] = NoConn
  BY <1>1, <1>5, Nothing DEF IInv, FrameInv, Starting
<1>6. (~tainted /\ failures' = 0) => Whole'
  <2>1. ASSUME ~tainted, failures' = 0 PROVE Whole
    BY <1>0, <1>1, <2>1, ConstantsAssumption DEF IInv, MergeInv, Whole
  <2> QED BY <1>1, <2>1 DEF Whole
<1> QED BY <1>1, <1>2, <1>3, <1>4, <1>5, <1>6, IdleStep


-------------------------------------------------------------------------------
(* Threads: commands *)

LEMMA LoginKeeps == ASSUME IInv, NEW t \in T, Login(t) PROVE IInv'
<1>0. TypeOK /\ w[t].pc = "connect"
  BY DEF IInv, Login
<1>1. PICK r \in AnswerLens : Received(t, r)
  BY DEF Login
<1>2. /\ Goto(t, "putLogin") /\ Clear(t) /\ ThreadFrame
      /\ UNCHANGED <<down_size, lock, conn, part, failures>>
      /\ UNCHANGED <<mpc, fsize>>
  BY DEF Login, ThreadFrame
<1>3. /\ w' \in [T -> Thread] /\ w'[t].pc = "putLogin" /\ w'[t].put = w[t].put
      /\ \A u \in T \ {t} : w'[u] = w[u]
  BY <1>0, <1>2, GotoIs DEF Pcs, OnLine, Writing
<1>4. BytesKept(t) /\ recvbytes' = r /\ r \in Nat \ {0}
  BY <1>0, <1>1, ReceivedIs, ConstantsAssumption
<1>5. /\ LinesKept(t) /\ sendline' = NoLine /\ recvline' = "none"
      /\ ~tainted' => ~Another(t, OnLine)
  BY <1>0, <1>2, <1>4, ClearIs
<1>6. Shares(t) /\ EntersAlone(t)
  BY <1>4, <1>5 DEF Shares, EntersAlone
<1>7. SharedTypeOK' /\ failures' \in 0 .. MaxFailures
  BY <1>0, <1>2, <1>4, <1>5, Nothing, Living DEF SharedTypeOK
<1>8. conn \in [T -> Connection] /\ part \in [T -> PartFile]
  BY <1>0 DEF TypeOK, DataTypeOK
<1>9. FrameOf(t)'
  BY <1>0, <1>2, <1>3, Living DEF FrameOf, Starting
<1>10. bytesMet' = 0 => OffsetInv(t)'
  BY <1>0, <1>2, <1>3, <1>6, LivingNow DEF OffsetInv, Asking
<1>11. ~tainted' => CleanInv(t)'
  BY <1>0, <1>2, <1>3, <1>6, LivingNow DEF CleanInv
<1>12. ASSUME ~tainted', failures' = 0 PROVE WholeInv(t)'
  <2>1. WholeInv(t)
    BY <1>0, <1>2, <1>6, <1>12, LivingNow
  <2>2. recvbytes' >= 0
    BY <1>4
  <2> QED BY <1>0, <1>2, <1>3, <2>1, <2>2, Living
          DEF WholeInv, Asking, Counting, Starting, Quitting
<1> QED BY <1>0, <1>2, <1>3, <1>6, <1>7, <1>8, <1>9, <1>10, <1>11, <1>12, StepOfOne

(* A thread that takes the lines for its next command. *)
LEMMA ClearKeeps ==
    ASSUME IInv, NEW t \in T, ClearRest(t) \/ ClearRetr(t) \/ ClearQuit(t)
    PROVE  IInv'
<1>1. PICK pc \in {"putRest", "putRetr", "putQuit"} :
        /\ ClearFor(t, pc)
        /\ \/ pc = "putRest" /\ w[t].pc = "rest"
           \/ pc = "putRetr" /\ w[t].pc = "retr"
           \/ pc = "putQuit" /\ w[t].pc = "quit"
  BY DEF ClearRest, ClearRetr, ClearQuit
<1>0. TypeOK /\ w[t].pc # "none" /\ pc \in Pcs /\ pc \in OnLine
  BY <1>1 DEF IInv, Pcs, OnLine, Writing
<1>2. /\ Goto(t, pc) /\ Clear(t) /\ ThreadFrame
      /\ UNCHANGED <<down_size, lock, conn, part, failures>>
      /\ UNCHANGED bytes /\ UNCHANGED <<mpc, fsize, recvbytes>>
  BY <1>1 DEF ClearFor, ThreadFrame, bytes
<1>3. /\ w' \in [T -> Thread] /\ w'[t].pc = pc /\ w'[t].put = w[t].put /\ w'[t].i = w[t].i
      /\ \A u \in T \ {t} : w'[u] = w[u]
  BY <1>0, <1>2, GotoIs
<1>4. BytesKept(t) /\ recvbytes' \in Int
  BY <1>0, <1>2, BytesQuiet
<1>5. /\ LinesKept(t) /\ sendline' = NoLine /\ recvline' = "none"
      /\ ~tainted' => ~Another(t, OnLine)
  BY <1>0, <1>2, <1>4, ClearIs
<1>6. Shares(t) /\ EntersAlone(t)
  BY <1>4, <1>5 DEF Shares, EntersAlone
<1>7. SharedTypeOK' /\ failures' \in 0 .. MaxFailures
  BY <1>0, <1>2, <1>4, <1>5, Nothing, Living DEF SharedTypeOK
<1>8. conn \in [T -> Connection] /\ part \in [T -> PartFile]
  BY <1>0 DEF TypeOK, DataTypeOK
<1>9. FrameOf(t)'
  BY <1>0, <1>1, <1>2, <1>3, Living DEF FrameOf, Starting, Quitting
<1>10. ASSUME bytesMet' = 0 PROVE OffsetInv(t)'
  <2>1. OffsetInv(t)
    BY <1>0, <1>2, <1>6, <1>10, LivingNow
  <2> QED BY <1>1, <1>2, <1>3, <2>1, SameOffsets DEF OffsetInv, Asking
<1>11. ASSUME ~tainted' PROVE CleanInv(t)'
  <2>1. CleanInv(t)
    BY <1>0, <1>2, <1>6, <1>11, LivingNow
  <2> QED BY <1>1, <1>2, <1>3, <2>1 DEF CleanInv
<1>12. ASSUME ~tainted', failures' = 0 PROVE WholeInv(t)'
  <2>1. WholeInv(t)
    BY <1>0, <1>2, <1>6, <1>12, LivingNow
  <2> QED BY <1>1, <1>2, <1>3, <2>1, SameOffsets
          DEF WholeInv, Complete, Asking, Counting, Starting, Quitting
<1> QED BY <1>0, <1>2, <1>3, <1>6, <1>7, <1>8, <1>9, <1>10, <1>11, <1>12, StepOfOne

(* A thread that writes its command. *)
LEMMA PutKeeps ==
    ASSUME IInv, NEW t \in T, PutLogin(t) \/ PutRest(t) \/ PutRetr(t) \/ PutQuit(t)
    PROVE  IInv'
<1>1. PICK pc \in Sending, command \in [cmd : {"login", "rest", "retr", "quit"}, n : Int,
                                        more : BOOLEAN] :
        /\ Put(t, command, pc)
        /\ \/ w[t].pc = "putLogin" /\ pc = "sendLogin" /\ command = Cmd("login", 0)
           \/ w[t].pc = "putRest" /\ pc = "sendRest" /\ command = Cmd("rest", w[t].i)
           \/ w[t].pc = "putRetr" /\ pc = "sendRetr" /\ command = Cmd("retr", 0)
           \/ w[t].pc = "putQuit" /\ pc = "sendQuit" /\ command = Cmd("quit", 0)
  <2>1. w[t].i \in Int
    BY Components DEF IInv
  <2>2. ASSUME NEW c \in {"login", "rest", "retr", "quit"}, NEW n \in Int
        PROVE  Cmd(c, n) \in [cmd : {"login", "rest", "retr", "quit"}, n : Int, more : BOOLEAN]
    BY DEF Cmd
  <2>3. CASE PutLogin(t)
    <3>1. w[t].pc = "putLogin" /\ Put(t, Cmd("login", 0), "sendLogin")
      BY <2>3 DEF PutLogin
    <3> QED BY <2>2, <3>1 DEF Sending
  <2>4. CASE PutRest(t)
    <3>1. w[t].pc = "putRest" /\ Put(t, Cmd("rest", w[t].i), "sendRest")
      BY <2>4 DEF PutRest
    <3> QED BY <2>1, <2>2, <3>1 DEF Sending
  <2>5. CASE PutRetr(t)
    <3>1. w[t].pc = "putRetr" /\ Put(t, Cmd("retr", 0), "sendRetr")
      BY <2>5 DEF PutRetr
    <3> QED BY <2>2, <3>1 DEF Sending
  <2>6. CASE PutQuit(t)
    <3>1. w[t].pc = "putQuit" /\ Put(t, Cmd("quit", 0), "sendQuit")
      BY <2>6 DEF PutQuit
    <3> QED BY <2>2, <3>1 DEF Sending
  <2> QED BY <2>3, <2>4, <2>5, <2>6
<1>0. TypeOK /\ w[t].pc \in Writing /\ w[t].pc \in OnLine /\ pc \in Pcs /\ command \in Command
  BY <1>1 DEF IInv, Pcs, OnLine, Writing, Sending, Command
<1>2. /\ Goto(t, pc) /\ ThreadFrame
      /\ UNCHANGED <<down_size, lock, conn, part, failures>>
      /\ UNCHANGED bytes /\ UNCHANGED <<mpc, fsize, recvbytes>>
  BY <1>1 DEF Put, ThreadFrame, bytes
<1>3. /\ w' \in [T -> Thread] /\ w'[t].pc = pc /\ w'[t].put = w[t].put /\ w'[t].i = w[t].i
      /\ \A u \in T \ {t} : w'[u] = w[u]
  BY <1>0, <1>2, GotoIs
<1>4. BytesKept(t) /\ recvbytes' \in Int
  BY <1>0, <1>2, BytesQuiet
<1>5. /\ LinesKept(t) /\ sendline' \in Command /\ recvline' = recvline
      /\ ~tainted' => sendline' = command
  BY <1>0, <1>1, PutIs
<1>n. w[t].pc # "none"
  BY <1>0 DEF Writing
<1>6. Shares(t) /\ EntersAlone(t)
  BY <1>0, <1>4, <1>5 DEF Shares, EntersAlone
<1>7. SharedTypeOK' /\ failures' \in 0 .. MaxFailures
  BY <1>n, <1>2, <1>4, <1>5, Living DEF SharedTypeOK
<1>8. conn \in [T -> Connection] /\ part \in [T -> PartFile]
  BY <1>0 DEF TypeOK, DataTypeOK
<1>9. FrameOf(t)'
  BY <1>n, <1>1, <1>2, <1>3, Living DEF FrameOf, Starting, Quitting
<1>10. ASSUME bytesMet' = 0 PROVE OffsetInv(t)'
  <2>1. OffsetInv(t)
    BY <1>n, <1>2, <1>6, <1>10, LivingNow
  <2> QED BY <1>1, <1>2, <1>3, <2>1, SameOffsets DEF OffsetInv, Asking
<1>11. ASSUME ~tainted' PROVE CleanInv(t)'
  <2>1. CleanInv(t) /\ sendline' = command
    BY <1>n, <1>2, <1>5, <1>6, <1>11, LivingNow
  <2> QED BY <1>1, <1>2, <1>3, <2>1 DEF CleanInv
<1>12. ASSUME ~tainted', failures' = 0 PROVE WholeInv(t)'
  <2>1. WholeInv(t)
    BY <1>n, <1>2, <1>6, <1>12, LivingNow
  <2> QED BY <1>1, <1>2, <1>3, <2>1, SameOffsets
          DEF WholeInv, Complete, Asking, Counting, Starting, Quitting
<1> QED BY <1>n, <1>2, <1>3, <1>6, <1>7, <1>8, <1>9, <1>10, <1>11, <1>12, StepOfOne

(* A thread that will wait for ever for an answer. *)
LEMMA HangKeeps ==
    ASSUME IInv, NEW t \in T, w[t].pc \in Sending, Goto(t, "hang"), ThreadFrame,
           UNCHANGED <<conn, part, recvbytes, failures>>, Shares(t), SharedTypeOK'
    PROVE  IInv'
<1>0. TypeOK /\ w[t].pc # "none" /\ w[t].pc \notin Starting \ {"sendLogin"}
  BY DEF IInv, Sending, Starting
<1>1. /\ w' \in [T -> Thread] /\ w'[t].pc = "hang" /\ w'[t].put = w[t].put
      /\ \A u \in T \ {t} : w'[u] = w[u]
  BY <1>0, GotoIs DEF Pcs
<1>2. EntersAlone(t)
  BY <1>1 DEF EntersAlone, OnLine, Writing
<1>3. conn \in [T -> Connection] /\ part \in [T -> PartFile]
  BY <1>0 DEF TypeOK, DataTypeOK
<1>4. FrameOf(t)'
  BY <1>1 DEF FrameOf, Starting, Quitting
<1>5. failures' \in 0 .. MaxFailures
  BY <1>0, Living
<1>6. bytesMet' = 0 => OffsetInv(t)'
  BY <1>0, <1>1, LivingNow DEF OffsetInv, Asking, ThreadFrame
<1>7. ~tainted' => CleanInv(t)'
  BY <1>0, <1>1, LivingNow DEF CleanInv
<1>8. ASSUME ~tainted', failures' = 0 PROVE WholeInv(t)'
  <2>1. WholeInv(t)
    BY <1>0, <1>8, LivingNow
  <2>2. UNCHANGED <<mpc, fsize>> /\ mpc # "merge"
    BY <1>0, Living DEF ThreadFrame
  <2> QED BY <1>1, <2>1, <2>2 DEF WholeInv, Asking, Counting, Starting, Quitting
<1> QED BY <1>0, <1>1, <1>2, <1>3, <1>4, <1>5, <1>6, <1>7, <1>8, StepOfOne

LEMMA SendLoginKeeps == ASSUME IInv, NEW t \in T, SendLogin(t) PROVE IInv'
<1>0. TypeOK /\ w[t].pc = "sendLogin" /\ w[t].pc \in Sending /\ w[t].pc # "none"
  BY DEF IInv, SendLogin, Sending
<1>1. Exchange(t, "open") /\ "open" \in Pcs
  BY DEF SendLogin, Pcs, OnLine
<1>2. /\ Shares(t) /\ SharedTypeOK' /\ ThreadFrame /\ UNCHANGED <<sendline, part, failures>>
      /\ UNCHANGED <<mpc, fsize>>
  BY <1>0, <1>1, ExchangeIs DEF ThreadFrame
<1>3. CASE Goto(t, "hang") /\ UNCHANGED <<conn, recvline, recvbytes>>
  BY <1>0, <1>2, <1>3, HangKeeps
<1>4. ASSUME NEW line \in Command, Goto(t, "open"),
             conn' = [conn EXCEPT ![t] = IF "open" = "done" THEN NoConn ELSE Serve(@, line)],
             recvline' = Answer(conn[t], line), recvbytes' > 0, ~tainted' => line = sendline
      PROVE  IInv'
  <2> DEFINE d == Serve(conn[t], line)
  <2>1. /\ w' \in [T -> Thread] /\ w'[t].pc = "open" /\ w'[t].put = w[t].put
        /\ \A u \in T \ {t} : w'[u] = w[u]
    BY <1>0, <1>1, <1>4, GotoIs
  <2>2. /\ d \in Connection
        /\ line = Cmd("login", 0) => d.st = "open" /\ Answer(conn[t], line) = "227"
    BY <1>0, Components, ServeIs
  <2>3. conn' = [conn EXCEPT ![t] = d]
    BY <1>4
  <2> HIDE DEF d
  <2>4. conn' \in [T -> Connection] /\ conn'[t] = d /\ \A u \in T \ {t} : conn'[u] = conn[u]
    BY <1>0, <2>2, <2>3, ConnReplaced
  <2>5. part \in [T -> PartFile] /\ failures' \in 0 .. MaxFailures
    BY <1>0, <1>2, Living DEF TypeOK, DataTypeOK
  <2>6. EntersAlone(t)
    BY <1>0 DEF EntersAlone, OnLine
  <2>7. FrameOf(t)'
    BY <1>0, <1>2, <2>1, Living DEF FrameOf, Starting, Quitting
  <2>8. bytesMet' = 0 => OffsetInv(t)'
    BY <1>0, <1>2, <2>1, LivingNow DEF OffsetInv, Asking
  <2>9. ASSUME ~tainted' PROVE CleanInv(t)' /\ line = Cmd("login", 0)
    <3>1. CleanInv(t) /\ line = sendline
      BY <1>0, <1>2, <1>4, <2>9, LivingNow
    <3> QED BY <1>0, <1>2, <1>4, <2>1, <2>2, <3>1 DEF CleanInv
  <2>10. ASSUME ~tainted', failures' = 0 PROVE WholeInv(t)'
    <3>1. WholeInv(t) /\ mpc # "merge"
      BY <1>0, <1>2, <2>10, LivingNow, Living
    <3>2. d.st = "open" /\ recvbytes' >= 0
      BY <1>2, <1>4, <2>2, <2>9, <2>10 DEF SharedTypeOK
    <3> QED BY <1>2, <2>1, <2>4, <3>1, <3>2 DEF WholeInv, Asking, Counting, Starting, Quitting
  <2> QED BY <1>0, <1>2, <2>1, <2>4, <2>5, <2>6, <2>7, <2>8, <2>9, <2>10, StepOfOne
<1> QED BY <1>0, <1>1, <1>3, <1>4, ExchangeIs

LEMMA SendRestKeeps == ASSUME IInv, NEW t \in T, SendRest(t) PROVE IInv'
<1>0. TypeOK /\ w[t].pc = "sendRest" /\ w[t].pc \in Sending /\ w[t].pc # "none"
  BY DEF IInv, SendRest, Sending
<1>1. Exchange(t, "retr") /\ "retr" \in Pcs
  BY DEF SendRest, Pcs
<1>2. /\ Shares(t) /\ SharedTypeOK' /\ ThreadFrame /\ UNCHANGED <<sendline, part, failures>>
      /\ UNCHANGED <<mpc, fsize>>
  BY <1>0, <1>1, ExchangeIs DEF ThreadFrame
<1>3. CASE Goto(t, "hang") /\ UNCHANGED <<conn, recvline, recvbytes>>
  BY <1>0, <1>2, <1>3, HangKeeps
<1>4. ASSUME NEW line \in Command, Goto(t, "retr"),
             conn' = [conn EXCEPT ![t] = IF "retr" = "done" THEN NoConn ELSE Serve(@, line)],
             recvline' = Answer(conn[t], line), recvbytes' > 0, ~tainted' => line = sendline
      PROVE  IInv'
  <2> DEFINE d == Serve(conn[t], line)
  <2>1. /\ w' \in [T -> Thread] /\ w'[t].pc = "retr" /\ w'[t].put = w[t].put
        /\ w'[t].i = w[t].i /\ \A u \in T \ {t} : w'[u] = w[u]
    BY <1>0, <1>1, <1>4, GotoIs
  <2>2. /\ d \in Connection
        /\ line = Cmd("rest", line.n) => d.rest = line.n /\ d.st = conn[t].st
    BY <1>0, Components, ServeIs
  <2>3. conn' = [conn EXCEPT ![t] = d]
    BY <1>4
  <2> HIDE DEF d
  <2>4. conn' \in [T -> Connection] /\ conn'[t] = d /\ \A u \in T \ {t} : conn'[u] = conn[u]
    BY <1>0, <2>2, <2>3, ConnReplaced
  <2>5. part \in [T -> PartFile] /\ failures' \in 0 .. MaxFailures
    BY <1>0, <1>2, Living DEF TypeOK, DataTypeOK
  <2>6. EntersAlone(t)
    BY <1>0 DEF EntersAlone, OnLine
  <2>7. FrameOf(t)'
    BY <2>1 DEF FrameOf, Starting, Quitting
  <2>8. ASSUME bytesMet' = 0 PROVE OffsetInv(t)'
    <3>1. OffsetInv(t)
      BY <1>0, <1>2, <2>8, LivingNow
    <3> QED BY <1>0, <1>2, <2>1, <3>1, SameOffsets DEF OffsetInv, Asking
  <2>9. ASSUME ~tainted' PROVE CleanInv(t)' /\ d.st = conn[t].st
    <3>1. CleanInv(t) /\ line = Cmd("rest", w[t].i)
      BY <1>0, <1>2, <1>4, <2>9, LivingNow DEF CleanInv
    <3>2. line.n = w[t].i
      BY <3>1 DEF Cmd
    <3> QED BY <1>0, <1>2, <2>1, <2>2, <2>4, <3>1, <3>2 DEF CleanInv
  <2>10. ASSUME ~tainted', failures' = 0 PROVE WholeInv(t)'
    <3>1. WholeInv(t) /\ mpc # "merge"
      BY <1>0, <1>2, <2>10, LivingNow, Living
    <3>2. d.st = conn[t].st /\ recvbytes' >= 0
      BY <1>2, <1>4, <2>9, <2>10 DEF SharedTypeOK
    <3> QED BY <1>0, <1>2, <2>1, <2>4, <3>1, <3>2, SameOffsets
            DEF WholeInv, Asking, Counting, Starting, Quitting
  <2> QED BY <1>0, <1>2, <2>1, <2>4, <2>5, <2>6, <2>7, <2>8, <2>9, <2>10, StepOfOne
<1> QED BY <1>0, <1>1, <1>3, <1>4, ExchangeIs

LEMMA SendRetrKeeps == ASSUME IInv, NEW t \in T, SendRetr(t) PROVE IInv'
<1>0. TypeOK /\ w[t].pc = "sendRetr" /\ w[t].pc \in Sending /\ w[t].pc # "none"
  BY DEF IInv, SendRetr, Sending
<1>1. Exchange(t, "look") /\ "look" \in Pcs
  BY DEF SendRetr, Pcs, OnLine
<1>2. /\ Shares(t) /\ SharedTypeOK' /\ ThreadFrame /\ UNCHANGED <<sendline, part, failures>>
      /\ UNCHANGED <<mpc, fsize>>
  BY <1>0, <1>1, ExchangeIs DEF ThreadFrame
<1>3. CASE Goto(t, "hang") /\ UNCHANGED <<conn, recvline, recvbytes>>
  BY <1>0, <1>2, <1>3, HangKeeps
<1>4. ASSUME NEW line \in Command, Goto(t, "look"),
             conn' = [conn EXCEPT ![t] = IF "look" = "done" THEN NoConn ELSE Serve(@, line)],
             recvline' = Answer(conn[t], line), recvbytes' > 0, ~tainted' => line = sendline
      PROVE  IInv'
  <2> DEFINE d == Serve(conn[t], line)
  <2>1. /\ w' \in [T -> Thread] /\ w'[t].pc = "look" /\ w'[t].put = w[t].put
        /\ w'[t].i = w[t].i /\ \A u \in T \ {t} : w'[u] = w[u]
    BY <1>0, <1>1, <1>4, GotoIs
  <2>2. /\ d \in Connection
        /\ line = Cmd("retr", 0)
             => /\ d = Retr(conn[t])
                /\ Answer(conn[t], line) = IF Retr(conn[t]) # conn[t] THEN "150" ELSE "other"
    BY <1>0, Components, ServeIs
  <2>3. conn' = [conn EXCEPT ![t] = d]
    BY <1>4
  <2> HIDE DEF d
  <2>4. conn' \in [T -> Connection] /\ conn'[t] = d /\ \A u \in T \ {t} : conn'[u] = conn[u]
    BY <1>0, <2>2, <2>3, ConnReplaced
  <2>r. /\ Retr(conn[t]) # conn[t] => Retr(conn[t]).pos = conn[t].rest
        /\ (conn[t].st = "open" /\ conn[t].rest <= FileSize)
             => /\ Retr(conn[t]) # conn[t] /\ Retr(conn[t]).st = "sending"
                /\ Retr(conn[t]).pos = conn[t].rest /\ Retr(conn[t]).left = FileSize - conn[t].rest
    BY <1>0, Components, RetrIs
  <2>5. part \in [T -> PartFile] /\ failures' \in 0 .. MaxFailures
    BY <1>0, <1>2, Living DEF TypeOK, DataTypeOK
  <2>6. EntersAlone(t)
    BY <1>0 DEF EntersAlone, OnLine
  <2>7. FrameOf(t)'
    BY <2>1 DEF FrameOf, Starting, Quitting
  <2>8. ASSUME bytesMet' = 0 PROVE OffsetInv(t)'
    <3>1. OffsetInv(t)
      BY <1>0, <1>2, <2>8, LivingNow
    <3> QED BY <1>0, <1>2, <2>1, <3>1, SameOffsets DEF OffsetInv, Asking
  <2>9. ASSUME ~tainted'
        PROVE  /\ CleanInv(t)' /\ d = Retr(conn[t]) /\ conn[t].rest = w[t].i
               /\ Retr(conn[t]) # conn[t] => recvline' = "150"
    <3>1. CleanInv(t) /\ line = Cmd("retr", 0) /\ conn[t].rest = w[t].i
      BY <1>0, <1>2, <1>4, <2>9, LivingNow DEF CleanInv
    <3>2. d = Retr(conn[t]) /\ recvline' = IF Retr(conn[t]) # conn[t] THEN "150" ELSE "other"
      BY <1>4, <2>2, <3>1
    <3>3. recvline' = "150" => conn'[t].pos = w'[t].i
      BY <2>1, <2>4, <2>r, <3>1, <3>2
    <3> QED BY <1>2, <2>1, <3>1, <3>2, <3>3 DEF CleanInv
  <2>10. ASSUME ~tainted', failures' = 0 PROVE WholeInv(t)'
    <3>1. WholeInv(t) /\ mpc # "merge"
      BY <1>0, <1>2, <2>10, LivingNow, Living
    <3>2. conn[t].st = "open" /\ w[t].i < Max_(t) /\ w[t].i = conn[t].rest
      BY <1>0, <2>9, <2>10, <3>1 DEF WholeInv, Asking
    <3>3. conn[t].rest \in Int /\ FileSize \in Nat /\ conn[t].rest <= FileSize
      BY <1>0, <3>2, Components, Offsets, ConstantsAssumption
    <3>4. /\ d.st = "sending" /\ d.pos = conn[t].rest /\ d.left = FileSize - conn[t].rest
          /\ recvline' = "150"
      BY <2>r, <2>9, <2>10, <3>2, <3>3
    <3>5. d.pos + d.left = FileSize
      BY <3>3, <3>4
    <3>6. recvbytes' >= 0
      BY <1>2, <1>4 DEF SharedTypeOK
    <3> QED BY <1>0, <1>2, <2>1, <2>4, <3>1, <3>2, <3>4, <3>5, <3>6, SameOffsets
            DEF WholeInv, Asking, Counting, Starting, Quitting
  <2> QED BY <1>0, <1>2, <2>1, <2>4, <2>5, <2>6, <2>7, <2>8, <2>9, <2>10, StepOfOne
<1> QED BY <1>0, <1>1, <1>3, <1>4, ExchangeIs

LEMMA SendQuitKeeps == ASSUME IInv, NEW t \in T, SendQuit(t) PROVE IInv'
<1>0. TypeOK /\ w[t].pc = "sendQuit" /\ w[t].pc \in Sending /\ w[t].pc # "none"
  BY DEF IInv, SendQuit, Sending
<1>1. Exchange(t, "done") /\ "done" \in Pcs
  BY DEF SendQuit, Pcs
<1>2. /\ Shares(t) /\ SharedTypeOK' /\ ThreadFrame /\ UNCHANGED <<sendline, part, failures>>
      /\ UNCHANGED <<mpc, fsize>>
  BY <1>0, <1>1, ExchangeIs DEF ThreadFrame
<1>3. CASE Goto(t, "hang") /\ UNCHANGED <<conn, recvline, recvbytes>>
  BY <1>0, <1>2, <1>3, HangKeeps
<1>4. ASSUME NEW line \in Command, Goto(t, "done"),
             conn' = [conn EXCEPT ![t] = IF "done" = "done" THEN NoConn ELSE Serve(@, line)],
             recvline' = Answer(conn[t], line), recvbytes' > 0, ~tainted' => line = sendline
      PROVE  IInv'
  <2>1. /\ w' \in [T -> Thread] /\ w'[t].pc = "done" /\ w'[t].put = w[t].put
        /\ \A u \in T \ {t} : w'[u] = w[u]
    BY <1>0, <1>1, <1>4, GotoIs
  <2>2. conn' = [conn EXCEPT ![t] = NoConn]
    BY <1>4
  <2>4. conn' \in [T -> Connection] /\ conn'[t] = NoConn /\ \A u \in T \ {t} : conn'[u] = conn[u]
    BY <1>0, <2>2, ClosedIs
  <2>5. part \in [T -> PartFile] /\ failures' \in 0 .. MaxFailures
    BY <1>0, <1>2, Living DEF TypeOK, DataTypeOK
  <2>6. EntersAlone(t)
    BY <1>0 DEF EntersAlone, OnLine
  <2>7. FrameOf(t)'
    BY <2>1, <2>4 DEF FrameOf, Starting
  <2>8. bytesMet' = 0 => OffsetInv(t)'
    BY <1>0, <1>2, <2>1, LivingNow DEF OffsetInv, Asking
  <2>9. ~tainted' => CleanInv(t)'
    BY <1>0, <1>2, <2>1, LivingNow DEF CleanInv
  <2>10. ASSUME ~tainted', failures' = 0 PROVE WholeInv(t)'
    <3>1. WholeInv(t) /\ mpc # "merge"
      BY <1>0, <1>2, <2>10, LivingNow, Living
    <3>2. Complete(t) /\ part[t].is = "file"
      BY <1>0, <3>1 DEF WholeInv, Quitting, Starting
    <3>3. recvbytes' >= 0
      BY <1>2, <1>4 DEF SharedTypeOK
    <3> QED BY <1>2, <2>1, <2>4, <3>1, <3>2, <3>3, Nothing
            DEF WholeInv, Complete, Asking, Counting, Starting, Quitting
  <2> QED BY <1>0, <1>2, <2>1, <2>4, <2>5, <2>6, <2>7, <2>8, <2>9, <2>10, StepOfOne
<1> QED BY <1>0, <1>1, <1>3, <1>4, ExchangeIs

-------------------------------------------------------------------------------
(* Threads: everything but commands *)

(* A step that touches neither the lines nor the count, and fails nothing.   *)
LEMMA QuietStep ==
    ASSUME IInv, NEW t \in T, w[t].pc # "none", ThreadFrame, UNCHANGED <<lines, bytes>>,
           failures' = failures, down_size' \in Int, lock' \in T \cup {Unlocked},
           w' \in [T -> Thread], conn' \in [T -> Connection], part' \in [T -> PartFile],
           \A u \in T \ {t} : w'[u] = w[u] /\ conn'[u] = conn[u] /\ part'[u] = part[u],
           w'[t].pc \notin OnLine, FrameOf(t)',
           OffsetInv(t) => OffsetInv(t)',
           OffsetInv(t) /\ CleanInv(t) => CleanInv(t)',
           OffsetInv(t) /\ CleanInv(t) /\ WholeInv(t) /\ fsize = FileSize => WholeInv(t)'
    PROVE  IInv'
<1>1. TypeOK
  BY DEF IInv
<1>2. Shares(t) /\ SharedTypeOK'
  BY <1>1, QuietIs
<1>3. EntersAlone(t)
  BY DEF EntersAlone
<1>4. failures' \in 0 .. MaxFailures
  BY Living
<1>5. bytesMet' = 0 => OffsetInv(t)'
  BY <1>2, LivingNow
<1>6. ~tainted' => CleanInv(t)'
  BY <1>2, LivingNow
<1>7. (~tainted' /\ failures' = 0) => WholeInv(t)'
  BY <1>2, LivingNow
<1> QED BY <1>2, <1>3, <1>4, <1>5, <1>6, <1>7, StepOfOne

(* What does not change is of the type it was. *)
LEMMA OldTypes ==
    ASSUME IInv
    PROVE  /\ w \in [T -> Thread] /\ conn \in [T -> Connection] /\ part \in [T -> PartFile]
           /\ down_size \in Int /\ lock \in T \cup {Unlocked} /\ failures \in 0 .. MaxFailures
           /\ recvbytes \in Int
BY DEF IInv, TypeOK, DataTypeOK, SharedTypeOK, ProcessTypeOK

LEMMA LoginFailsKeeps == ASSUME IInv, NEW t \in T, LoginFails(t) PROVE IInv'
<1>0. TypeOK /\ w[t].pc = "connect" /\ w[t].pc # "none"
  BY DEF IInv, LoginFails
<1>1. /\ Goto(t, "done") /\ failures < MaxFailures /\ failures' = failures + 1
      /\ UNCHANGED <<down_size, lock, conn, part>> /\ UNCHANGED <<lines, bytes>> /\ ThreadFrame
  BY DEF LoginFails
<1>2. /\ w' \in [T -> Thread] /\ w'[t].pc = "done" /\ w'[t].put = w[t].put
      /\ \A u \in T \ {t} : w'[u] = w[u]
  BY <1>0, <1>1, GotoIs DEF Pcs
<1>3. failures' \in 0 .. MaxFailures /\ failures' # 0
  BY <1>1, OldTypes, ConstantsAssumption
<1>4. Shares(t) /\ SharedTypeOK'
  BY <1>0, <1>1, OldTypes, QuietIs
<1>5. EntersAlone(t)
  BY <1>2 DEF EntersAlone, OnLine, Writing
<1>6. FrameOf(t)'
  BY <1>0, <1>1, <1>2, Living DEF FrameOf, Starting
<1>7. bytesMet' = 0 => OffsetInv(t)'
  BY <1>0, <1>1, <1>2, <1>3, <1>4, LivingNow DEF OffsetInv, Asking, ThreadFrame
<1>8. ~tainted' => CleanInv(t)'
  BY <1>0, <1>1, <1>2, <1>3, <1>4, LivingNow DEF CleanInv
<1> QED BY <1>0, <1>1, <1>2, <1>3, <1>4, <1>5, <1>6, <1>7, <1>8, OldTypes, StepOfOne

LEMMA DataConnectFailsKeeps == ASSUME IInv, NEW t \in T, DataConnectFails(t) PROVE IInv'
<1>0. TypeOK /\ w[t].pc = "open" /\ w[t].pc # "none"
  BY DEF IInv, DataConnectFails
<1>1. /\ conn' = [conn EXCEPT ![t].st = "none"]
      /\ failures < MaxFailures /\ failures' = failures + 1
      /\ UNCHANGED <<down_size, lock, w, part>> /\ UNCHANGED <<lines, bytes>> /\ ThreadFrame
  BY DEF DataConnectFails
<1>2. conn' \in [T -> Connection] /\ \A u \in T \ {t} : conn'[u] = conn[u]
  BY <1>1, OldTypes DEF Connection
<1>3. failures' \in 0 .. MaxFailures /\ failures' # 0
  BY <1>1, OldTypes, ConstantsAssumption
<1>4. Shares(t) /\ SharedTypeOK'
  BY <1>0, <1>1, OldTypes, QuietIs
<1>5. EntersAlone(t)
  BY <1>1 DEF EntersAlone
<1>6. FrameOf(t)'
  BY <1>0, <1>1, Living DEF FrameOf, Starting, Quitting
<1>7. bytesMet' = 0 => OffsetInv(t)'
  BY <1>0, <1>1, <1>3, <1>4, LivingNow DEF OffsetInv, Asking, ThreadFrame
<1>8. ~tainted' => CleanInv(t)'
  BY <1>0, <1>1, <1>3, <1>4, LivingNow DEF CleanInv, lines
<1> QED BY <1>0, <1>1, <1>2, <1>3, <1>4, <1>5, <1>6, <1>7, <1>8, OldTypes, StepOfOne

(* Whoever is misled is not alone at the lines. *)
LEMMA MisledKeeps == ASSUME IInv, NEW t \in T, Misled(t) PROVE IInv'
<1>0. TypeOK /\ w[t].pc = "open" /\ w[t].pc # "none" /\ recvline # "227"
  BY DEF IInv, Misled
<1>1. CASE Exit /\ UNCHANGED <<md5, failures>>
  <2>1. md5' \in Md5States /\ failures' \in 0 .. MaxFailures /\ (failures' = 0 => failures = 0)
    BY <1>0, <1>1 DEF TypeOK, FilesTypeOK, ProcessTypeOK, Md5States
  <2> QED BY <1>1, <2>1, GoneStep DEF Exit, Gone
<1>2. CASE /\ Goto(t, "done")
           /\ conn' = [conn EXCEPT ![t] = NoConn]
           /\ ThreadFrame /\ UNCHANGED <<down_size, lock, lines, bytes, part, failures>>
  <2>1. /\ w' \in [T -> Thread] /\ w'[t].pc = "done" /\ w'[t].put = w[t].put
        /\ \A u \in T \ {t} : w'[u] = w[u]
    BY <1>0, <1>2, GotoIs DEF Pcs
  <2>2. /\ conn' \in [T -> Connection] /\ conn'[t] = NoConn
        /\ \A u \in T \ {t} : conn'[u] = conn[u]
    BY <1>0, <1>2, ClosedIs
  <2>3. w'[t].pc \notin OnLine /\ FrameOf(t)'
    BY <2>1, <2>2 DEF OnLine, Writing, FrameOf, Starting
  <2>4. OffsetInv(t) => OffsetInv(t)'
    BY <1>2, <2>1 DEF OffsetInv, Asking, ThreadFrame
  <2>5. ~CleanInv(t)
    BY <1>0 DEF CleanInv
  <2> QED BY <1>0, <1>2, <2>1, <2>2, <2>3, <2>4, <2>5, OldTypes, QuietStep
<1> QED BY <1>1, <1>2 DEF Misled

LEMMA OpenCompleteKeeps == ASSUME IInv, NEW t \in T, OpenComplete(t) PROVE IInv'
<1>0. TypeOK /\ w[t].pc = "open"
  BY DEF IInv, OpenComplete
<1>1. Held(part[t]) = Size(t) /\ part' = [part EXCEPT ![t].is = "file"] /\ Leave(t)
  BY DEF OpenComplete
<1>2. /\ part' \in [T -> PartFile] /\ \A u \in T \ {t} : part'[u] = part[u]
      /\ Held(part'[t]) = Held(part[t]) /\ part'[t].clean = part[t].clean
      /\ part'[t].is = "file" /\ part'[t].mem = part[t].mem /\ part'[t].disk = part[t].disk
  BY <1>0, <1>1, OpenedIs
<1>3. ASSUME ~tainted, failures = 0 PROVE Complete(t)'
  <2>1. Size(t) = PartSize(FileSize, Threads, t)
    BY <1>0, <1>3, Living, Offsets
  <2>2. part[t].mem = 0
    BY <1>0, Living DEF FrameOf
  <2>3. part[t].disk = Size(t)
    BY <1>0, <1>1, <2>2, Components DEF Held
  <2> QED BY <1>2, <2>1, <2>2, <2>3 DEF Complete
<1> QED BY <1>0, <1>1, <1>2, <1>3, LeaveStep

LEMMA OpenKeeps == ASSUME IInv, NEW t \in T, Open(t) PROVE IInv'
<1> DEFINE i == Held(part[t]) + Offset(t)
<1>0. TypeOK /\ w[t].pc = "open" /\ w[t].pc # "none"
  BY DEF IInv, Open
<1>1. /\ Held(part[t]) # Size(t)
      /\ part' = [part EXCEPT ![t].is = "file"]
      /\ w' = [w EXCEPT ![t].pc = "rest", ![t].i = i]
      /\ ThreadFrame /\ UNCHANGED <<down_size, lock, lines, bytes, conn, failures>>
      /\ UNCHANGED <<mpc, fsize, recvbytes>>
  BY DEF Open, ThreadFrame, bytes
<1>2. /\ part' \in [T -> PartFile] /\ \A u \in T \ {t} : part'[u] = part[u]
      /\ Held(part'[t]) = Held(part[t]) /\ part'[t].clean = part[t].clean
      /\ part'[t].is = "file"
  BY <1>0, <1>1, OpenedIs
<1>3. /\ Held(part[t]) \in Nat /\ Offset(t) \in Nat /\ Size(t) \in Nat
      /\ Max_(t) = Offset(t) + Size(t)
      /\ fsize = FileSize => Size(t) = PartSize(FileSize, Threads, t)
  BY <1>0, Components, Offsets
<1>4. i \in Int /\ i = Offset(t) + Held(part[t])
  BY <1>3
<1> HIDE DEF i
<1>5. /\ w' \in [T -> Thread] /\ w'[t].pc = "rest" /\ w'[t].i = i /\ w'[t].put = w[t].put
      /\ \A u \in T \ {t} : w'[u] = w[u]
  <2> DEFINE new == [[w[t] EXCEPT !.pc = "rest"] EXCEPT !.i = i]
  <2>1. w[t] \in Thread /\ DOMAIN w = T
    BY <1>0, Components
  <2>2. w' = [w EXCEPT ![t] = new]
    BY <1>1, <2>1
  <2>3. new \in Thread /\ new.pc = "rest" /\ new.i = i /\ new.put = w[t].put
    BY <1>4, <2>1 DEF Thread, Pcs
  <2> HIDE DEF new
  <2> QED BY <1>0, <2>2, <2>3, ThreadReplaced
<1>6. w'[t].pc \notin OnLine /\ FrameOf(t)'
  BY <1>5 DEF OnLine, Writing, FrameOf, Starting, Quitting
<1>7. OffsetInv(t) => OffsetInv(t)'
  BY <1>1, <1>2, <1>4, <1>5, SameOffsets DEF OffsetInv
<1>8. CleanInv(t) => CleanInv(t)'
  BY <1>2, <1>5 DEF CleanInv
<1>9. ASSUME OffsetInv(t), WholeInv(t), fsize = FileSize PROVE WholeInv(t)'
  <2>1. i < Max_(t)
    <3>1. Held(part[t]) <= Size(t)
      BY <1>3, <1>9 DEF OffsetInv
    <3> QED BY <1>1, <1>3, <1>4, <3>1
  <2>2. mpc = "create"
    BY <1>0, Living
  <2> QED BY <1>0, <1>1, <1>2, <1>5, <1>9, <2>1, <2>2, SameOffsets
          DEF WholeInv, Asking, Counting, Starting, Quitting
<1> QED BY <1>0, <1>1, <1>2, <1>5, <1>6, <1>7, <1>8, <1>9, OldTypes, QuietStep

LEMMA LookKeeps == ASSUME IInv, NEW t \in T, Look(t) PROVE IInv'
<1>0. TypeOK /\ w[t].pc = "look" /\ w[t].pc # "none" /\ recvline = "150"
  BY DEF IInv, Look
<1>1. /\ Goto(t, "recv") /\ ThreadFrame
      /\ UNCHANGED <<down_size, lock, lines, bytes, conn, part, failures>>
      /\ UNCHANGED <<mpc, fsize, recvbytes>>
  BY DEF Look, ThreadFrame, bytes
<1>2. /\ w' \in [T -> Thread] /\ w'[t].pc = "recv" /\ w'[t].put = w[t].put /\ w'[t].i = w[t].i
      /\ \A u \in T \ {t} : w'[u] = w[u]
  BY <1>0, <1>1, GotoIs DEF Pcs
<1>3. w'[t].pc \notin OnLine /\ FrameOf(t)'
  BY <1>2 DEF OnLine, Writing, FrameOf, Starting, Quitting
<1>4. OffsetInv(t) => OffsetInv(t)'
  BY <1>0, <1>1, <1>2, SameOffsets DEF OffsetInv, Asking
<1>5. CleanInv(t) => CleanInv(t)'
  BY <1>0, <1>1, <1>2 DEF CleanInv
<1>6. WholeInv(t) => WholeInv(t)'
  BY <1>0, <1>1, <1>2, Living, SameOffsets
     DEF WholeInv, Asking, Counting, Starting, Quitting
<1> QED BY <1>0, <1>1, <1>2, <1>3, <1>4, <1>5, <1>6, OldTypes, QuietStep

LEMMA LookWrongKeeps == ASSUME IInv, NEW t \in T, LookWrong(t) PROVE IInv'
<1>0. TypeOK /\ w[t].pc = "look" /\ w[t].pc # "none" /\ (recvline # "150" \/ recvbytes < 0)
  BY DEF IInv, LookWrong
<1>1. CASE Die
  BY <1>1, DieKeeps
<1>2. CASE part' = [part EXCEPT ![t] = Flushed(@)] /\ Leave(t)
  <2>1. /\ part' \in [T -> PartFile] /\ \A u \in T \ {t} : part'[u] = part[u]
        /\ Held(part'[t]) = Held(part[t]) /\ part'[t].clean = part[t].clean
    BY <1>0, <1>2, FileClosedIs
  <2>2. ~(~tainted /\ failures = 0)
    <3>1. WholeInv(t) => recvline = "150" /\ recvbytes >= 0
      BY <1>0 DEF WholeInv
    <3> QED BY <1>0, <3>1, Living, OldTypes
  <2> QED BY <1>0, <1>2, <2>1, <2>2, LeaveStep
<1> QED BY <1>1, <1>2 DEF LookWrong

LEMMA RecvKeeps == ASSUME IInv, NEW t \in T, Recv(t) PROVE IInv'
<1>0. TypeOK /\ w[t].pc = "recv" /\ w[t].pc # "none"
  BY DEF IInv, Recv
<1>1. /\ UNCHANGED <<down_size, lock, lines, part, failures>> /\ ThreadFrame
      /\ UNCHANGED <<mpc, fsize>>
  BY DEF Recv, ThreadFrame
<1>2. PICK r \in IF conn[t].st = "reset" THEN {-1}
                 ELSE IF conn[t].left = 0 THEN {0} ELSE 1 .. Lesser(Block, conn[t].left) :
        LET n == IF r > 0 THEN r ELSE 0 IN
        /\ Received(t, r)
        /\ conn' = [conn EXCEPT ![t].pos = @ + n, ![t].left = @ - n]
        /\ w' = [w EXCEPT ![t].pc = "use", ![t].n = n]
  BY DEF Recv
<1> DEFINE n == IF r > 0 THEN r ELSE 0
<1>c. conn[t].left \in Nat /\ conn[t].pos \in Int /\ Block \in Nat \ {0}
  BY <1>0, Components, ConstantsAssumption
<1>3. /\ n \in Nat /\ n <= conn[t].left /\ r \in Int /\ (r > 0 => r = n)
      /\ (conn[t].st = "sending" /\ conn[t].left > 0) => r > 0
  <2>1. CASE conn[t].st = "reset"
    BY <1>c, <2>1
  <2>2. CASE conn[t].st # "reset" /\ conn[t].left = 0
    BY <1>c, <2>2
  <2>3. CASE conn[t].st # "reset" /\ conn[t].left # 0
    BY <1>c, <2>3 DEF Lesser
  <2> QED BY <2>1, <2>2, <2>3
<1>4. /\ Received(t, r)
      /\ conn' = [conn EXCEPT ![t].pos = @ + n, ![t].left = @ - n]
      /\ w' = [w EXCEPT ![t].pc = "use", ![t].n = n]
  BY <1>2
<1> HIDE DEF n
<1>5. /\ w' \in [T -> Thread] /\ w'[t].pc = "use" /\ w'[t].i = w[t].i /\ w'[t].n = n
      /\ w'[t].put = w[t].put
      /\ \A u \in T \ {t} : w'[u] = w[u]
  <2> DEFINE new == [[w[t] EXCEPT !.pc = "use"] EXCEPT !.n = n]
  <2>1. w[t] \in Thread /\ DOMAIN w = T
    BY <1>0, Components
  <2>2. w' = [w EXCEPT ![t] = new]
    BY <1>4, <2>1
  <2>3. new \in Thread /\ new.pc = "use" /\ new.i = w[t].i /\ new.n = n /\ new.put = w[t].put
    BY <1>3, <2>1 DEF Thread, Pcs, Counting
  <2> HIDE DEF new
  <2> QED BY <1>0, <2>2, <2>3, ThreadReplaced
<1>6. /\ conn' \in [T -> Connection] /\ conn'[t].st = conn[t].st
      /\ conn'[t].pos = conn[t].pos + n /\ conn'[t].left = conn[t].left - n
      /\ \A u \in T \ {t} : conn'[u] = conn[u]
  <2>1. conn[t].left - n \in Nat /\ conn[t].pos + n \in Int
    BY <1>c, <1>3
  <2> DEFINE new == [[conn[t] EXCEPT !.pos = @ + n] EXCEPT !.left = @ - n]
  <2>2. conn[t] \in Connection /\ conn \in [T -> Connection]
    BY <1>0, Components DEF TypeOK, DataTypeOK
  <2>3. conn' = [conn EXCEPT ![t] = new]
    BY <1>4, <2>2
  <2>4. /\ new \in Connection /\ new.st = conn[t].st
        /\ new.pos = conn[t].pos + n /\ new.left = conn[t].left - n
    BY <2>1, <2>2 DEF Connection
  <2> HIDE DEF new
  <2> QED BY <1>0, <2>2, <2>3, <2>4
<1>7. BytesKept(t) /\ recvbytes' = r
  BY <1>0, <1>3, <1>4, ReceivedIs
<1>8. Shares(t) /\ SharedTypeOK'
  <2>1. LinesKept(t) /\ sendline' \in Command /\ recvline' \in {"none", "227", "150", "other"}
    BY <1>0, <1>1, LinesQuiet
  <2>2. down_size' \in Int /\ lock' \in T \cup {Unlocked}
    BY <1>1, OldTypes
  <2> QED BY <1>3, <1>7, <2>1, <2>2 DEF Shares, SharedTypeOK
<1>9. EntersAlone(t) /\ FrameOf(t)'
  BY <1>5 DEF EntersAlone, OnLine, Writing, FrameOf, Starting, Quitting
<1>10. ASSUME bytesMet' = 0 PROVE OffsetInv(t)'
  <2>1. OffsetInv(t)
    BY <1>0, <1>1, <1>8, <1>10, LivingNow
  <2> QED BY <1>0, <1>1, <1>3, <1>5, <1>7, <2>1, SameOffsets DEF OffsetInv, Asking
<1>11. ASSUME ~tainted' PROVE CleanInv(t)'
  <2>1. CleanInv(t)
    BY <1>0, <1>1, <1>8, <1>11, LivingNow
  <2>2. conn[t].pos = w[t].i
    BY <1>0, <2>1 DEF CleanInv
  <2> QED BY <1>1, <1>5, <1>6, <2>1, <2>2 DEF CleanInv
<1>12. ASSUME ~tainted', failures' = 0 PROVE WholeInv(t)'
  <2>1. WholeInv(t) /\ CleanInv(t) /\ mpc = "create" /\ fsize = FileSize
    BY <1>0, <1>1, <1>8, <1>12, LivingNow, Living
  <2>2. /\ conn[t].st = "sending" /\ conn[t].pos + conn[t].left = FileSize
        /\ conn[t].pos = w[t].i /\ w[t].i < Max_(t) /\ part[t].is = "file"
    BY <1>0, <2>1 DEF WholeInv, CleanInv, Starting
  <2>3. conn[t].left > 0
    BY <1>0, <1>c, <2>2, Offsets, ConstantsAssumption
  <2>4. r > 0 /\ conn'[t].pos + conn'[t].left = FileSize
    BY <1>c, <1>3, <1>6, <2>2, <2>3
  <2>5. w'[t].i < Max_(t)' /\ recvbytes' > 0 /\ recvbytes' >= 0
    BY <1>1, <1>3, <1>5, <1>7, <2>2, <2>4, SameOffsets
  <2> QED BY <1>1, <1>5, <1>6, <2>1, <2>2, <2>4, <2>5
          DEF WholeInv, Asking, Counting, Starting, Quitting
<1> QED BY <1>0, <1>1, <1>5, <1>6, <1>8, <1>9, <1>10, <1>11, <1>12, OldTypes, StepOfOne

LEMMA UseErrorKeeps == ASSUME IInv, NEW t \in T, UseError(t) PROVE IInv'
<1>0. TypeOK /\ w[t].pc = "use" /\ w[t].pc # "none" /\ recvbytes < 0
  BY DEF IInv, UseError
<1>1. part' = [part EXCEPT ![t] = Flushed(@)] /\ Leave(t)
  BY DEF UseError
<1>2. /\ part' \in [T -> PartFile] /\ \A u \in T \ {t} : part'[u] = part[u]
      /\ Held(part'[t]) = Held(part[t]) /\ part'[t].clean = part[t].clean
  BY <1>0, <1>1, FileClosedIs
<1>3. ~(~tainted /\ failures = 0)
  <2>1. WholeInv(t) => recvbytes >= 0
    BY DEF WholeInv
  <2> QED BY <1>0, <2>1, Living, OldTypes
<1> QED BY <1>0, <1>1, <1>2, <1>3, LeaveStep

LEMMA UseEndKeeps == ASSUME IInv, NEW t \in T, UseEnd(t) PROVE IInv'
<1>0. TypeOK /\ w[t].pc = "use" /\ w[t].pc # "none" /\ recvbytes = 0
  BY DEF IInv, UseEnd
<1>1. part' = part /\ Leave(t)
  BY DEF UseEnd
<1>2. part' \in [T -> PartFile]
  BY <1>1, OldTypes
<1>3. ~(~tainted /\ failures = 0)
  <2>1. WholeInv(t) => recvbytes > 0
    BY <1>0 DEF WholeInv
  <2> QED BY <1>0, <2>1, Living
<1> QED BY <1>0, <1>1, <1>2, <1>3, LeaveStep

LEMMA UseKeeps == ASSUME IInv, NEW t \in T, Use(t) PROVE IInv'
<1>0. TypeOK /\ w[t].pc = "use" /\ w[t].pc # "none" /\ recvbytes > 0
  BY DEF IInv, Use
<1>1. /\ Goto(t, "count") /\ ThreadFrame
      /\ UNCHANGED <<down_size, lock, lines, bytes, conn, part, failures>>
      /\ UNCHANGED <<mpc, fsize, recvbytes>>
  BY DEF Use, ThreadFrame, bytes
<1>2. /\ w' \in [T -> Thread] /\ w'[t].pc = "count" /\ w'[t].put = w[t].put
      /\ w'[t].i = w[t].i /\ w'[t].n = w[t].n
      /\ \A u \in T \ {t} : w'[u] = w[u]
  BY <1>0, <1>1, GotoIs DEF Pcs, Counting
<1>3. w'[t].pc \notin OnLine /\ FrameOf(t)'
  BY <1>2 DEF OnLine, Writing, FrameOf, Starting, Quitting
<1>4. OffsetInv(t) => OffsetInv(t)'
  BY <1>0, <1>1, <1>2, SameOffsets DEF OffsetInv, Asking
<1>5. CleanInv(t) => CleanInv(t)'
  BY <1>0, <1>1, <1>2 DEF CleanInv
<1>6. WholeInv(t) => WholeInv(t)'
  BY <1>0, <1>1, <1>2, Living, SameOffsets
     DEF WholeInv, Asking, Counting, Starting, Quitting
<1> QED BY <1>0, <1>1, <1>2, <1>3, <1>4, <1>5, <1>6, OldTypes, QuietStep

LEMMA CountKeeps == ASSUME IInv, NEW t \in T, Count(t) PROVE IInv'
<1> DEFINE i == w[t].i + recvbytes
           pc == IF i < Max_(t) THEN "write" ELSE "cut"
<1>0. TypeOK /\ w[t].pc = "count" /\ w[t].pc # "none"
  BY DEF IInv, Count
<1>1. /\ w' = [w EXCEPT ![t].pc = pc, ![t].i = i] /\ ThreadFrame
      /\ UNCHANGED <<down_size, lock, lines, bytes, conn, part, failures>>
      /\ UNCHANGED <<mpc, fsize, recvbytes>>
  BY DEF Count, ThreadFrame, bytes
<1>2. /\ i \in Int /\ Max_(t) \in Int /\ pc \in {"write", "cut"} /\ pc \in Pcs
      /\ (pc = "write" => i < Max_(t)) /\ (pc = "cut" => i >= Max_(t))
      /\ i = w[t].i + recvbytes
  BY <1>0, OldTypes, Components, Offsets DEF Pcs, Counting
<1>3. /\ w[t].i \in Int /\ recvbytes \in Int /\ w[t].n \in Int
      /\ Offset(t) \in Int /\ Held(part[t]) \in Int
  BY <1>0, OldTypes, Components, Offsets
<1> HIDE DEF i, pc
<1>4. /\ w' \in [T -> Thread] /\ w'[t].pc = pc /\ w'[t].i = i /\ w'[t].put = w[t].put
      /\ w'[t].n = w[t].n
      /\ \A u \in T \ {t} : w'[u] = w[u]
  <2> DEFINE new == [[w[t] EXCEPT !.pc = pc] EXCEPT !.i = i]
  <2>1. w[t] \in Thread /\ DOMAIN w = T
    BY <1>0, Components
  <2>2. w' = [w EXCEPT ![t] = new]
    BY <1>1, <2>1
  <2>3. new \in Thread /\ new.pc = pc /\ new.i = i /\ new.put = w[t].put /\ new.n = w[t].n
    BY <1>2, <2>1 DEF Thread
  <2> HIDE DEF new
  <2> QED BY <1>0, <2>2, <2>3, ThreadReplaced
<1>5. w'[t].pc \notin OnLine /\ FrameOf(t)'
  BY <1>2, <1>4 DEF OnLine, Writing, FrameOf, Starting, Quitting
<1>6. ASSUME OffsetInv(t) PROVE OffsetInv(t)'
  <2>1. /\ w[t].i = Offset(t) + Held(part[t]) /\ recvbytes > 0 /\ recvbytes = w[t].n
    BY <1>0, <1>6 DEF OffsetInv
  <2>2. i = Offset(t) + Held(part[t]) + w[t].n
    BY <1>2, <1>3, <2>1
  <2> QED BY <1>1, <1>2, <1>4, <1>6, <2>1, <2>2, SameOffsets DEF OffsetInv, Asking
<1>7. ASSUME OffsetInv(t), CleanInv(t) PROVE CleanInv(t)'
  <2>1. conn[t].pos = i
    BY <1>0, <1>2, <1>7 DEF OffsetInv, CleanInv
  <2> QED BY <1>1, <1>2, <1>4, <1>7, <2>1 DEF CleanInv
<1>8. WholeInv(t) => WholeInv(t)'
  BY <1>0, <1>1, <1>2, <1>4, Living DEF WholeInv, Asking, Counting, Starting, Quitting
<1> QED BY <1>0, <1>1, <1>4, <1>5, <1>6, <1>7, <1>8, OldTypes, QuietStep

(* What fwrite does to the part file, and what bytes that continue it make   *)
(* of a prefix.                                                              *)
LEMMA FwriteIs ==
    ASSUME TypeOK, NEW t \in T, NEW k \in Int, Fwrite(t, k)
    PROVE  \E m \in Nat :
             /\ k >= 0 => m = k
             /\ k < 0 /\ ~w[t].put => m = 0
             /\ part' \in [T -> PartFile] /\ \A u \in T \ {t} : part'[u] = part[u]
             /\ Held(part'[t]) = Held(part[t]) + m /\ part'[t].is = part[t].is
             /\ part'[t].disk >= part[t].disk
             /\ part'[t].clean = part[t].clean \/ part'[t].clean = part[t].clean + m
             /\ (/\ part[t].clean = Held(part[t])
                 /\ m = 0 \/ (k >= 0 /\ k <= w[t].n
                              /\ conn[t].pos - w[t].n = Home(t) + Held(part[t])))
                  => part'[t].clean = Held(part'[t])
<1> DEFINE right == k >= 0 /\ k <= w[t].n /\ conn[t].pos - w[t].n = Home(t) + Held(part[t])
<1>0. PICK m \in IF k >= 0 THEN {k} ELSE IF w[t].put THEN 0 .. Block ELSE {0} :
        \E f \in 0 .. part[t].mem + m : part' = [part EXCEPT ![t] = Appended(part[t], m, right, f)]
  BY DEF Fwrite
<1>1. PICK f \in 0 .. part[t].mem + m : part' = [part EXCEPT ![t] = Appended(part[t], m, right, f)]
  BY <1>0
<1>2. m \in Nat /\ (k >= 0 => m = k) /\ (k < 0 /\ ~w[t].put => m = 0)
  <2>1. Block \in Nat
    BY ConstantsAssumption
  <2> QED BY <1>0, <2>1
<1>3. part[t] \in PartFile /\ part \in [T -> PartFile] /\ right \in BOOLEAN
  BY Components DEF TypeOK, DataTypeOK
<1> DEFINE q == Appended(part[t], m, right, f)
<1>4. /\ q \in PartFile /\ q.is = part[t].is
      /\ Held(q) = Held(part[t]) + m /\ q.disk >= part[t].disk
      /\ ((right \/ m = 0) /\ part[t].clean = Held(part[t])) => q.clean = Held(q)
      /\ q.clean = part[t].clean \/ q.clean = part[t].clean + m
  <2> HIDE DEF right
  <2>1. f \in 0 .. part[t].mem + m
    BY <1>1
  <2>2. q.clean = part[t].clean \/ q.clean = part[t].clean + m
    BY DEF Appended
  <2> QED BY <1>2, <1>3, <2>1, <2>2, AppendedIs
<1>5. part' = [part EXCEPT ![t] = q]
  BY <1>1
<1> HIDE DEF q
<1>6. part' \in [T -> PartFile] /\ part'[t] = q /\ \A u \in T \ {t} : part'[u] = part[u]
  BY <1>3, <1>4, <1>5
<1>7. m \in Nat
  BY <1>2
<1> QED BY <1>2, <1>4, <1>6, <1>7

LEMMA WriteKeeps == ASSUME IInv, NEW t \in T, Write(t) PROVE IInv'
<1>0. TypeOK /\ w[t].pc = "write" /\ w[t].pc # "none"
  BY DEF IInv, Write
<1>1. /\ ThreadFrame /\ UNCHANGED <<down_size, lock, lines, bytes, conn, failures>>
      /\ UNCHANGED <<mpc, fsize, recvbytes>>
  BY DEF Write, ThreadFrame, bytes
<1>2. /\ recvbytes \in Int /\ w[t].i \in Int /\ w[t].n \in Nat
      /\ Offset(t) \in Nat /\ Size(t) \in Nat /\ Max_(t) = Offset(t) + Size(t)
      /\ Held(part[t]) \in Nat /\ PartSize(FileSize, Threads, t) \in Nat
      /\ fsize = FileSize => Offset(t) = Home(t) /\ Size(t) = PartSize(FileSize, Threads, t)
      /\ fsize # FileSize => Offset(t) = 0 /\ Size(t) = 0
  BY <1>0, OldTypes, Components, Offsets, PartTypes
<1>3. PICK m \in Nat :
        /\ recvbytes >= 0 => m = recvbytes
        /\ recvbytes < 0 /\ ~w[t].put => m = 0
        /\ part' \in [T -> PartFile] /\ \A u \in T \ {t} : part'[u] = part[u]
        /\ Held(part'[t]) = Held(part[t]) + m /\ part'[t].is = part[t].is
        /\ (/\ part[t].clean = Held(part[t])
            /\ m = 0 \/ (recvbytes >= 0 /\ recvbytes <= w[t].n
                         /\ conn[t].pos - w[t].n = Home(t) + Held(part[t])))
             => part'[t].clean = Held(part'[t])
  <2>1. Fwrite(t, recvbytes)
    BY DEF Write
  <2> QED BY <1>0, <1>2, <2>1, FwriteIs
<1>4. /\ w' \in [T -> Thread] /\ w'[t].pc \in {"tell", "lock"} /\ w'[t].i = w[t].i
      /\ w'[t].n = w[t].n
      /\ recvbytes > 0 => w'[t].pc = "tell" /\ w'[t].got = recvbytes
      /\ \A u \in T \ {t} : w'[u] = w[u]
  <2> DEFINE new == IF recvbytes > 0
                    THEN [w[t] EXCEPT !.pc = "tell", !.got = recvbytes, !.put = TRUE]
                    ELSE [w[t] EXCEPT !.pc = "lock"]
  <2>1. w[t] \in Thread /\ DOMAIN w = T
    BY <1>0, Components
  <2>2. w' = [w EXCEPT ![t] = new]
    BY <2>1 DEF Write
  <2>3. /\ new \in Thread /\ new.pc \in {"tell", "lock"} /\ new.i = w[t].i /\ new.n = w[t].n
        /\ recvbytes > 0 => new.pc = "tell" /\ new.got = recvbytes
    BY <1>2, <2>1 DEF Thread, Pcs, Counting
  <2> HIDE DEF new
  <2> QED BY <1>0, <2>2, <2>3, ThreadReplaced
<1>5. w'[t].pc \notin OnLine /\ FrameOf(t)'
  BY <1>4 DEF OnLine, Writing, FrameOf, Starting, Quitting
<1>6. ASSUME OffsetInv(t)
      PROVE  /\ OffsetInv(t)' /\ m = w[t].n /\ recvbytes = w[t].n /\ recvbytes > 0
             /\ fsize = FileSize /\ w[t].i = Offset(t) + Held(part[t]) + w[t].n
  <2>1. /\ w[t].i = Offset(t) + Held(part[t]) + w[t].n /\ w[t].i < Max_(t)
        /\ recvbytes > 0 /\ recvbytes = w[t].n
    BY <1>0, <1>6 DEF OffsetInv
  <2>2. m = w[t].n /\ fsize = FileSize
    BY <1>2, <1>3, <2>1
  <2>3. Held(part'[t]) <= PartSize(FileSize, Threads, t) /\ w'[t].i = Offset(t) + Held(part'[t])
    BY <1>2, <1>3, <1>4, <2>1, <2>2
  <2> QED BY <1>1, <1>4, <1>6, <2>1, <2>2, <2>3, SameOffsets DEF OffsetInv, Asking
<1>7. ASSUME OffsetInv(t), CleanInv(t) PROVE CleanInv(t)'
  <2>1. part[t].clean = Held(part[t]) /\ conn[t].pos = w[t].i
    BY <1>0, <1>7 DEF CleanInv
  <2>2. Home(t) = Offset(t) /\ conn[t].pos - w[t].n = Home(t) + Held(part[t])
    BY <1>2, <1>6, <1>7, <2>1
  <2>3. recvbytes >= 0 /\ recvbytes <= w[t].n
    BY <1>2, <1>6, <1>7
  <2>4. part'[t].clean = Held(part'[t])
    BY <1>3, <2>1, <2>2, <2>3
  <2> QED BY <1>1, <1>4, <1>6, <1>7, <2>1, <2>4 DEF CleanInv
<1>8. ASSUME OffsetInv(t), WholeInv(t) PROVE WholeInv(t)'
  <2>1. w'[t].pc = "tell"
    BY <1>4, <1>6, <1>8
  <2> QED BY <1>0, <1>1, <1>3, <1>8, <2>1, Living
          DEF WholeInv, Asking, Counting, Starting, Quitting
<1> QED BY <1>0, <1>1, <1>3, <1>4, <1>5, <1>6, <1>7, <1>8, OldTypes, QuietStep

LEMMA TellKeeps == ASSUME IInv, NEW t \in T, Tell(t) PROVE IInv'
<1>0. TypeOK /\ w[t].pc = "tell" /\ w[t].pc # "none"
  BY DEF IInv, Tell
<1>1. /\ ThreadFrame /\ UNCHANGED <<down_size, lock, lines, bytes, conn, part, failures>>
      /\ UNCHANGED <<mpc, fsize, recvbytes>>
  BY DEF Tell, ThreadFrame, bytes
<1>2. /\ w' \in [T -> Thread] /\ w'[t].pc = "lock" /\ w'[t].i = w[t].i /\ w'[t].put = w[t].put
      /\ \A u \in T \ {t} : w'[u] = w[u]
  <2> DEFINE new == [[w[t] EXCEPT !.pc = "lock"] EXCEPT !.got = recvbytes]
  <2>1. w[t] \in Thread /\ DOMAIN w = T /\ recvbytes \in Int
    BY <1>0, OldTypes, Components
  <2>2. w' = [w EXCEPT ![t] = new]
    BY <2>1 DEF Tell
  <2>3. new \in Thread /\ new.pc = "lock" /\ new.i = w[t].i /\ new.put = w[t].put
    BY <2>1 DEF Thread, Pcs
  <2> HIDE DEF new
  <2> QED BY <1>0, <2>2, <2>3, ThreadReplaced
<1>3. w'[t].pc \notin OnLine /\ FrameOf(t)'
  BY <1>2 DEF OnLine, Writing, FrameOf, Starting, Quitting
<1>4. OffsetInv(t) => OffsetInv(t)'
  BY <1>0, <1>1, <1>2, SameOffsets DEF OffsetInv, Asking
<1>5. CleanInv(t) => CleanInv(t)'
  BY <1>0, <1>1, <1>2 DEF CleanInv
<1>6. WholeInv(t) => WholeInv(t)'
  BY <1>0, <1>1, <1>2, Living DEF WholeInv, Asking, Counting, Starting, Quitting
<1> QED BY <1>0, <1>1, <1>2, <1>3, <1>4, <1>5, <1>6, OldTypes, QuietStep

LEMMA CutKeeps == ASSUME IInv, NEW t \in T, Cut(t) PROVE IInv'
<1> DEFINE k == Reset(t)
<1>0. TypeOK /\ w[t].pc = "cut" /\ w[t].pc # "none"
  BY DEF IInv, Cut
<1>1. /\ ThreadFrame /\ UNCHANGED <<down_size, lock, lines, bytes, conn, failures>>
      /\ UNCHANGED <<mpc, fsize, recvbytes>>
  BY DEF Cut, ThreadFrame, bytes
<1>2. /\ recvbytes \in Int /\ w[t].i \in Int /\ w[t].n \in Nat
      /\ Offset(t) \in Nat /\ Size(t) \in Nat /\ Max_(t) = Offset(t) + Size(t)
      /\ Held(part[t]) \in Nat /\ PartSize(FileSize, Threads, t) \in Nat
      /\ fsize = FileSize => Offset(t) = Home(t) /\ Size(t) = PartSize(FileSize, Threads, t)
      /\ fsize # FileSize => Offset(t) = 0 /\ Size(t) = 0
  BY <1>0, OldTypes, Components, Offsets, PartTypes
<1>k. k \in Int /\ k = Max_(t) - (w[t].i - recvbytes) /\ Fwrite(t, k)
  BY <1>2 DEF Reset, Cut
<1>4. /\ w' \in [T -> Thread] /\ w'[t].pc = "lock" /\ w'[t].i = Max_(t) /\ w'[t].put = w[t].put
      /\ \A u \in T \ {t} : w'[u] = w[u]
  <2> DEFINE new == [w[t] EXCEPT !.pc = "lock", !.i = Max_(t), !.got = IF k > 0 THEN k ELSE 0]
  <2>1. w[t] \in Thread /\ DOMAIN w = T /\ Max_(t) \in Int
    BY <1>0, <1>2, Components
  <2>2. w' = [w EXCEPT ![t] = new]
    BY <2>1 DEF Cut
  <2>3. new \in Thread /\ new.pc = "lock" /\ new.i = Max_(t) /\ new.put = w[t].put
    <3>1. "lock" \in Pcs /\ (IF k > 0 THEN k ELSE 0) \in Int
      BY <1>k DEF Pcs
    <3> HIDE DEF k
    <3> QED BY <2>1, <3>1 DEF Thread
  <2> HIDE DEF new
  <2> QED BY <1>0, <2>2, <2>3, ThreadReplaced
<1> HIDE DEF k
<1>3. PICK m \in Nat :
        /\ k >= 0 => m = k
        /\ k < 0 /\ ~w[t].put => m = 0
        /\ part' \in [T -> PartFile] /\ \A u \in T \ {t} : part'[u] = part[u]
        /\ Held(part'[t]) = Held(part[t]) + m /\ part'[t].is = part[t].is
        /\ (/\ part[t].clean = Held(part[t])
            /\ m = 0 \/ (k >= 0 /\ k <= w[t].n
                         /\ conn[t].pos - w[t].n = Home(t) + Held(part[t])))
             => part'[t].clean = Held(part'[t])
  BY <1>0, <1>k, FwriteIs
<1>5. w'[t].pc \notin OnLine /\ FrameOf(t)'
  BY <1>4 DEF OnLine, Writing, FrameOf, Starting, Quitting
<1>o. ASSUME OffsetInv(t)
      PROVE  /\ k = Size(t) - Held(part[t]) /\ k <= w[t].n
             /\ w[t].i = Offset(t) + Held(part[t]) + w[t].n
             /\ fsize = FileSize => k >= 0 /\ Held(part'[t]) = Size(t)
             /\ fsize # FileSize => m = 0
  <2>1. /\ w[t].i = Offset(t) + Held(part[t]) + w[t].n /\ w[t].i >= Max_(t)
        /\ recvbytes = w[t].n /\ Held(part[t]) <= PartSize(FileSize, Threads, t)
        /\ w[t].put => fsize = FileSize
    BY <1>0, <1>o DEF OffsetInv
  <2>2. k = Size(t) - Held(part[t]) /\ k <= w[t].n
    BY <1>2, <1>k, <2>1
  <2>3. fsize = FileSize => k >= 0 /\ Held(part'[t]) = Size(t)
    BY <1>2, <1>3, <2>1, <2>2
  <2>4. ASSUME fsize # FileSize PROVE m = 0
    <3>1. k <= 0 /\ ~w[t].put
      BY <1>2, <2>1, <2>2, <2>4
    <3> QED BY <1>3, <1>k, <3>1
  <2> QED BY <2>1, <2>2, <2>3, <2>4
<1>6. ASSUME OffsetInv(t) PROVE OffsetInv(t)'
  <2>1. Held(part[t]) <= PartSize(FileSize, Threads, t) /\ (w[t].put => fsize = FileSize)
    BY <1>6 DEF OffsetInv
  <2>2. Held(part'[t]) <= PartSize(FileSize, Threads, t)
    BY <1>2, <1>3, <1>6, <1>o, <2>1
  <2>3. w'[t].i = Offset(t) + Held(part'[t]) \/ (w'[t].i = Max_(t) /\ fsize # FileSize)
    BY <1>2, <1>4, <1>6, <1>o
  <2> QED BY <1>1, <1>4, <2>1, <2>2, <2>3, SameOffsets DEF OffsetInv, Asking
<1>7. ASSUME OffsetInv(t), CleanInv(t) PROVE CleanInv(t)'
  <2>1. part[t].clean = Held(part[t]) /\ conn[t].pos = w[t].i
    BY <1>0, <1>7 DEF CleanInv
  <2>2. CASE fsize = FileSize
    <3>1. k >= 0 /\ k <= w[t].n /\ conn[t].pos - w[t].n = Home(t) + Held(part[t])
      BY <1>2, <1>7, <1>o, <2>1, <2>2
    <3>2. part'[t].clean = Held(part'[t])
      BY <1>3, <2>1, <3>1
    <3> QED BY <1>1, <1>4, <3>2, SameOffsets DEF CleanInv
  <2>3. CASE fsize # FileSize
    <3>1. part'[t].clean = Held(part'[t])
      BY <1>3, <1>7, <1>o, <2>1, <2>3
    <3> QED BY <1>1, <1>4, <3>1, SameOffsets DEF CleanInv
  <2> QED BY <2>2, <2>3
<1>8. WholeInv(t) => WholeInv(t)'
  BY <1>0, <1>1, <1>3, <1>4, Living DEF WholeInv, Asking, Counting, Starting, Quitting
<1> QED BY <1>0, <1>1, <1>3, <1>4, <1>5, <1>6, <1>7, <1>8, OldTypes, QuietStep

LEMMA WriteFaultKeeps == ASSUME IInv, NEW t \in T, WriteFault(t) PROVE IInv'
BY DieKeeps DEF WriteFault

LEMMA LockKeeps == ASSUME IInv, NEW t \in T, Lock(t) PROVE IInv'
<1>0. TypeOK /\ w[t].pc = "lock" /\ w[t].pc # "none"
  BY DEF IInv, Lock
<1>1. /\ lock' = t /\ w' = [w EXCEPT ![t].pc = "add", ![t].ld = down_size]
      /\ ThreadFrame /\ UNCHANGED <<down_size, lines, bytes, conn, part, failures>>
      /\ UNCHANGED <<mpc, fsize, recvbytes>>
  BY DEF Lock, ThreadFrame, bytes
<1>2. /\ w' \in [T -> Thread] /\ w'[t].pc = "add" /\ w'[t].i = w[t].i /\ w'[t].put = w[t].put
      /\ \A u \in T \ {t} : w'[u] = w[u]
  <2> DEFINE new == [[w[t] EXCEPT !.pc = "add"] EXCEPT !.ld = down_size]
  <2>1. w[t] \in Thread /\ DOMAIN w = T /\ down_size \in Int
    BY <1>0, OldTypes, Components
  <2>2. w' = [w EXCEPT ![t] = new]
    BY <1>1, <2>1
  <2>3. new \in Thread /\ new.pc = "add" /\ new.i = w[t].i /\ new.put = w[t].put
    BY <2>1 DEF Thread, Pcs
  <2> HIDE DEF new
  <2> QED BY <1>0, <2>2, <2>3, ThreadReplaced
<1>3. w'[t].pc \notin OnLine /\ FrameOf(t)'
  BY <1>2 DEF OnLine, Writing, FrameOf, Starting, Quitting
<1>4. OffsetInv(t) => OffsetInv(t)'
  BY <1>0, <1>1, <1>2, SameOffsets DEF OffsetInv, Asking
<1>5. CleanInv(t) => CleanInv(t)'
  BY <1>0, <1>1, <1>2, SameOffsets DEF CleanInv
<1>6. WholeInv(t) => WholeInv(t)'
  BY <1>0, <1>1, <1>2, Living DEF WholeInv, Asking, Counting, Starting, Quitting
<1> QED BY <1>0, <1>1, <1>2, <1>3, <1>4, <1>5, <1>6, OldTypes, QuietStep

LEMMA AddKeeps == ASSUME IInv, NEW t \in T, Add(t) PROVE IInv'
<1> DEFINE pc == IF w[t].i = Max_(t) THEN "close" ELSE "recv"
<1>0. TypeOK /\ w[t].pc = "add" /\ w[t].pc # "none"
  BY DEF IInv, Add
<1>1. /\ down_size' = w[t].ld + w[t].got /\ lock' = Unlocked
      /\ w' = [w EXCEPT ![t].pc = pc, ![t].n = 0, ![t].got = 0, ![t].ld = 0]
      /\ ThreadFrame /\ UNCHANGED <<lines, bytes, conn, part, failures>>
      /\ UNCHANGED <<mpc, fsize, recvbytes>>
  BY DEF Add, ThreadFrame, bytes
<1>2. pc \in {"close", "recv"} /\ (pc = "close" <=> w[t].i = Max_(t))
  OBVIOUS
<1> HIDE DEF pc
<1>3. /\ w' \in [T -> Thread] /\ w'[t].pc = pc /\ w'[t].i = w[t].i /\ w'[t].put = w[t].put
      /\ \A u \in T \ {t} : w'[u] = w[u]
  <2> DEFINE there == [[w[t] EXCEPT !.pc = pc] EXCEPT !.n = 0]
             added == [there EXCEPT !.got = 0]
             new == [added EXCEPT !.ld = 0]
  <2>1. w[t] \in Thread /\ DOMAIN w = T /\ pc \in Pcs
    BY <1>0, <1>2, Components DEF Pcs
  <2>2. w' = [w EXCEPT ![t] = new]
    BY <1>1, <2>1
  <2>3. there \in Thread /\ there.pc = pc /\ there.i = w[t].i /\ there.put = w[t].put
    BY <2>1 DEF Thread
  <2> HIDE DEF there
  <2>4. /\ added \in Thread /\ added.pc = there.pc /\ added.i = there.i
        /\ added.put = there.put
    BY <2>3 DEF Thread
  <2> HIDE DEF added
  <2>5. new \in Thread /\ new.pc = added.pc /\ new.i = added.i /\ new.put = added.put
    BY <2>4 DEF Thread
  <2> HIDE DEF new
  <2> QED BY <1>0, <2>2, <2>3, <2>4, <2>5, ThreadReplaced
<1>4. w'[t].pc \notin OnLine /\ FrameOf(t)'
  BY <1>2, <1>3 DEF OnLine, Writing, FrameOf, Starting, Quitting
<1>5. OffsetInv(t) => OffsetInv(t)'
  BY <1>0, <1>1, <1>2, <1>3, SameOffsets DEF OffsetInv, Asking
<1>6. CleanInv(t) => CleanInv(t)'
  BY <1>0, <1>1, <1>2, <1>3, SameOffsets DEF CleanInv
<1>7. ASSUME OffsetInv(t), WholeInv(t), fsize = FileSize PROVE WholeInv(t)'
  <2>1. w[t].i < Max_(t) \/ w[t].i = Max_(t)
    <3>1. w[t].i = Offset(t) + Held(part[t]) /\ Held(part[t]) <= PartSize(FileSize, Threads, t)
      BY <1>0, <1>7 DEF OffsetInv
    <3>2. Held(part[t]) \in Nat
      BY <1>0, Components
    <3>3. /\ Offset(t) \in Nat /\ Size(t) \in Nat /\ Max_(t) = Offset(t) + Size(t)
          /\ Size(t) = PartSize(FileSize, Threads, t)
      BY <1>0, <1>7, Offsets
    <3> QED BY <3>1, <3>2, <3>3
  <2> QED BY <1>0, <1>1, <1>2, <1>3, <1>7, <2>1, Living, SameOffsets
          DEF WholeInv, Asking, Counting, Starting, Quitting
<1>8. down_size' \in Int /\ lock' \in T \cup {Unlocked}
  BY <1>0, <1>1, Components
<1> QED BY <1>0, <1>1, <1>3, <1>4, <1>5, <1>6, <1>7, <1>8, OldTypes, QuietStep

LEMMA CloseKeeps == ASSUME IInv, NEW t \in T, Close(t) PROVE IInv'
<1>0. TypeOK /\ w[t].pc = "close" /\ w[t].pc # "none"
  BY DEF IInv, Close
<1>1. part' = [part EXCEPT ![t] = Flushed(@)] /\ Leave(t)
  BY DEF Close
<1>2. /\ part' \in [T -> PartFile] /\ \A u \in T \ {t} : part'[u] = part[u]
      /\ Held(part'[t]) = Held(part[t]) /\ part'[t].clean = part[t].clean
      /\ part'[t].is = part[t].is /\ part'[t].mem = 0 /\ part'[t].disk = Held(part[t])
  BY <1>0, <1>1, FileClosedIs
<1>3. ASSUME ~tainted, failures = 0 PROVE part'[t].is = "file" /\ Complete(t)'
  <2>1. WholeInv(t) /\ OffsetInv(t) /\ fsize = FileSize
    BY <1>0, <1>3, Living
  <2>2. w[t].i = Max_(t) /\ w[t].i = Offset(t) + Held(part[t]) /\ part[t].is = "file"
    BY <1>0, <2>1 DEF WholeInv, OffsetInv, Starting
  <2>3. Held(part[t]) \in Nat
    BY <1>0, Components
  <2>4. /\ Offset(t) \in Nat /\ Size(t) \in Nat /\ Max_(t) = Offset(t) + Size(t)
        /\ Size(t) = PartSize(FileSize, Threads, t)
    BY <1>0, <2>1, Offsets
  <2>5. Held(part[t]) = PartSize(FileSize, Threads, t)
    <3>1. \A a, b, c \in Nat : a + b = a + c => b = c
      OBVIOUS
    <3>2. Offset(t) + Held(part[t]) = Offset(t) + Size(t)
      BY <2>2, <2>4
    <3> QED BY <2>3, <2>4, <3>1, <3>2
  <2> QED BY <1>2, <2>2, <2>5 DEF Complete
<1> QED BY <1>0, <1>1, <1>2, <1>3, LeaveStep

(* A connection fails that data is received on. *)
LEMMA DataFailsKeeps == ASSUME IInv, NEW t \in T, DataFails(t) PROVE IInv'
<1>0. TypeOK /\ conn[t].st = "sending" /\ failures < MaxFailures /\ failures' = failures + 1
  BY DEF IInv, DataFails
<1>1. /\ ThreadFrame /\ UNCHANGED <<down_size, lock, w, part>> /\ UNCHANGED <<lines, bytes>>
      /\ UNCHANGED <<mpc, fsize, recvbytes, sendline, recvline>>
  BY DEF DataFails, ThreadFrame, lines, bytes
<1>2. PICK st \in {"eof", "reset"} : conn' = [conn EXCEPT ![t].st = st, ![t].left = 0]
  BY DEF DataFails
<1>3. /\ conn' \in [T -> Connection] /\ conn'[t].pos = conn[t].pos /\ conn'[t].rest = conn[t].rest
      /\ \A u \in T \ {t} : conn'[u] = conn[u]
  <2> DEFINE new == [[conn[t] EXCEPT !.st = st] EXCEPT !.left = 0]
  <2>1. conn[t] \in Connection /\ DOMAIN conn = T
    BY <1>0, Components
  <2>2. conn' = [conn EXCEPT ![t] = new]
    BY <1>2, <2>1
  <2>3. new \in Connection /\ new.pos = conn[t].pos /\ new.rest = conn[t].rest
    BY <2>1 DEF Connection
  <2> HIDE DEF new
  <2> QED BY <1>0, <2>2, <2>3, ConnReplaced
<1>4. w[t].pc \notin Starting \cup Quitting /\ w[t].pc # "none"
  <2>1. conn[t] # NoConn
    BY <1>0, Nothing
  <2> QED BY <2>1 DEF IInv, FrameInv, Starting
<1>5. failures' \in 0 .. MaxFailures /\ failures' # 0
  BY <1>0, OldTypes, ConstantsAssumption
<1>6. Shares(t) /\ SharedTypeOK'
  BY <1>0, <1>1, OldTypes, QuietIs
<1>7. EntersAlone(t)
  BY <1>1 DEF EntersAlone
<1>8. FrameOf(t)'
  BY <1>1, <1>4, Living DEF FrameOf
<1>9. bytesMet' = 0 => OffsetInv(t)'
  BY <1>1, <1>4, <1>5, <1>6, LivingNow, SameOffsets DEF OffsetInv
<1>10. ~tainted' => CleanInv(t)'
  BY <1>1, <1>3, <1>4, <1>5, <1>6, LivingNow, SameOffsets DEF CleanInv
<1> QED BY <1>1, <1>3, <1>4, <1>5, <1>6, <1>7, <1>8, <1>9, <1>10, OldTypes, StepOfOne

-------------------------------------------------------------------------------
(* The inductive invariant *)

LEMMA InitIInv == Init => IInv
<1> SUFFICES ASSUME Init PROVE IInv
  OBVIOUS
<1>1. TypeOK
  <2>1. ProcessTypeOK /\ SharedTypeOK
    BY Nothing, ConstantsAssumption DEF Init, ProcessTypeOK, SharedTypeOK
  <2>2. DataTypeOK
    BY Nothing DEF Init, DataTypeOK
  <2>3. FilesTypeOK /\ FlagTypeOK
    BY DEF Init, FilesTypeOK, FlagTypeOK
  <2> QED BY <2>1, <2>2, <2>3 DEF TypeOK
<1>2. ASSUME NEW t \in T
      PROVE  /\ w[t] = NoThread /\ w[t].pc = "none" /\ w[t].put = FALSE
             /\ conn[t] = NoConn /\ conn[t].st = "none"
             /\ part[t].mem = 0 /\ Held(part[t]) = 0 /\ part[t].clean = 0
  BY Nothing DEF Init
<1>3. FrameInv /\ AloneInv
  BY <1>2 DEF FrameInv, AloneInv, OnLine, Writing
<1>4. ASSUME NEW t \in T PROVE OffsetInv(t) /\ CleanInv(t) /\ WholeInv(t)
  <2>1. mpc = "none" /\ recvbytes = 0
    BY DEF Init
  <2>h. Held(part[t]) = 0
    BY <1>2
  <2>s. conn[t].st = "none"
    BY <1>2
  <2>2. PartSize(FileSize, Threads, t) \in Nat
    BY PartTypes
  <2>a. /\ w[t].pc \notin Asking \cup Counting \cup {"open", "look", "recv", "lock", "add", "close"}
        /\ w[t].pc \notin Quitting /\ w[t].pc \in Starting /\ ~w[t].put
    BY <1>2 DEF Asking, Counting, Starting, Quitting
  <2>3. OffsetInv(t)
    <3>1. Held(part[t]) <= PartSize(FileSize, Threads, t)
      BY <2>2, <2>h
    <3> QED BY <2>a, <3>1 DEF OffsetInv, Counting
  <2>4. CleanInv(t)
    BY <1>2 DEF CleanInv
  <2>5. WholeInv(t)
    <3>1. mpc # "create" /\ mpc # "merge" /\ recvbytes >= 0 /\ conn[t].st # "reset"
      BY <2>1, <2>s
    <3> QED BY <2>a, <3>1 DEF WholeInv, Counting
  <2> QED BY <2>3, <2>4, <2>5
<1>5. MergeInv
  BY DEF Init, MergeInv
<1> QED BY <1>1, <1>3, <1>4, <1>5 DEF IInv

LEMMA ThreadStepKeeps == ASSUME IInv, NEW t \in T, ThreadStep(t) PROVE IInv'
<1>1. CASE Login(t)  BY <1>1, LoginKeeps
<1>2. CASE PutLogin(t) \/ PutRest(t) \/ PutRetr(t) \/ PutQuit(t)  BY <1>2, PutKeeps
<1>3. CASE SendLogin(t)  BY <1>3, SendLoginKeeps
<1>4. CASE Misled(t)  BY <1>4, MisledKeeps
<1>5. CASE OpenComplete(t)  BY <1>5, OpenCompleteKeeps
<1>6. CASE Open(t)  BY <1>6, OpenKeeps
<1>7. CASE ClearRest(t) \/ ClearRetr(t) \/ ClearQuit(t)  BY <1>7, ClearKeeps
<1>8. CASE SendRest(t)  BY <1>8, SendRestKeeps
<1>9. CASE SendRetr(t)  BY <1>9, SendRetrKeeps
<1>10. CASE Look(t)  BY <1>10, LookKeeps
<1>11. CASE LookWrong(t)  BY <1>11, LookWrongKeeps
<1>12. CASE Recv(t)  BY <1>12, RecvKeeps
<1>13. CASE UseError(t)  BY <1>13, UseErrorKeeps
<1>14. CASE UseEnd(t)  BY <1>14, UseEndKeeps
<1>15. CASE Use(t)  BY <1>15, UseKeeps
<1>16. CASE Count(t)  BY <1>16, CountKeeps
<1>17. CASE Write(t)  BY <1>17, WriteKeeps
<1>18. CASE Tell(t)  BY <1>18, TellKeeps
<1>19. CASE Cut(t)  BY <1>19, CutKeeps
<1>20. CASE WriteFault(t)  BY <1>20, WriteFaultKeeps
<1>21. CASE Lock(t)  BY <1>21, LockKeeps
<1>22. CASE Add(t)  BY <1>22, AddKeeps
<1>23. CASE Close(t)  BY <1>23, CloseKeeps
<1>24. CASE SendQuit(t)  BY <1>24, SendQuitKeeps
<1> QED BY <1>1, <1>2, <1>3, <1>4, <1>5, <1>6, <1>7, <1>8, <1>9, <1>10, <1>11, <1>12, <1>13,
           <1>14, <1>15, <1>16, <1>17, <1>18, <1>19, <1>20, <1>21, <1>22, <1>23, <1>24
        DEF ThreadStep

LEMMA MainStepKeeps == IInv /\ MainStep => IInv'
<1> SUFFICES ASSUME IInv, MainStep PROVE IInv'
  OBVIOUS
<1>1. CASE FetchMd5  BY <1>1, Md5Keeps
<1>2. CASE CreateThread  BY <1>2, CreateThreadKeeps
<1>3. CASE Join  BY <1>3, JoinKeeps
<1>4. CASE MergePart  BY <1>4, MergePartKeeps
<1>5. CASE MergeMissing  BY <1>5, DieKeeps DEF MergeMissing
<1>6. CASE FinishRemoved  BY <1>6, FinishKeeps
<1>7. CASE CheckMissing  BY <1>7, DieKeeps DEF CheckMissing
<1>8. CASE FinishKept  BY <1>8, FinishKeeps
<1> QED BY <1>1, <1>2, <1>3, <1>4, <1>5, <1>6, <1>7, <1>8 DEF MainStep

(* A step that changes nothing. *)
LEMMA StutterKeeps == IInv /\ UNCHANGED vars => IInv'
<1> SUFFICES ASSUME IInv, UNCHANGED vars PROVE IInv'
  OBVIOUS
<1>0. /\ UNCHANGED <<mpc, fsize, idx, down_size, lock, w, conn, part, tempDir, md5, target>>
      /\ UNCHANGED <<runs, failures, sendline, recvline, recvbytes, lineMet, bytesMet>>
  BY DEF vars, lines, bytes
<1>1. TypeOK' /\ FrameInv'
  BY <1>0 DEF IInv, FrameInv,
              TypeOK, ProcessTypeOK, SharedTypeOK, DataTypeOK, FilesTypeOK, FlagTypeOK
<1>2. ASSUME NEW t \in T
      PROVE  /\ OffsetInv(t) => OffsetInv(t)'
             /\ CleanInv(t) => CleanInv(t)'
             /\ WholeInv(t) => WholeInv(t)'
  <2>1. Offset(t)' = Offset(t) /\ Size(t)' = Size(t) /\ Max_(t)' = Max_(t)
    BY <1>0, SameOffsets
  <2> QED BY <1>0, <2>1 DEF OffsetInv, CleanInv, WholeInv, Complete
<1>3. (AloneInv => AloneInv') /\ (MergeInv => MergeInv')
  BY <1>0 DEF AloneInv, MergeInv, Whole, Home
<1>4. tainted' = tainted
  BY <1>0 DEF tainted
<1> QED BY <1>0, <1>1, <1>2, <1>3, <1>4 DEF IInv

LEMMA NextKeeps == IInv /\ [Next]_vars => IInv'
<1> SUFFICES ASSUME IInv, [Next]_vars PROVE IInv'
  OBVIOUS
<1>1. CASE Spawn  BY <1>1, SpawnKeeps
<1>2. CASE Kill  BY <1>2, DieKeeps DEF Kill
<1>3. CASE MainStep  BY <1>3, MainStepKeeps
<1>4. CASE FetchMd5Fails  BY <1>4, Md5Keeps
<1>5. CASE FetchMd5Exits  BY <1>5, Md5ExitsKeeps
<1>6. CASE SizeNotLearnt  BY <1>6, Md5Keeps
<1>7. ASSUME NEW t \in T,
             ThreadStep(t) \/ LoginFails(t) \/ PasvFails(t) \/ DataConnectFails(t) \/ DataFails(t)
      PROVE  IInv'
  BY <1>7, ThreadStepKeeps, LoginFailsKeeps, PasvFailsKeeps, DataConnectFailsKeeps,
     DataFailsKeeps
<1>8. CASE UNCHANGED vars  BY <1>8, StutterKeeps
<1> QED BY <1>1, <1>2, <1>3, <1>4, <1>5, <1>6, <1>7, <1>8 DEF Next

(* Every reachable state satisfies the inductive invariant: what an offset,  *)
(* the shared command, the shared answer, the shared count and the stream of *)
(* a connection say of each other at every step of a thread (ftp_retr), as   *)
(* long as no other thread wrote to what it reads.                           *)
THEOREM IInvCorrect == Spec => []IInv
<1>1. Init => IInv
  BY InitIInv
<1>2. IInv /\ [Next]_vars => IInv'
  BY NextKeeps
<1> QED BY <1>1, <1>2, PTL DEF Spec

(* Every variable keeps its type, whatever threads do to the buffers they    *)
(* share: a step is defined in every state, also where recvbytes was another *)
(* thread's and the progress has become negative.                            *)
THEOREM TypeCorrect == Spec => []TypeOK
<1>1. IInv => TypeOK
  BY DEF IInv
<1> QED BY <1>1, IInvCorrect, PTL

(* As long as threads do not meet in recvbytes no part file grows beyond its *)
(* part, whatever they do to each other's commands and whatever a server     *)
(* sends (the comparison of ftp.c:558).                                      *)
THEOREM FitCorrect == Spec => []PartsFit
<1>1. IInv => PartsFit
  BY DEF IInv, OffsetInv, PartsFit
<1> QED BY <1>1, IInvCorrect, PTL

(* Unless threads met in the global buffers every part file is a prefix of   *)
(* its part, over any number of kills, failures and resumed runs.            *)
THEOREM PrefixCorrect == Spec => []PartsArePrefixes
<1>1. IInv => PartsArePrefixes
  BY DEF IInv, CleanInv, PartsArePrefixes
<1> QED BY <1>1, IInvCorrect, PTL

(* A process that ends undisturbed has merged the whole file.                *)
THEOREM DoneCorrect == Spec => []DoneMeansWhole
<1>1. IInv => DoneMeansWhole
  BY DEF IInv, MergeInv, DoneMeansWhole
<1> QED BY <1>1, IInvCorrect, PTL

-------------------------------------------------------------------------------
(* What is on the disk stays there *)

(* What a step of a thread does to the part files. *)
LEMMA ThreadParts ==
    ASSUME NEW t \in T, ThreadStep(t)
    PROVE  \/ Die
           \/ Misled(t) /\ Exit
           \/ /\ ThreadFrame
              /\ \/ part' = part
                 \/ part' = [part EXCEPT ![t] = Flushed(@)]
                 \/ part' = [part EXCEPT ![t].is = "file"]
                 \/ Write(t)
                 \/ Cut(t)
<1>1. CASE Login(t)  BY <1>1 DEF Login
<1>2. CASE PutLogin(t) \/ PutRest(t) \/ PutRetr(t) \/ PutQuit(t)
  BY <1>2 DEF PutLogin, PutRest, PutRetr, PutQuit, Put, ThreadFrame
<1>3. CASE SendLogin(t) \/ SendRest(t) \/ SendRetr(t) \/ SendQuit(t)
  BY <1>3 DEF SendLogin, SendRest, SendRetr, SendQuit, Exchange
<1>4. CASE Misled(t)  BY <1>4 DEF Misled
<1>5. CASE ClearRest(t) \/ ClearRetr(t) \/ ClearQuit(t)
  BY <1>5 DEF ClearRest, ClearRetr, ClearQuit, ClearFor
<1>6. CASE OpenComplete(t) \/ UseError(t) \/ UseEnd(t) \/ Close(t)
  BY <1>6 DEF OpenComplete, UseError, UseEnd, Close, Leave
<1>7. CASE LookWrong(t)  BY <1>7 DEF LookWrong, Leave
<1>8. CASE Open(t) \/ Look(t) \/ Recv(t) \/ Use(t) \/ Count(t) \/ Tell(t) \/ Lock(t) \/ Add(t)
  BY <1>8 DEF Open, Look, Recv, Use, Count, Tell, Lock, Add
<1>9. CASE Write(t) \/ Cut(t)  BY <1>9 DEF Write, Cut
<1>10. CASE WriteFault(t)  BY <1>10 DEF WriteFault
<1> QED BY <1>1, <1>2, <1>3, <1>4, <1>5, <1>6, <1>7, <1>8, <1>9, <1>10 DEF ThreadStep

(* As much as a thread may write. *)
LEMMA FwriteOf ==
    ASSUME IInv, NEW t \in T, Write(t) \/ Cut(t)
    PROVE  \E k \in Int : Fwrite(t, k)
<1>1. recvbytes \in Int /\ Reset(t) \in Int
  BY OldTypes, Components, Offsets DEF Reset, IInv
<1> QED BY <1>1 DEF Write, Cut

(* What any step does to a part file. *)
LEMMA PartSteps ==
    ASSUME IInv, [Next]_vars, NEW t \in T
    PROVE  \/ part'[t] \in {part[t], Unflushed(part[t]), Flushed(part[t])}
           \/ part'[t] = [part[t] EXCEPT !.is = "file"]
           \/ part'[t].disk >= part[t].disk
           \/ Whole
<1>0. TypeOK /\ t \in DOMAIN part
  BY Components DEF IInv
<1>2. CASE part' = part
  BY <1>2
<1>3. CASE Die \/ Exit
  BY <1>3 DEF Die, Exit
<1>4. CASE FinishKept
  BY <1>4 DEF FinishKept
<1>5. ASSUME NEW u \in T, part' = [part EXCEPT ![u] = Flushed(@)]
      PROVE  part'[t] \in {part[t], Flushed(part[t])}
  BY <1>0, <1>5
<1>6. ASSUME NEW u \in T, part' = [part EXCEPT ![u].is = "file"]
      PROVE  part'[t] \in {part[t], [part[t] EXCEPT !.is = "file"]}
  BY <1>0, <1>6
<1>7. ASSUME NEW u \in T, Write(u) \/ Cut(u)
      PROVE  part'[t] = part[t] \/ part'[t].disk >= part[t].disk
  <2>1. PICK k \in Int : Fwrite(u, k)
    BY <1>7, FwriteOf
  <2> QED BY <1>0, <2>1, FwriteIs
<1>8. ASSUME MainStep
      PROVE  part' = part \/ Die \/ FinishKept \/ Whole
  BY <1>8 DEF MainStep, FetchMd5, Md5Frame, CreateThread, Join, MergePart, MergeMissing,
              FinishRemoved, Checked, CheckMissing
<1>9. ASSUME NEW u \in T, LoginFails(u) \/ PasvFails(u) \/ DataConnectFails(u) \/ DataFails(u)
      PROVE  part' = part \/ Exit
  BY <1>9 DEF LoginFails, PasvFails, DataConnectFails, DataFails
<1>10. ASSUME \/ Spawn \/ Kill \/ FetchMd5Fails \/ FetchMd5Exits \/ SizeNotLearnt
              \/ UNCHANGED vars
       PROVE  part' = part \/ Die \/ Exit
  BY <1>10 DEF Spawn, Kill, FetchMd5Fails, FetchMd5Exits, SizeNotLearnt, Md5Frame, vars
<1>11. ASSUME NEW u \in T, ThreadStep(u)
       PROVE  \/ part' = part \/ Die \/ Exit \/ Write(u) \/ Cut(u)
              \/ part' = [part EXCEPT ![u] = Flushed(@)]
              \/ part' = [part EXCEPT ![u].is = "file"]
  BY <1>11, ThreadParts
<1> QED BY <1>2, <1>3, <1>4, <1>5, <1>6, <1>7, <1>8, <1>9, <1>10, <1>11 DEF Next

LEMMA DiskKept ==
    ASSUME IInv, [Next]_vars, NEW t \in T
    PROVE  part'[t].disk >= part[t].disk \/ Whole
<1>1. part[t] \in PartFile /\ part[t].disk \in Nat
  BY Components DEF IInv
<1>2. CASE part'[t] \in {part[t], Unflushed(part[t]), Flushed(part[t])}
  BY <1>1, <1>2, FlushedIs, UnflushedIs
<1>3. CASE part'[t] = [part[t] EXCEPT !.is = "file"]
  BY <1>1, <1>3 DEF PartFile
<1> QED BY <1>2, <1>3, PartSteps

(* No step takes a byte from the disk, before the whole file is merged: also *)
(* where threads met in the buffers they share.                              *)
THEOREM KeepsDiskCorrect == Spec => KeepsDisk
<1>1. ASSUME IInv, [Next]_vars
      PROVE  [\A t \in T : part'[t].disk >= part[t].disk \/ Whole]_vars
  BY <1>1, DiskKept
<1> QED BY <1>1, IInvCorrect, PTL DEF Spec, KeepsDisk

-------------------------------------------------------------------------------
(* The bytes that are counted *)

(* The sums of what is pending and of what is held are numbers, and change   *)
(* by what one part changes by.                                              *)
LEMMA PendingOfOne ==
    ASSUME TypeOK, TypeOK', NEW t \in T, \A u \in T \ {t} : w'[u].got = w[u].got
    PROVE  Pending \in Int /\ Pending' = Pending + (w'[t].got - w[t].got)
<1> DEFINE f == [u \in T |-> w[u].got]
           g == [u \in T |-> w'[u].got]
<1>1. T = 0 .. Threads - 1 /\ Threads \in Nat
  BY ConstantsAssumption DEF T, Parts
<1>2. \A u \in T : w[u].got \in Int /\ w'[u].got \in Int
  BY DEF TypeOK, DataTypeOK, Thread
<1>3. \A u \in T : /\ f[u] \in Int /\ g[u] \in Int /\ (u # t => g[u] = f[u])
                   /\ f[u] = w[u].got /\ g[u] = w'[u].got
  BY <1>2
<1>4. Pending = Total(f, Threads) /\ Pending' = Total(g, Threads)
  BY DEF Pending
<1> HIDE DEF f, g
<1>5. Total(f, Threads) \in Int
  <2>1. \A i \in 0 .. Threads - 1 : f[i] \in Int
    BY <1>1, <1>3
  <2> QED BY <1>1, <2>1, TotalInt
<1>6. Total(g, Threads) = Total(f, Threads) + (g[t] - f[t])
  <2>1. \A i \in 0 .. Threads - 1 : f[i] \in Int /\ g[i] \in Int /\ (i # t => g[i] = f[i])
    BY <1>1, <1>3
  <2> QED BY <1>1, <2>1, TotalStep
<1> QED BY <1>3, <1>4, <1>5, <1>6

LEMMA HeldOfOne ==
    ASSUME TypeOK, TypeOK', NEW t \in T, \A u \in T \ {t} : Held(part'[u]) = Held(part[u])
    PROVE  HeldInAll \in Nat /\ HeldInAll' = HeldInAll + (Held(part'[t]) - Held(part[t]))
<1> DEFINE f == [u \in T |-> Held(part[u])]
           g == [u \in T |-> Held(part'[u])]
<1>1. T = 0 .. Threads - 1 /\ Threads \in Nat
  BY ConstantsAssumption DEF T, Parts
<1>2. \A u \in T : Held(part[u]) \in Nat /\ Held(part'[u]) \in Nat
  <2>1. \A u \in T : part[u] \in PartFile /\ part'[u] \in PartFile
    BY DEF TypeOK, DataTypeOK
  <2> QED BY <2>1, HeldType
<1>3. \A u \in T : /\ f[u] \in Nat /\ g[u] \in Nat /\ (u # t => g[u] = f[u])
                   /\ f[u] = Held(part[u]) /\ g[u] = Held(part'[u])
  BY <1>2
<1>4. HeldInAll = Total(f, Threads) /\ HeldInAll' = Total(g, Threads)
  BY DEF HeldInAll, Held
<1> HIDE DEF f, g
<1>5. Total(f, Threads) \in Nat
  BY <1>1, <1>3, TotalType
<1>6. Total(g, Threads) = Total(f, Threads) + (g[t] - f[t])
  <2>1. \A i \in 0 .. Threads - 1 : f[i] \in Int /\ g[i] \in Int /\ (i # t => g[i] = f[i])
    BY <1>1, <1>3
  <2> QED BY <1>1, <2>1, TotalStep
<1> QED BY <1>3, <1>4, <1>5, <1>6

(* With nothing held, and nothing pending. *)
LEMMA NoneHeld ==
    ASSUME TypeOK
    PROVE  /\ (\A t \in T : Held(part[t]) = 0) => HeldInAll = 0
           /\ (\A t \in T : w[t].got = 0) => Pending = 0
<1>1. T = 0 .. Threads - 1 /\ Threads \in Nat
  BY ConstantsAssumption DEF T, Parts
<1>2. ASSUME \A t \in T : Held(part[t]) = 0 PROVE HeldInAll = 0
  <2> DEFINE f == [t \in T |-> Held(part[t])]
  <2>1. \A i \in 0 .. Threads - 1 : f[i] = 0
    BY <1>1, <1>2
  <2> HIDE DEF f
  <2>2. Total(f, Threads) = 0
    BY <1>1, <2>1, TotalOfNone
  <2> QED BY <2>2 DEF HeldInAll, f
<1>3. ASSUME \A t \in T : w[t].got = 0 PROVE Pending = 0
  <2> DEFINE f == [t \in T |-> w[t].got]
  <2>1. \A i \in 0 .. Threads - 1 : f[i] = 0
    BY <1>1, <1>3
  <2> HIDE DEF f
  <2>2. Total(f, Threads) = 0
    BY <1>1, <2>1, TotalOfNone
  <2> QED BY <2>2 DEF Pending, f
<1> QED BY <1>2, <1>3

(* Threads that met have met. *)
LEMMA MetLasts ==
    ASSUME TypeOK, NEW a, NEW b, ~tainted',
           lineMet' = lineMet \/ Meets(lineMet, a), bytesMet' = bytesMet \/ Meets(bytesMet, b)
    PROVE  ~tainted
<1>1. lineMet \in Nat /\ bytesMet \in Nat
  BY DEF TypeOK, FlagTypeOK
<1>2. lineMet' = lineMet \/ lineMet' = lineMet + 1
  BY DEF Meets
<1>3. bytesMet' = bytesMet \/ bytesMet' = bytesMet + 1
  BY DEF Meets
<1>4. ~(lineMet' > 0) /\ ~(bytesMet' > 0)
  BY DEF tainted
<1>5. lineMet = 0
  BY <1>1, <1>2, <1>4
<1>6. bytesMet = 0
  BY <1>1, <1>3, <1>4
<1> QED BY <1>5, <1>6 DEF tainted

LEMMA ThreadMetLasts == ASSUME IInv, NEW t \in T, ThreadStep(t), ~tainted' PROVE ~tainted
<1>0. TypeOK
  BY DEF IInv
<1>1. CASE Login(t)
  <2>1. Meets(lineMet, Another(t, OnLine)) /\ Meets(bytesMet, Another(t, Counting))
    BY <1>1 DEF Login, Clear, Received
  <2> QED BY <1>0, <2>1, MetLasts
<1>2. CASE ClearRest(t) \/ ClearRetr(t) \/ ClearQuit(t)
  <2>1. Meets(lineMet, Another(t, OnLine)) /\ bytesMet' = bytesMet
    BY <1>2 DEF ClearRest, ClearRetr, ClearQuit, ClearFor, Clear, bytes
  <2> QED BY <1>0, <2>1, MetLasts
<1>3. CASE SendLogin(t) \/ SendRest(t) \/ SendRetr(t) \/ SendQuit(t)
  <2>1. lineMet' = lineMet /\ (bytesMet' = bytesMet \/ Meets(bytesMet, Another(t, Counting)))
    BY <1>3 DEF SendLogin, SendRest, SendRetr, SendQuit, Exchange, Received, bytes
  <2> QED BY <1>0, <2>1, MetLasts
<1>4. CASE Recv(t)
  <2>1. lineMet' = lineMet /\ Meets(bytesMet, Another(t, Counting))
    BY <1>4 DEF Recv, Received, lines
  <2> QED BY <1>0, <2>1, MetLasts
<1>5. CASE Die \/ Exit
  <2>1. lineMet' = lineMet /\ bytesMet' = bytesMet
    BY <1>5 DEF Die, Exit, Gone
  <2> QED BY <1>0, <2>1, MetLasts
<1>6. CASE lineMet' = lineMet /\ bytesMet' = bytesMet
  BY <1>0, <1>6, MetLasts
<1>7. CASE PutLogin(t) \/ PutRest(t) \/ PutRetr(t) \/ PutQuit(t)
  BY <1>6, <1>7 DEF PutLogin, PutRest, PutRetr, PutQuit, Put, bytes
<1>8. CASE Misled(t) \/ LookWrong(t) \/ WriteFault(t)
  BY <1>5, <1>6, <1>8 DEF Misled, LookWrong, WriteFault, Leave, lines, bytes
<1>9. CASE OpenComplete(t) \/ UseError(t) \/ UseEnd(t) \/ Close(t)
  BY <1>6, <1>9 DEF OpenComplete, UseError, UseEnd, Close, Leave, lines, bytes
<1>10. CASE Open(t) \/ Look(t) \/ Use(t) \/ Count(t) \/ Write(t) \/ Tell(t) \/ Cut(t)
  BY <1>6, <1>10 DEF Open, Look, Use, Count, Write, Tell, Cut, lines, bytes
<1>11. CASE Lock(t) \/ Add(t)
  BY <1>6, <1>11 DEF Lock, Add, lines, bytes
<1> QED BY <1>1, <1>2, <1>3, <1>4, <1>7, <1>8, <1>9, <1>10, <1>11 DEF ThreadStep

(* A step of one thread keeps the count exact if it adds to down_size, to    *)
(* what is pending and to what is held in balance, and touches down_size only*)
(* while no other thread has the lock.                                       *)
LEMMA Balanced ==
    ASSUME IInv, IInv', ProgressInv, NEW t \in T, w[t].pc # "none",
           UNCHANGED <<mpc, tempDir>>,
           \A u \in T \ {t} : w'[u] = w[u] /\ part'[u] = part[u],
           ~tainted' =>
             /\ ~tainted
             /\ down_size' + w'[t].got + Held(part[t]) = down_size + w[t].got + Held(part'[t]),
           (lock' = lock /\ down_size' = down_size) \/ lock \in {Unlocked, t},
           w'[t].pc = "add" => lock' = t /\ w'[t].ld = down_size',
           w'[t].pc \notin {"tell", "lock", "add"} => w'[t].got = 0
    PROVE  ProgressInv'
<1>1. mpc = "create" /\ tempDir
  BY Living DEF ProgressInv, DirInv
<1>2. LockInv'
  <2>1. Unlocked \notin T
    BY PartTypes
  <2> QED BY <2>1 DEF ProgressInv, LockInv
<1>3. DirInv'
  BY <1>1 DEF DirInv
<1>4. ASSUME ~tainted' PROVE down_size' + Pending' = HeldInAll'
  <2>0. TypeOK /\ TypeOK' /\ ~tainted
    BY <1>4 DEF IInv
  <2>1. Pending \in Int /\ Pending' = Pending + (w'[t].got - w[t].got)
    BY <2>0, PendingOfOne
  <2>2. HeldInAll \in Nat /\ HeldInAll' = HeldInAll + (Held(part'[t]) - Held(part[t]))
    <3>1. \A u \in T \ {t} : Held(part'[u]) = Held(part[u])
      BY DEF Held
    <3> QED BY <2>0, <3>1, HeldOfOne
  <2>3. down_size + Pending = HeldInAll
    BY <1>1, <2>0 DEF ProgressInv, ProgressExact
  <2>4. /\ down_size \in Int /\ down_size' \in Int /\ w[t].got \in Int /\ w'[t].got \in Int
        /\ Held(part[t]) \in Nat /\ Held(part'[t]) \in Nat
    <3>1. down_size \in Int /\ down_size' \in Int
      BY <2>0 DEF TypeOK, SharedTypeOK
    <3>2. w[t] \in Thread /\ w'[t] \in Thread /\ part[t] \in PartFile /\ part'[t] \in PartFile
      BY <2>0 DEF TypeOK, DataTypeOK
    <3> QED BY <3>1, <3>2, HeldType DEF Thread
  <2> QED BY <1>4, <2>1, <2>2, <2>3, <2>4
<1>5. ProgressExact'
  BY <1>4 DEF ProgressExact
<1> QED BY <1>2, <1>3, <1>5 DEF ProgressInv

(* Where there is no thread, or one that may have bytes it is about to add. *)
Owing == {"none", "tell", "lock", "add"}

(* A step of a thread that counts and writes nothing. *)
LEMMA CountsNothing ==
    ASSUME IInv, IInv', ProgressInv, NEW t \in T, w[t].pc \notin Owing,
           UNCHANGED <<mpc, tempDir, down_size, lock>>, ~tainted' => ~tainted,
           \A u \in T \ {t} : w'[u] = w[u] /\ part'[u] = part[u],
           w'[t].got \in {0, w[t].got}, w'[t].pc # "add", Held(part'[t]) = Held(part[t])
    PROVE  ProgressInv'
<1>1. w[t].got = 0
  BY DEF ProgressInv, LockInv, Owing
<1> QED BY <1>1, Balanced DEF Owing

(* A thread that goes somewhere else. *)
LEMMA GoesOn ==
    ASSUME IInv, IInv', ProgressInv, NEW t \in T, w[t].pc \notin Owing,
           NEW pc \in Pcs \ {"add"}, Goto(t, pc), ~tainted' => ~tainted,
           UNCHANGED <<mpc, tempDir, down_size, lock, part>>
    PROVE  ProgressInv'
<1>0. TypeOK
  BY DEF IInv
<1>1. w'[t].pc = pc /\ w'[t].got = w[t].got /\ \A u \in T \ {t} : w'[u] = w[u]
  BY <1>0, GotoIs
<1> QED BY <1>1, CountsNothing

(* A thread that leaves its part, which it may have opened or closed. *)
LEMMA LeaveProgress ==
    ASSUME IInv, IInv', ProgressInv, NEW t \in T, w[t].pc \notin Owing, Leave(t),
           \/ part' = part
           \/ part' = [part EXCEPT ![t] = Flushed(@)]
           \/ part' = [part EXCEPT ![t].is = "file"]
    PROVE  ProgressInv'
<1> DEFINE new == [NoThread EXCEPT !.pc = "quit"]
<1>0. TypeOK
  BY DEF IInv
<1>1. new \in Thread /\ new.pc = "quit" /\ new.got = 0
  BY FreshThread DEF Pcs
<1>2. w' = [w EXCEPT ![t] = new]
  BY DEF Leave
<1> HIDE DEF new
<1>3. w'[t] = new /\ \A u \in T \ {t} : w'[u] = w[u]
  BY <1>0, <1>1, <1>2, ThreadReplaced
<1>4. Held(part'[t]) = Held(part[t]) /\ \A u \in T \ {t} : part'[u] = part[u]
  BY <1>0, FileClosedIs, OpenedIs
<1>5. UNCHANGED <<mpc, tempDir, down_size, lock, tainted>>
  BY DEF Leave, ThreadFrame, lines, bytes, tainted
<1> QED BY <1>1, <1>3, <1>4, <1>5, CountsNothing

(* A process that ends. *)
LEMMA GoneProgress ==
    ASSUME IInv, ProgressInv, Die \/ Exit
    PROVE  ProgressInv'
<1>1. mpc' = "dead" /\ tempDir' = tempDir /\ w' = [t \in T |-> NoThread]
  BY DEF Die, Exit, Gone
<1>2. LockInv'
  BY <1>1 DEF LockInv, NoThread
<1>3. ASSUME NEW t \in T, Held(part[t]) = 0 PROVE Held(part'[t]) = 0
  <2>1. part[t] \in PartFile /\ part[t].disk \in Nat
    BY Components DEF IInv
  <2>2. CASE part'[t] = Flushed(part[t])
    BY <1>3, <2>1, <2>2, FlushedIs
  <2>3. CASE part'[t] = Unflushed(part[t])
    BY <1>3, <2>1, <2>3, UnflushedIs
  <2> QED BY <2>2, <2>3 DEF Die, Exit
<1>4. DirInv'
  BY <1>1, <1>3 DEF ProgressInv, DirInv
<1>5. ProgressExact'
  BY <1>1 DEF ProgressExact
<1> QED BY <1>2, <1>4, <1>5 DEF ProgressInv

LEMMA SpawnProgress == ASSUME IInv, ProgressInv, Spawn PROVE ProgressInv'
<1>0. TypeOK /\ mpc \notin {"create", "merge"} /\ mpc' = "md5"
  BY DEF IInv, Spawn, Ended
<1>1. /\ UNCHANGED <<w, part, tempDir>>
      /\ down_size' = IF tempDir THEN HeldInAll ELSE 0
  BY DEF Spawn
<1>2. \A t \in T : w[t].pc = "none" /\ w[t].got = 0
  BY <1>0, Idle, Nothing
<1>3. LockInv' /\ DirInv'
  BY <1>0, <1>1, <1>2 DEF ProgressInv, LockInv, DirInv, Held
<1>4. Pending' = 0 /\ HeldInAll' = HeldInAll
  BY <1>0, <1>1, <1>2, NoneHeld DEF Pending, HeldInAll, Held
<1>5. down_size' = HeldInAll /\ HeldInAll \in Nat
  BY <1>0, <1>1, NoneHeld, HeldInAllType DEF ProgressInv, DirInv
<1>6. ProgressExact'
  BY <1>4, <1>5 DEF ProgressExact
<1> QED BY <1>3, <1>6 DEF ProgressInv

LEMMA Md5Progress ==
    ASSUME IInv, ProgressInv, FetchMd5 \/ FetchMd5Fails \/ SizeNotLearnt
    PROVE  ProgressInv'
<1>1. /\ mpc = "md5" /\ UNCHANGED <<down_size, lock, w, part, tainted>>
      /\ (mpc' = "create" /\ tempDir' = TRUE) \/ (mpc' = "spin" /\ tempDir' = tempDir)
  BY DEF FetchMd5, FetchMd5Fails, SizeNotLearnt, Md5Frame, lines, bytes, tainted
<1>2. LockInv' /\ DirInv'
  BY <1>1 DEF ProgressInv, LockInv, DirInv, Held
<1>3. Pending' = Pending /\ HeldInAll' = HeldInAll
  BY <1>1 DEF Pending, HeldInAll, Held
<1>4. ProgressExact'
  BY <1>1, <1>3 DEF ProgressInv, ProgressExact
<1> QED BY <1>2, <1>4 DEF ProgressInv

LEMMA CreateProgress == ASSUME IInv, IInv', ProgressInv, CreateThread PROVE ProgressInv'
<1> DEFINE new == [NoThread EXCEPT !.pc = "connect"]
<1>0. TypeOK /\ TypeOK' /\ idx \in T
  BY PartTypes DEF IInv, TypeOK, ProcessTypeOK, CreateThread
<1>1. /\ mpc = "create" /\ w' = [w EXCEPT ![idx] = new]
      /\ UNCHANGED <<mpc, down_size, lock, part, tempDir, tainted>>
  BY DEF CreateThread, MainFrame, lines, bytes, tainted
<1>2. new.pc = "connect" /\ new.got = 0
  BY FreshThread DEF Pcs
<1> HIDE DEF new
<1>3. w'[idx] = new /\ \A u \in T \ {idx} : w'[u] = w[u]
  BY <1>0, <1>1, Components
<1>4. w[idx].got = 0
  <2>1. idx >= idx
    BY <1>0, PartTypes
  <2>2. w[idx].pc = "none"
    BY <1>0, <2>1, Nothing DEF IInv, FrameInv
  <2> QED BY <1>0, <2>2 DEF ProgressInv, LockInv
<1>5. LockInv' /\ DirInv'
  BY <1>1, <1>2, <1>3 DEF ProgressInv, LockInv, DirInv, Held
<1>6. Pending' = Pending /\ HeldInAll' = HeldInAll
  <2>1. Pending \in Int /\ Pending' = Pending + (w'[idx].got - w[idx].got)
    BY <1>0, <1>3, PendingOfOne
  <2>2. HeldInAll' = HeldInAll
    BY <1>1 DEF HeldInAll, Held
  <2> QED BY <1>2, <1>3, <1>4, <2>1, <2>2
<1>7. ProgressExact'
  BY <1>1, <1>6 DEF ProgressInv, ProgressExact
<1> QED BY <1>5, <1>7 DEF ProgressInv

LEMMA MainProgress == ASSUME IInv, IInv', ProgressInv, MainStep PROVE ProgressInv'
<1>1. CASE FetchMd5
  BY <1>1, Md5Progress
<1>2. CASE CreateThread
  BY <1>2, CreateProgress
<1>3. CASE Join
  <2>1. mpc = "create" /\ mpc' = "merge" /\ tempDir' = tempDir /\ w' = [t \in T |-> NoThread]
    BY <1>3 DEF Join
  <2> QED BY <2>1 DEF ProgressInv, LockInv, DirInv, ProgressExact, NoThread
<1>4. CASE MergePart
  <2>1. mpc = "merge" /\ UNCHANGED <<mpc, tempDir, w, down_size, lock>>
    BY <1>4 DEF MergePart, MainFrame
  <2> QED BY <2>1 DEF ProgressInv, LockInv, DirInv, ProgressExact
<1>5. CASE MergeMissing \/ CheckMissing
  BY <1>5, GoneProgress DEF MergeMissing, CheckMissing
<1>6. CASE FinishRemoved \/ FinishKept
  <2>1. mpc = "merge" /\ mpc' = "done" /\ w' = w
    BY <1>6 DEF FinishRemoved, Checked, FinishKept
  <2>2. LockInv'
    <3>1. \A t \in T : w[t].pc = "none"
      BY <2>1, Nothing DEF IInv, FrameInv
    <3> QED BY <2>1, <3>1 DEF ProgressInv, LockInv
  <2>3. DirInv'
    <3>1. CASE FinishRemoved
      <4>1. part' = [t \in T |-> NoPart]
        BY <3>1 DEF FinishRemoved
      <4>2. \A t \in T : Held(part'[t]) = 0
        BY <4>1, Nothing
      <4> QED BY <2>1, <4>2 DEF DirInv
    <3>2. CASE FinishKept
      BY <2>1, <3>2 DEF FinishKept, ProgressInv, DirInv
    <3> QED BY <1>6, <3>1, <3>2
  <2> QED BY <2>1, <2>2, <2>3 DEF ProgressInv, ProgressExact
<1> QED BY <1>1, <1>2, <1>3, <1>4, <1>5, <1>6 DEF MainStep

(* The steps of a thread that write to its part, read and write down_size.   *)
LEMMA WriteProgress == ASSUME IInv, IInv', ProgressInv, NEW t \in T, Write(t) PROVE ProgressInv'
<1>0. TypeOK /\ w[t].pc = "write" /\ w[t].got = 0 /\ recvbytes \in Int
  BY OldTypes DEF IInv, Write, ProgressInv, LockInv
<1>1. UNCHANGED <<mpc, tempDir, down_size, lock, tainted>>
  BY DEF Write, ThreadFrame, lines, bytes, tainted
<1>2. PICK m \in Nat :
        /\ recvbytes >= 0 => m = recvbytes
        /\ \A u \in T \ {t} : part'[u] = part[u]
        /\ Held(part'[t]) = Held(part[t]) + m
  <2>1. Fwrite(t, recvbytes)
    BY DEF Write
  <2> QED BY <1>0, <2>1, FwriteIs
<1>3. /\ w'[t].pc \in {"tell", "lock"} /\ \A u \in T \ {t} : w'[u] = w[u]
      /\ recvbytes > 0 => w'[t].got = recvbytes
  <2> DEFINE new == IF recvbytes > 0
                    THEN [w[t] EXCEPT !.pc = "tell", !.got = recvbytes, !.put = TRUE]
                    ELSE [w[t] EXCEPT !.pc = "lock"]
  <2>1. w[t] \in Thread /\ w \in [T -> Thread]
    BY <1>0, OldTypes
  <2>2. w' = [w EXCEPT ![t] = new]
    BY <2>1 DEF Write
  <2>3. new.pc \in {"tell", "lock"} /\ (recvbytes > 0 => new.got = recvbytes)
    BY <1>0, <2>1 DEF Thread
  <2> HIDE DEF new
  <2> QED BY <2>1, <2>2, <2>3
<1>4. ASSUME ~tainted
      PROVE  down_size' + w'[t].got + Held(part[t]) = down_size + w[t].got + Held(part'[t])
  <2>1. recvbytes > 0
    BY <1>0, <1>4, Living DEF OffsetInv
  <2>2. w'[t].got = m /\ Held(part'[t]) = Held(part[t]) + m /\ m \in Nat
    BY <1>0, <1>2, <1>3, <2>1
  <2>3. down_size \in Int /\ Held(part[t]) \in Nat
    BY <1>0, OldTypes, Components
  <2> QED BY <1>0, <1>1, <2>2, <2>3
<1> QED BY <1>0, <1>1, <1>2, <1>3, <1>4, Balanced

LEMMA TellProgress == ASSUME IInv, IInv', ProgressInv, NEW t \in T, Tell(t) PROVE ProgressInv'
<1>0. TypeOK /\ w[t].pc = "tell" /\ recvbytes \in Int
  BY OldTypes DEF IInv, Tell
<1>1. UNCHANGED <<mpc, tempDir, down_size, lock, part, tainted>>
  BY DEF Tell, ThreadFrame, lines, bytes, tainted
<1>2. w'[t].pc = "lock" /\ w'[t].got = recvbytes /\ \A u \in T \ {t} : w'[u] = w[u]
  <2> DEFINE new == [[w[t] EXCEPT !.pc = "lock"] EXCEPT !.got = recvbytes]
  <2>1. w[t] \in Thread /\ w \in [T -> Thread]
    BY <1>0, OldTypes
  <2>2. w' = [w EXCEPT ![t] = new]
    BY <2>1 DEF Tell
  <2>3. new.pc = "lock" /\ new.got = recvbytes
    BY <1>0, <2>1 DEF Thread
  <2> HIDE DEF new
  <2> QED BY <2>1, <2>2, <2>3
<1>3. ASSUME ~tainted
      PROVE  down_size' + w'[t].got + Held(part[t]) = down_size + w[t].got + Held(part'[t])
  <2>1. w[t].got = recvbytes
    BY <1>0, <1>3, Living DEF OffsetInv
  <2> QED BY <1>1, <1>2, <2>1
<1> QED BY <1>0, <1>1, <1>2, <1>3, Balanced

LEMMA CutProgress == ASSUME IInv, IInv', ProgressInv, NEW t \in T, Cut(t) PROVE ProgressInv'
<1> DEFINE k == Reset(t)
           got == IF k > 0 THEN k ELSE 0
<1>0. TypeOK /\ w[t].pc = "cut" /\ w[t].got = 0
  BY DEF IInv, Cut, ProgressInv, LockInv
<1>1. UNCHANGED <<mpc, tempDir, down_size, lock, tainted>>
  BY DEF Cut, ThreadFrame, lines, bytes, tainted
<1>2. /\ recvbytes \in Int /\ w[t].i \in Int /\ w[t].n \in Nat /\ Max_(t) \in Nat
      /\ Offset(t) \in Nat /\ Size(t) \in Nat /\ Max_(t) = Offset(t) + Size(t)
      /\ Held(part[t]) \in Nat
      /\ fsize = FileSize => Size(t) = PartSize(FileSize, Threads, t)
      /\ fsize # FileSize => Size(t) = 0
  BY <1>0, OldTypes, Components, Offsets
<1>3. k \in Int /\ k = Max_(t) - (w[t].i - recvbytes) /\ Fwrite(t, k) /\ got \in Nat
  BY <1>2 DEF Reset, Cut
<1>4. w'[t].pc = "lock" /\ w'[t].got = got /\ \A u \in T \ {t} : w'[u] = w[u]
  <2> DEFINE new == [[w[t] EXCEPT !.pc = "lock"] EXCEPT !.i = Max_(t)]
             last == [new EXCEPT !.got = got]
  <2>1. w[t] \in Thread /\ w \in [T -> Thread]
    BY <1>0, OldTypes
  <2>2. w' = [w EXCEPT ![t] = last]
    BY <2>1 DEF Cut
  <2> HIDE DEF got
  <2>3. last.pc = "lock" /\ last.got = got
    BY <2>1 DEF Thread
  <2> HIDE DEF last
  <2> QED BY <2>1, <2>2, <2>3
<1> HIDE DEF k
<1>5. PICK m \in Nat :
        /\ k >= 0 => m = k
        /\ k < 0 /\ ~w[t].put => m = 0
        /\ \A u \in T \ {t} : part'[u] = part[u]
        /\ Held(part'[t]) = Held(part[t]) + m
  BY <1>0, <1>3, FwriteIs
<1>6. ASSUME ~tainted
      PROVE  down_size' + w'[t].got + Held(part[t]) = down_size + w[t].got + Held(part'[t])
  <2>1. /\ w[t].i = Offset(t) + Held(part[t]) + w[t].n /\ w[t].i >= Max_(t)
        /\ recvbytes = w[t].n /\ Held(part[t]) <= PartSize(FileSize, Threads, t)
        /\ w[t].put => fsize = FileSize
    BY <1>0, <1>6, Living DEF OffsetInv
  <2>2. k = Size(t) - Held(part[t])
    BY <1>2, <1>3, <2>1
  <2>3. m = got
    <3>1. CASE k >= 0
      BY <1>3, <1>5, <3>1
    <3>2. CASE k < 0
      <4>1. fsize # FileSize
        BY <1>2, <2>1, <2>2, <3>2
      <4>2. m = 0 /\ got = 0
        BY <1>3, <1>5, <2>1, <3>2, <4>1
      <4> QED BY <4>2
    <3> QED BY <1>3, <3>1, <3>2
  <2>4. down_size \in Int
    BY OldTypes
  <2> QED BY <1>0, <1>1, <1>2, <1>4, <1>5, <2>3, <2>4
<1> QED BY <1>0, <1>1, <1>4, <1>5, <1>6, Balanced

LEMMA LockProgress == ASSUME IInv, IInv', ProgressInv, NEW t \in T, Lock(t) PROVE ProgressInv'
<1>0. TypeOK /\ w[t].pc = "lock" /\ lock = Unlocked
  BY DEF IInv, Lock
<1>1. /\ lock' = t /\ w' = [w EXCEPT ![t].pc = "add", ![t].ld = down_size]
      /\ UNCHANGED <<mpc, tempDir, down_size, part, tainted>>
  BY DEF Lock, ThreadFrame, lines, bytes, tainted
<1>2. /\ w'[t].pc = "add" /\ w'[t].ld = down_size /\ w'[t].got = w[t].got
      /\ \A u \in T \ {t} : w'[u] = w[u]
  <2> DEFINE new == [[w[t] EXCEPT !.pc = "add"] EXCEPT !.ld = down_size]
  <2>1. w[t] \in Thread /\ w \in [T -> Thread]
    BY <1>0, OldTypes
  <2>2. w' = [w EXCEPT ![t] = new]
    BY <1>1, <2>1
  <2>3. new.pc = "add" /\ new.ld = down_size /\ new.got = w[t].got
    BY <2>1 DEF Thread
  <2> HIDE DEF new
  <2> QED BY <2>1, <2>2, <2>3
<1>3. down_size' + w'[t].got + Held(part[t]) = down_size + w[t].got + Held(part'[t])
  BY <1>1, <1>2
<1> QED BY <1>0, <1>1, <1>2, <1>3, Balanced

LEMMA AddProgress == ASSUME IInv, IInv', ProgressInv, NEW t \in T, Add(t) PROVE ProgressInv'
<1> DEFINE pc == IF w[t].i = Max_(t) THEN "close" ELSE "recv"
           moved == [[w[t] EXCEPT !.pc = pc] EXCEPT !.n = 0]
           new == [[moved EXCEPT !.got = 0] EXCEPT !.ld = 0]
<1>0. TypeOK /\ w[t].pc = "add" /\ lock = t /\ w[t].ld = down_size
  BY DEF IInv, Add, ProgressInv, LockInv
<1>2. w[t] \in Thread /\ w \in [T -> Thread]
  BY <1>0, OldTypes
<1>1. /\ down_size' = w[t].ld + w[t].got /\ lock' = Unlocked
      /\ w' = [w EXCEPT ![t] = new]
      /\ UNCHANGED <<mpc, tempDir, part, tainted>>
  BY <1>2 DEF Add, ThreadFrame, lines, bytes, tainted
<1>3. new.pc \in {"close", "recv"} /\ new.got = 0
  BY <1>2 DEF Thread
<1> HIDE DEF new
<1>4. w'[t] = new /\ \A u \in T \ {t} : w'[u] = w[u]
  BY <1>1, <1>2
<1>5. down_size' + w'[t].got + Held(part[t]) = down_size + w[t].got + Held(part'[t])
  <2>1. down_size \in Int /\ w[t].got \in Int /\ Held(part[t]) \in Nat /\ part' = part
    BY <1>0, <1>1, OldTypes, Components
  <2> QED BY <1>0, <1>1, <1>3, <1>4, <2>1
<1> QED BY <1>0, <1>1, <1>3, <1>4, <1>5, Balanced

(* The steps of a thread that only take it somewhere else. *)
LEMMA GotoProgress ==
    ASSUME IInv, IInv', ProgressInv, NEW t \in T, ThreadStep(t),
           \/ Login(t) \/ PutLogin(t) \/ PutRest(t) \/ PutRetr(t) \/ PutQuit(t)
           \/ SendLogin(t) \/ SendRest(t) \/ SendRetr(t) \/ SendQuit(t)
           \/ ClearRest(t) \/ ClearRetr(t) \/ ClearQuit(t) \/ Look(t) \/ Use(t)
    PROVE  ProgressInv'
<1>0. ~tainted' => ~tainted
  BY ThreadMetLasts
<1>1. \E pc \in Pcs \ {"add"} : Goto(t, pc)
  <2>1. CASE Login(t) \/ Look(t) \/ Use(t)
    BY <2>1 DEF Login, Look, Use, Pcs, OnLine, Writing, Counting
  <2>2. CASE PutLogin(t) \/ PutRest(t) \/ PutRetr(t) \/ PutQuit(t)
    BY <2>2 DEF PutLogin, PutRest, PutRetr, PutQuit, Put, Pcs, OnLine
  <2>3. CASE SendLogin(t) \/ SendRest(t) \/ SendRetr(t) \/ SendQuit(t)
    BY <2>3 DEF SendLogin, SendRest, SendRetr, SendQuit, Exchange, Pcs, OnLine
  <2>4. CASE ClearRest(t) \/ ClearRetr(t) \/ ClearQuit(t)
    BY <2>4 DEF ClearRest, ClearRetr, ClearQuit, ClearFor, Pcs, OnLine, Writing
  <2> QED BY <2>1, <2>2, <2>3, <2>4
<1>2. w[t].pc \notin Owing
  BY DEF Login, PutLogin, PutRest, PutRetr, PutQuit, SendLogin, SendRest, SendRetr, SendQuit,
         ClearRest, ClearRetr, ClearQuit, Look, Use, Owing
<1>3. UNCHANGED <<mpc, tempDir, down_size, lock, part>>
  <2>1. CASE Login(t) \/ Look(t) \/ Use(t)
    BY <2>1 DEF Login, Look, Use, ThreadFrame
  <2>2. CASE PutLogin(t) \/ PutRest(t) \/ PutRetr(t) \/ PutQuit(t)
    BY <2>2 DEF PutLogin, PutRest, PutRetr, PutQuit, Put
  <2>3. CASE SendLogin(t) \/ SendRest(t) \/ SendRetr(t) \/ SendQuit(t)
    BY <2>3 DEF SendLogin, SendRest, SendRetr, SendQuit, Exchange, ThreadFrame
  <2>4. CASE ClearRest(t) \/ ClearRetr(t) \/ ClearQuit(t)
    BY <2>4 DEF ClearRest, ClearRetr, ClearQuit, ClearFor, ThreadFrame
  <2> QED BY <2>1, <2>2, <2>3, <2>4
<1> QED BY <1>0, <1>1, <1>2, <1>3, GoesOn

(* Those that find out where it is, or receive. *)
LEMMA OffsetProgress ==
    ASSUME IInv, IInv', ProgressInv, NEW t \in T, ThreadStep(t),
           Open(t) \/ Recv(t) \/ Count(t)
    PROVE  ProgressInv'
<1>0. TypeOK /\ w \in [T -> Thread] /\ w[t] \in Thread /\ (~tainted' => ~tainted)
  BY OldTypes, ThreadMetLasts DEF IInv
<1>1. w[t].pc \notin Owing /\ UNCHANGED <<mpc, tempDir, down_size, lock>>
  BY DEF Open, Recv, Count, ThreadFrame, Owing
<1>2. Held(part'[t]) = Held(part[t]) /\ \A u \in T \ {t} : part'[u] = part[u]
  <2>1. part' = part \/ part' = [part EXCEPT ![t].is = "file"]
    BY DEF Open, Recv, Count
  <2> QED BY <1>0, <2>1, OpenedIs
<1>3. w'[t].pc # "add" /\ w'[t].got = w[t].got /\ \A u \in T \ {t} : w'[u] = w[u]
  <2>1. ASSUME NEW pc \in {"rest", "write", "cut"}, NEW i,
               w' = [w EXCEPT ![t].pc = pc, ![t].i = i]
        PROVE  w'[t].pc # "add" /\ w'[t].got = w[t].got /\ \A u \in T \ {t} : w'[u] = w[u]
    <3> DEFINE new == [[w[t] EXCEPT !.pc = pc] EXCEPT !.i = i]
    <3>1. w' = [w EXCEPT ![t] = new]
      BY <1>0, <2>1
    <3>2. new.pc = pc /\ new.got = w[t].got
      BY <1>0 DEF Thread
    <3> HIDE DEF new
    <3> QED BY <1>0, <3>1, <3>2
  <2>2. ASSUME NEW n, w' = [w EXCEPT ![t].pc = "use", ![t].n = n]
        PROVE  w'[t].pc # "add" /\ w'[t].got = w[t].got /\ \A u \in T \ {t} : w'[u] = w[u]
    <3> DEFINE new == [[w[t] EXCEPT !.pc = "use"] EXCEPT !.n = n]
    <3>1. w' = [w EXCEPT ![t] = new]
      BY <1>0, <2>2
    <3>2. new.pc = "use" /\ new.got = w[t].got
      BY <1>0 DEF Thread
    <3> HIDE DEF new
    <3> QED BY <1>0, <3>1, <3>2
  <2>3. CASE Open(t)
    BY <2>1, <2>3 DEF Open
  <2>4. CASE Recv(t)
    BY <2>2, <2>4 DEF Recv
  <2>5. CASE Count(t)
    <3> DEFINE pc == IF w[t].i + recvbytes < Max_(t) THEN "write" ELSE "cut"
    <3>1. w' = [w EXCEPT ![t].pc = pc, ![t].i = w[t].i + recvbytes]
      BY <2>5 DEF Count
    <3>2. pc \in {"rest", "write", "cut"}
      OBVIOUS
    <3> HIDE DEF pc
    <3> QED BY <2>1, <3>1, <3>2
  <2> QED BY <2>3, <2>4, <2>5
<1> QED BY <1>0, <1>1, <1>2, <1>3, CountsNothing

LEMMA ThreadProgress ==
    ASSUME IInv, IInv', ProgressInv, NEW t \in T, ThreadStep(t)
    PROVE  ProgressInv'
<1>1. CASE \/ Login(t) \/ PutLogin(t) \/ PutRest(t) \/ PutRetr(t) \/ PutQuit(t)
           \/ SendLogin(t) \/ SendRest(t) \/ SendRetr(t) \/ SendQuit(t)
           \/ ClearRest(t) \/ ClearRetr(t) \/ ClearQuit(t) \/ Look(t) \/ Use(t)
  BY <1>1, GotoProgress
<1>2. CASE Open(t) \/ Recv(t) \/ Count(t)
  BY <1>2, OffsetProgress
<1>3. CASE Write(t)
  BY <1>3, WriteProgress
<1>4. CASE Tell(t)
  BY <1>4, TellProgress
<1>5. CASE Cut(t)
  BY <1>5, CutProgress
<1>6. CASE Lock(t)
  BY <1>6, LockProgress
<1>7. CASE Add(t)
  BY <1>7, AddProgress
<1>8. CASE Die \/ Exit
  BY <1>8, GoneProgress
<1>9. CASE WriteFault(t)
  BY <1>8, <1>9 DEF WriteFault
<1>10. CASE Misled(t)
  <2>1. CASE ~Exit
    <3>1. /\ Goto(t, "done") /\ w[t].pc = "open"
          /\ UNCHANGED <<mpc, tempDir, down_size, lock, part, tainted>>
      BY <1>10, <2>1 DEF Misled, ThreadFrame, lines, bytes, tainted
    <3> QED BY <3>1, GoesOn DEF Pcs, Owing
  <2> QED BY <1>8, <2>1
<1>11. CASE OpenComplete(t) \/ UseError(t) \/ UseEnd(t) \/ Close(t) \/ (LookWrong(t) /\ ~Die)
  <2>1. w[t].pc \notin Owing /\ Leave(t)
    BY <1>11 DEF OpenComplete, UseError, UseEnd, Close, LookWrong, Owing
  <2>2. \/ part' = part
        \/ part' = [part EXCEPT ![t] = Flushed(@)]
        \/ part' = [part EXCEPT ![t].is = "file"]
    BY <1>11 DEF OpenComplete, UseError, UseEnd, Close, LookWrong
  <2> QED BY <2>1, <2>2, LeaveProgress
<1> QED BY <1>1, <1>2, <1>3, <1>4, <1>5, <1>6, <1>7, <1>8, <1>9, <1>10, <1>11 DEF ThreadStep

LEMMA NextProgress == IInv /\ IInv' /\ ProgressInv /\ [Next]_vars => ProgressInv'
<1> SUFFICES ASSUME IInv, IInv', ProgressInv, [Next]_vars PROVE ProgressInv'
  OBVIOUS
<1>1. CASE Spawn
  BY <1>1, SpawnProgress
<1>2. CASE Kill \/ FetchMd5Exits \/ \E t \in T : PasvFails(t)
  BY <1>2, GoneProgress DEF Kill, FetchMd5Exits, PasvFails
<1>3. CASE MainStep
  BY <1>3, MainProgress
<1>4. CASE FetchMd5Fails \/ SizeNotLearnt
  BY <1>4, Md5Progress
<1>5. ASSUME NEW t \in T, ThreadStep(t) PROVE ProgressInv'
  BY <1>5, ThreadProgress
<1>6. ASSUME NEW t \in T, LoginFails(t) PROVE ProgressInv'
  <2>1. /\ Goto(t, "done") /\ w[t].pc = "connect"
        /\ UNCHANGED <<mpc, tempDir, down_size, lock, part, tainted>>
    BY <1>6 DEF LoginFails, ThreadFrame, lines, bytes, tainted
  <2> QED BY <2>1, GoesOn DEF Pcs, Owing
<1>7. CASE UNCHANGED <<mpc, tempDir, down_size, lock, w, part, tainted>>
  <2>1. Pending' = Pending /\ HeldInAll' = HeldInAll
    BY <1>7 DEF Pending, HeldInAll, Held
  <2>2. LockInv' /\ DirInv'
    BY <1>7 DEF ProgressInv, LockInv, DirInv, Held
  <2>3. ProgressExact'
    BY <1>7, <2>1 DEF ProgressInv, ProgressExact
  <2> QED BY <2>2, <2>3 DEF ProgressInv
<1>8. ASSUME NEW t \in T, DataConnectFails(t) \/ DataFails(t)
      PROVE  UNCHANGED <<mpc, tempDir, down_size, lock, w, part, tainted>>
  BY <1>8 DEF DataConnectFails, DataFails, ThreadFrame, lines, bytes, tainted
<1>9. CASE UNCHANGED vars
  BY <1>7, <1>9 DEF vars, lines, bytes, tainted
<1> QED BY <1>1, <1>2, <1>3, <1>4, <1>5, <1>6, <1>7, <1>8, <1>9 DEF Next

(* As long as threads do not meet in the global buffers, the bytes that      *)
(* progress messages count are exactly those the part files hold, less what  *)
(* threads are about to add, for any number of threads: the mutex around     *)
(* down_size is enough for it, though not for recvbytes, which it is fed from*)
(* (ftp.c:557-562).                                                          *)
THEOREM ProgressCorrect == Spec => []ProgressExact
<1>1. Init => ProgressInv
  <2>1. ASSUME Init, NEW t \in T
        PROVE  w[t].pc = "none" /\ w[t].got = 0 /\ Held(part[t]) = 0
    BY <2>1 DEF Init, NoThread, NoPart, Held
  <2> QED BY <2>1 DEF Init, ProgressInv, LockInv, DirInv, ProgressExact
<1>2. (IInv /\ IInv') /\ ProgressInv /\ [Next]_vars => ProgressInv'
  BY NextProgress
<1>3. ProgressInv => ProgressExact
  BY DEF ProgressInv
<1> QED BY <1>1, <1>2, <1>3, IInvCorrect, PTL DEF Spec


-------------------------------------------------------------------------------
(* Implementing ResumableTransfer *)

(* A step the abstract transfer does not see. *)
LEMMA Unseen ==
    ASSUME Phase' = Phase, Have' = Have, Whole' = Whole
    PROVE  UNCHANGED Transfer!tvars
BY DEF Transfer!tvars

LEMMA HaveIs ==
    ASSUME TypeOK
    PROVE  /\ DOMAIN Have = T
           /\ \A t \in T : Have[t] = part[t].clean /\ Have[t] \in Nat
           /\ Have' = [t \in T |-> part'[t].clean]
<1>1. \A t \in T : part[t].clean \in Nat
  BY Components
<1> QED BY <1>1 DEF Have

LEMMA SameHave ==
    ASSUME \A t \in T : part'[t].clean = part[t].clean
    PROVE  Have' = Have
BY DEF Have

(* Flushing a file, or making it, changes nothing of what is held. *)
LEMMA SameClean ==
    ASSUME TypeOK,
           \/ part' = part
           \/ part' = [t \in T |-> Flushed(part[t])]
           \/ \E u \in T : part' = [part EXCEPT ![u] = Flushed(@)]
           \/ \E u \in T : part' = [part EXCEPT ![u].is = "file"]
    PROVE  Have' = Have
<1>1. DOMAIN part = T /\ \A t \in T : part[t] \in PartFile
  BY DEF TypeOK, DataTypeOK
<1>2. \A t \in T : Flushed(part[t]).clean = part[t].clean
  BY <1>1, FlushedIs
<1>3. CASE part' = part
  BY <1>3, SameHave
<1>4. CASE part' = [t \in T |-> Flushed(part[t])]
  BY <1>2, <1>4, SameHave
<1>5. ASSUME NEW u \in T, part' = [part EXCEPT ![u] = Flushed(part[u])] PROVE Have' = Have
  <2>1. \A t \in T : part'[t] = part[t] \/ part'[t] = Flushed(part[t])
    BY <1>1, <1>5
  <2> QED BY <1>2, <2>1, SameHave
<1>6. ASSUME NEW u \in T, part' = [part EXCEPT ![u].is = "file"] PROVE Have' = Have
  <2>1. \A t \in T : part'[t].clean = part[t].clean
    BY <1>1, <1>6 DEF PartFile
  <2> QED BY <2>1, SameHave
<1> QED BY <1>3, <1>4, <1>5, <1>6

(* The death of a running process is an interruption. *)
LEMMA DieInterrupts ==
    ASSUME TypeOK, Die, Phase \in {"fetching", "merging"}
    PROVE  Transfer!Interrupt
<1>1. mpc' = "dead" /\ target' = target
  BY DEF Die, Gone
<1>2. Phase' = "idle" /\ Whole' = Whole
  BY <1>1 DEF Phase, Whole
<1>3. ASSUME NEW t \in T
      PROVE  part'[t].clean \in Nat /\ part'[t].clean <= part[t].clean
  <2>1. part'[t] = Unflushed(part[t]) /\ part[t] \in PartFile
    BY DEF Die, TypeOK, DataTypeOK
  <2>2. part'[t].clean = Lesser(part[t].clean, part[t].disk)
    BY <2>1 DEF Unflushed, PartFile
  <2>3. part[t].clean \in Nat /\ part[t].disk \in Nat
    BY <2>1 DEF PartFile
  <2> QED BY <2>2, <2>3 DEF Lesser
<1>4. Have' \in [T -> Nat] /\ \A t \in T : Have'[t] <= Have[t]
  BY <1>3, HaveIs
<1> QED BY <1>2, <1>4 DEF Transfer!Interrupt

(* A thread writes what it received: bytes are gained, or they are not the   *)
(* file's.                                                                   *)
LEMMA WriteGains ==
    ASSUME IInv, IInv', NEW t \in T, Write(t) \/ Cut(t), mpc = "create", ~tainted'
    PROVE  Transfer!TNext \/ UNCHANGED Transfer!tvars
<1>0. TypeOK /\ TypeOK' /\ DOMAIN part = T /\ part[t].clean \in Nat /\ w[t].pc # "none"
  BY Components DEF IInv, Write, Cut
<1>1. ThreadFrame
  BY DEF Write, Cut
<1>2. Phase = "fetching" /\ Phase' = "fetching" /\ Whole' = Whole
  BY <1>1 DEF ThreadFrame, Phase, Whole
<1>3. PICK m \in Nat :
        /\ \A u \in T \ {t} : part'[u] = part[u]
        /\ part'[t].clean = part[t].clean \/ part'[t].clean = part[t].clean + m
  <2>1. PICK k \in Int : Fwrite(t, k)
    BY FwriteOf
  <2> QED BY <1>0, <2>1, FwriteIs
<1>4. part'[t].clean <= PartSize(FileSize, Threads, t) /\ part'[t].clean \in Nat
  <2>1. bytesMet' = 0
    BY <1>0, Untainted DEF IInv, Write, Cut, bytes, lines, tainted
  <2>2. CleanInv(t)' /\ OffsetInv(t)'
    BY <2>1 DEF IInv
  <2>3. part'[t].clean \in Nat
    BY <1>0, Components DEF TypeOK, DataTypeOK, PartFile
  <2> QED BY <2>2, <2>3 DEF CleanInv, OffsetInv
<1>5. CASE part'[t].clean = part[t].clean
  BY <1>2, <1>3, <1>5, SameHave, Unseen
<1>6. CASE part'[t].clean # part[t].clean
  <2>1. part'[t].clean > part[t].clean
    BY <1>0, <1>3, <1>6
  <2>2. PartSize(FileSize, Threads, t) \in Nat
    BY PartTypes
  <2>3. part'[t].clean \in (Have[t] + 1) .. [u \in T |-> PartSize(FileSize, Threads, u)][t]
    BY <1>0, <1>4, <2>1, <2>2, HaveIs
  <2>4. Have' = [Have EXCEPT ![t] = part'[t].clean]
    BY <1>3 DEF Have
  <2>5. Transfer!Gain(t)
    BY <1>2, <2>3, <2>4 DEF Transfer!Gain
  <2> QED BY <2>5 DEF Transfer!TNext
<1> QED BY <1>5, <1>6

LEMMA ThreadStepImplements ==
    ASSUME IInv, IInv', NEW t \in T, ThreadStep(t), ~tainted'
    PROVE  Transfer!TNext \/ UNCHANGED Transfer!tvars
<1>0. TypeOK /\ ~tainted
  BY ThreadMetLasts DEF IInv
<1>1. mpc = "create" /\ Phase = "fetching"
  <2>1. w[t].pc # "none"
    BY DEF ThreadStep, Login, PutLogin, SendLogin, Misled, OpenComplete, Open, ClearRest,
           PutRest, SendRest, ClearRetr, PutRetr, SendRetr, Look, LookWrong, Recv, UseError,
           UseEnd, Use, Count, Write, Tell, Cut, WriteFault, Lock, Add, Close, ClearQuit,
           PutQuit, SendQuit
  <2> QED BY <2>1, Living DEF Phase
<1>2. CASE Write(t) \/ Cut(t)
  BY <1>1, <1>2, WriteGains
<1>3. CASE Die
  BY <1>0, <1>1, <1>3, DieInterrupts DEF Transfer!TNext
<1>4. CASE Misled(t)
  <2>1. w[t].pc = "open" /\ w[t].pc # "none" /\ recvline # "227"
    BY <1>4 DEF Misled
  <2>2. CleanInv(t)
    BY <1>0, <2>1, Living
  <2> QED BY <2>1, <2>2 DEF CleanInv
<1>5. CASE /\ ThreadFrame
           /\ \/ part' = part
              \/ part' = [part EXCEPT ![t] = Flushed(@)]
              \/ part' = [part EXCEPT ![t].is = "file"]
  <2>1. Phase' = Phase /\ Whole' = Whole
    BY <1>5 DEF ThreadFrame, Phase, Whole
  <2>2. Have' = Have
    BY <1>0, <1>5, SameClean
  <2> QED BY <2>1, <2>2, Unseen
<1> QED BY <1>2, <1>3, <1>4, <1>5, ThreadParts

(* Merging begins when every part is complete. *)
LEMMA JoinMerges ==
    ASSUME IInv, IInv', Join, FileSize > 0, ~tainted', failures' = 0
    PROVE  Transfer!Merge
<1>1. /\ mpc = "create" /\ mpc' = "merge" /\ part' = part /\ target' = [len |-> 0, clean |-> 0]
  BY DEF Join
<1>2. Phase = "fetching" /\ Phase' = "merging" /\ ~Whole'
  BY <1>1 DEF Phase, Whole
<1>3. ASSUME NEW t \in T PROVE part[t].clean = PartSize(FileSize, Threads, t)
  <2>1. Complete(t)' /\ CleanInv(t)'
    BY <1>1 DEF IInv, WholeInv
  <2>2. Complete(t) /\ part[t].clean = Held(part[t])
    BY <1>1, <2>1 DEF Complete, CleanInv
  <2>3. part[t].disk \in Nat
    BY Components DEF IInv
  <2> QED BY <2>2, <2>3 DEF Complete, Held
<1>4. Have = [t \in T |-> PartSize(FileSize, Threads, t)] /\ Have' = Have
  BY <1>1, <1>3 DEF Have
<1> QED BY <1>2, <1>4 DEF Transfer!Merge

(* The last part that is not empty delivers the file. *)
LEMMA MergePartDelivers ==
    ASSUME IInv, IInv', MergePart, ~tainted, failures = 0
    PROVE  Transfer!TNext \/ UNCHANGED Transfer!tvars
<1>1. /\ mpc = "merge" /\ mpc' = "merge" /\ part' = part /\ idx < Threads /\ idx \in T
      /\ target'.len = target.len + Unflushed(part[idx]).disk
      /\ target'.clean = IF target.clean = target.len /\ target.len = Home(idx)
                         THEN target.clean + Unflushed(part[idx]).clean ELSE target.clean
  BY PartTypes DEF MergePart, IInv, TypeOK, ProcessTypeOK
<1>2. Phase = "merging" /\ Phase' = "merging" /\ Have' = Have
  BY <1>1 DEF Phase, Have
<1>3. CASE Whole'
  BY <1>2, <1>3 DEF Transfer!TNext, Transfer!Deliver
<1>4. CASE Whole' = Whole
  BY <1>2, <1>4, Unseen
<1>5. ASSUME Whole, ~Whole' PROVE FALSE
  <2>1. target.len = FileSize /\ target.clean = FileSize /\ target.len = Home(idx)
    BY <1>1, <1>5 DEF Whole, IInv, MergeInv
  <2>2. PartSize(FileSize, Threads, idx) = 0
    BY <1>1, <2>1, PartTypes, ConstantsAssumption
  <2>3. /\ part[idx] \in PartFile /\ part[idx].disk = 0 /\ part[idx].mem = 0
        /\ part[idx].clean = Held(part[idx])
    BY <1>1, <2>2, Components DEF IInv, WholeInv, Complete, CleanInv
  <2>4. Unflushed(part[idx]).disk = 0 /\ Unflushed(part[idx]).clean = 0
    BY <2>3, UnflushedIs
  <2>5. target'.len = FileSize /\ target'.clean = FileSize
    BY <1>1, <2>1, <2>4, ConstantsAssumption
  <2> QED BY <1>5, <2>5 DEF Whole
<1>6. Whole \in BOOLEAN /\ Whole' \in BOOLEAN
  BY DEF Whole
<1> QED BY <1>3, <1>4, <1>5, <1>6

(* The end of the process. *)
LEMMA FinishEnds ==
    ASSUME IInv, FinishRemoved \/ FinishKept, ~tainted, failures = 0
    PROVE  Transfer!End
<1>1. mpc = "merge" /\ mpc' = "done" /\ idx = Threads /\ target' = target
  BY DEF FinishRemoved, FinishKept, Checked
<1>2. Phase = "merging" /\ Phase' = "done"
  BY <1>1 DEF Phase
<1>3. Whole /\ Whole'
  <2>1. target.clean = target.len /\ target.len = FileSize
    BY <1>1, ConstantsAssumption DEF IInv, MergeInv
  <2> QED BY <1>1, <2>1 DEF Whole
<1>4. CASE FinishRemoved
  <2>1. Have' = [t \in T |-> 0]
    BY <1>4 DEF FinishRemoved, Have, NoPart
  <2> QED BY <1>2, <1>3, <2>1 DEF Transfer!End
<1>5. CASE FinishKept
  <2>1. Have' = Have
    BY <1>5, SameClean DEF FinishKept, IInv
  <2> QED BY <1>2, <1>3, <2>1 DEF Transfer!End
<1> QED BY <1>4, <1>5

LEMMA MainStepImplements ==
    ASSUME IInv, IInv', MainStep, FileSize > 0, ~tainted', failures' = 0
    PROVE  Transfer!TNext \/ UNCHANGED Transfer!tvars
<1>0. TypeOK
  BY DEF IInv
<1>1. CASE FetchMd5 \/ CreateThread
  <2>1. mpc \in {"md5", "create"} /\ mpc' = "create" /\ part' = part /\ target' = target
    BY <1>1 DEF FetchMd5, CreateThread, Md5Frame
  <2>2. Phase' = Phase /\ Whole' = Whole /\ Have' = Have
    BY <2>1 DEF Phase, Whole, Have
  <2> QED BY <2>2, Unseen
<1>2. CASE Join
  BY <1>2, JoinMerges DEF Transfer!TNext
<1>3. CASE MergePart
  <2>1. ~tainted /\ failures = 0
    BY <1>3, MainQuiet DEF MergePart
  <2> QED BY <1>3, <2>1, MergePartDelivers
<1>4. CASE MergeMissing \/ CheckMissing
  <2>1. Die /\ Phase = "merging"
    BY <1>4 DEF MergeMissing, CheckMissing, Phase
  <2> QED BY <1>0, <2>1, DieInterrupts DEF Transfer!TNext
<1>5. CASE FinishRemoved \/ FinishKept
  <2>1. ~tainted /\ failures = 0
    BY <1>5, MainQuiet DEF FinishRemoved, FinishKept
  <2> QED BY <1>5, <2>1, FinishEnds DEF Transfer!TNext
<1> QED BY <1>1, <1>2, <1>3, <1>4, <1>5 DEF MainStep

(* A step without failing connections before or in it. *)
LEMMA StepImplements ==
    ASSUME IInv, IInv', [Next]_vars, FileSize > 0, ~tainted', failures' = 0
    PROVE  Transfer!TNext \/ UNCHANGED Transfer!tvars
<1>0. TypeOK /\ failures \in Nat
  BY ConstantsAssumption DEF IInv, TypeOK, ProcessTypeOK
<1>1. CASE Spawn
  <2>1. mpc \in Ended /\ mpc' = "md5" /\ part' = part /\ target' = target
    BY <1>1 DEF Spawn
  <2>2. Phase \in {"idle", "done"} /\ Phase' = "fetching" /\ Whole' = Whole /\ Have' = Have
    BY <2>1 DEF Phase, Ended, Whole, Have
  <2> QED BY <2>2 DEF Transfer!TNext, Transfer!Begin
<1>2. CASE Kill
  <2>1. Die /\ mpc \notin Ended
    BY <1>2 DEF Kill
  <2>2. Phase \in {"fetching", "merging"}
    BY <1>0, <2>1 DEF Phase, Ended, TypeOK, ProcessTypeOK
  <2> QED BY <1>0, <2>1, <2>2, DieInterrupts DEF Transfer!TNext
<1>3. CASE FetchMd5Fails \/ FetchMd5Exits \/ SizeNotLearnt
  BY <1>0, <1>3 DEF FetchMd5Fails, FetchMd5Exits, SizeNotLearnt
<1>4. ASSUME NEW t \in T, LoginFails(t) \/ PasvFails(t) \/ DataConnectFails(t) \/ DataFails(t)
      PROVE  FALSE
  BY <1>0, <1>4 DEF LoginFails, PasvFails, DataConnectFails, DataFails
<1>5. CASE UNCHANGED vars
  <2>1. Phase' = Phase /\ Whole' = Whole /\ Have' = Have
    BY <1>5 DEF vars, Phase, Whole, Have
  <2> QED BY <2>1, Unseen
<1>6. CASE MainStep
  BY <1>6, MainStepImplements
<1>7. ASSUME NEW t \in T, ThreadStep(t) PROVE Transfer!TNext \/ UNCHANGED Transfer!tvars
  BY <1>7, ThreadStepImplements
<1> QED BY <1>1, <1>2, <1>3, <1>4, <1>5, <1>6, <1>7 DEF Next

(* For files of at least one byte, an FTP download in which no threads meet  *)
(* and no connection fails implements ResumableTransfer: only a kill gives up*)
(* bytes, only whole parts are merged, and the end is reached with the file  *)
(* delivered.                                                                *)
THEOREM RefinementCorrect ==
    ASSUME FileSize > 0
    PROVE  Spec => ImplementsTransfer
<1>1. Init => Transfer!TInit
  BY DEF Init, Transfer!TInit, Phase, Have, NoPart, Whole
<1>2. IInv /\ IInv' /\ [Next]_vars => [TransferStep]_vars
  BY StepImplements DEF TransferStep
<1> QED BY <1>1, <1>2, IInvCorrect, PTL DEF Spec, ImplementsTransfer
===============================================================================
