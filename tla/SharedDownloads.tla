---------------------------- MODULE SharedDownloads ---------------------------
(***************************************************************************)
(* P2P downloads of one file by several processes at once, as the control  *)
(* server starts them when browsers ask for the same file: they work in one*)
(* directory <file>_temp, on the same part files and the same target, and  *)
(* nothing tells them of each other.  P2PDownload has one process at a time*)
(* and in full; here a process does its requests in one step, its servers  *)
(* live, and the requests of its own threads do not meet.                  *)
(*                                                                         *)
(* A file is the sequence of its bytes, each right for its place in the    *)
(* file to be downloaded, wrong, or a hole.  Every process has an offset of*)
(* its own in a part it opened with "wb+", and appends wherever the end is *)
(* to one it opened with "ab".                                             *)
(***************************************************************************)
EXTENDS Segments, SequencesExt

CONSTANTS
    FileSize,         \* php_operation->file_size
    Threads,          \* php_operation->thread_num
    Block,            \* most bytes one recv returns
    MaxRuns,          \* bound: processes started
    MaxTogether       \* bound: processes that run at the same time

ASSUME ConstantsAssumption ==
    /\ FileSize \in Nat /\ Threads \in Nat \ {0}
    /\ Block \in Nat \ {0} /\ MaxRuns \in Nat /\ MaxTogether \in Nat

T == Parts(Threads)
Size(t) == PartSize(FileSize, Threads, t)
Start(t) == PartStart(FileSize, Threads, t)
P == 1 .. MaxRuns

VARIABLES
    proc,       \* the processes: where the main thread is, operation, loop
                \* variable, place in the target, whether the directory it is
                \* in still exists, whether it had the files for itself so far
    th,         \* their threads: bytes asked for, received and written out
    part,       \* the part files
    dir,        \* whether <file>_temp exists
    target,     \* the merged file
    runs        \* processes started so far

vars == <<proc, th, part, dir, target, runs>>

Running(p) == proc[p].pc \notin {"none", "done", "dead"}

NoProcess == [pc |-> "none", op |-> "start", idx |-> 0, off |-> 0, in |-> FALSE, alone |-> TRUE]
NoThread == [pc |-> "none", base |-> 0, ask |-> 0, got |-> 0, out |-> 0, linked |-> TRUE]
Absent == [is |-> "absent", bytes |-> <<>>]
File(bytes) == [is |-> "file", bytes |-> bytes]

Init ==
    /\ proc = [p \in P |-> NoProcess]
    /\ th = [p \in P |-> [t \in T |-> NoThread]]
    /\ part = [t \in T |-> Absent] /\ dir = FALSE
    /\ target = <<>> /\ runs = 0

-------------------------------------------------------------------------------
(* Files *)

(* The bytes s after new was written at an offset, with a hole before it if  *)
(* the file is shorter.                                                      *)
Overlaid(s, off, new) ==
    LET len == IF Len(s) > off + Len(new) THEN Len(s) ELSE off + Len(new) IN
    [i \in 1 .. len |-> IF off < i /\ i <= off + Len(new) THEN new[i - off]
                        ELSE IF i <= Len(s) THEN s[i] ELSE "hole"]

Bytes(n, is) == [i \in 1 .. n |-> is]

(* A byte is right where it stands if its place in the part is its place in  *)
(* what was asked for: base + out of the part comes first of what a thread   *)
(* has still to write out.                                                   *)
Laid(p, t, n, off) ==
    File(Overlaid(part[t].bytes, off,
                  Bytes(n, IF off = th[p][t].base + th[p][t].out THEN "right" ELSE "wrong")))

(* Mutation: both operations append. *)
WrittenOutAppending(p, t, n) ==
    IF n = 0 \/ ~th[p][t].linked THEN part[t]
    ELSE Laid(p, t, n, Len(part[t].bytes))

(* The part after a thread's buffer wrote out n more bytes: at the offset of *)
(* the file it opened with "wb+", which is as far as it has written it, or   *)
(* at the end of the part.                                                   *)
WrittenOut(p, t, n) ==
    IF n = 0 \/ ~th[p][t].linked THEN part[t]
    ELSE Laid(p, t, n, IF proc[p].op = "start" THEN th[p][t].out ELSE Len(part[t].bytes))

(* Mutations: neither operation empties the part; both do. *)
OpenedKept(p, t) == File(part[t].bytes)
OpenedEmpty(p, t) == File(<<>>)

(* fopen, "wb+" or "ab". *)
Opened(p, t) == IF proc[p].op = "start" THEN File(<<>>) ELSE File(part[t].bytes)

-------------------------------------------------------------------------------
(* The life of a process *)

(* A browser asks for the file, while others may be downloading it. *)
Spawn(o) ==
    LET p == runs + 1 IN
    /\ runs < MaxRuns /\ runs' = p
    /\ Cardinality({q \in P : Running(q)}) < MaxTogether
    /\ dir' = (dir \/ o = "start")
    /\ proc' = [q \in P |->
         IF q = p THEN [NoProcess EXCEPT !.pc = "create", !.op = o, !.in = dir',
                                         !.alone = ~\E r \in P : Running(r)]
         ELSE [proc[q] EXCEPT !.alone = FALSE]]
    /\ UNCHANGED <<th, part, target>>

(* What its buffers hold is lost. *)
Die(p) ==
    /\ proc' = [proc EXCEPT ![p] = [NoProcess EXCEPT !.pc = "dead", !.op = proc[p].op]]
    /\ th' = [th EXCEPT ![p] = [t \in T |-> NoThread]]
    /\ UNCHANGED <<part, dir, target, runs>>

Kill(p) == Running(p) /\ Die(p)

-------------------------------------------------------------------------------
(* The loop that creates the threads *)

NewThread(base, ask) == [NoThread EXCEPT !.pc = "asks", !.base = base, !.ask = ask]

(* One round of the loop: a part is asked for as a whole, ... *)
CreateThread(p) ==
    LET t == proc[p].idx IN
    /\ proc[p].pc = "create" /\ proc[p].op = "start" /\ t < Threads
    /\ th' = [th EXCEPT ![p][t] = NewThread(0, Size(t))]
    /\ proc' = [proc EXCEPT ![p].idx = t + 1]
    /\ UNCHANGED <<part, dir, target, runs>>

(* The file of the part can be opened for reading. *)
Found(p, t) == proc[p].in /\ part[t].is = "file"

(* ... or what it lacks by the length found here, which is what the thread   *)
(* goes by from now on.                                                      *)
ContinuePart(p) ==
    LET t == proc[p].idx
        len == Len(part[t].bytes)
    IN  /\ proc[p].pc = "create" /\ proc[p].op = "continue" /\ t < Threads /\ Found(p, t)
        /\ th' = IF len = Size(t) THEN th
                 ELSE [th EXCEPT ![p][t] = NewThread(len, Size(t) - len)]
        /\ proc' = [proc EXCEPT ![p].idx = t + 1]
        /\ UNCHANGED <<part, dir, target, runs>>

(* fseek on the NULL fopen returned, here or in file_merge. *)
PartMissing(p) ==
    LET t == proc[p].idx IN
    /\ t < Threads /\ ~Found(p, t)
    /\ proc[p].pc = "merge" \/ (proc[p].pc = "create" /\ proc[p].op = "continue")
    /\ Die(p)

-------------------------------------------------------------------------------
(* Threads *)

(* The request is answered and the part opened. *)
Open(p, t) ==
    /\ th[p][t].pc = "asks" /\ proc[p].in
    /\ th' = [th EXCEPT ![p][t].pc = "recv"]
    /\ part' = [part EXCEPT ![t] = Opened(p, t)]
    /\ UNCHANGED <<proc, dir, target, runs>>

(* In a directory that was removed no file can be made: fwrite gets NULL. *)
OpenFails(p, t) ==
    /\ th[p][t].pc = "asks" /\ ~proc[p].in
    /\ Die(p)

(* recv and fwrite, which writes out as much of its buffer as it likes. *)
Recv(p, t) ==
    /\ th[p][t].pc = "recv" /\ th[p][t].got < th[p][t].ask
    /\ \E n \in 1 .. Block :
         /\ th[p][t].got + n <= th[p][t].ask
         /\ \E k \in 0 .. th[p][t].got + n - th[p][t].out :
              /\ part' = [part EXCEPT ![t] = WrittenOut(p, t, k)]
              /\ th' = [th EXCEPT ![p][t].got = @ + n, ![p][t].out = @ + k]
    /\ UNCHANGED <<proc, dir, target, runs>>

(* fclose, and the end of the thread. *)
Finish(p, t) ==
    /\ th[p][t].pc = "recv" /\ th[p][t].got >= th[p][t].ask
    /\ part' = [part EXCEPT ![t] = WrittenOut(p, t, th[p][t].got - th[p][t].out)]
    /\ th' = [th EXCEPT ![p][t] = [NoThread EXCEPT !.pc = "done"]]
    /\ UNCHANGED <<proc, dir, target, runs>>

-------------------------------------------------------------------------------
(* file_merge and what follows it *)

(* Mutation: only the thread created last is joined. *)
JoinLast(p) ==
    /\ proc[p].pc = "create" /\ proc[p].idx = Threads
    /\ th[p][Threads - 1].pc \in {"none", "done"}
    /\ proc' = [proc EXCEPT ![p].pc = "merge", ![p].idx = 0, ![p].in = dir]
    /\ target' = <<>>
    /\ UNCHANGED <<th, part, dir, runs>>

(* The threads are joined; fopen empties the target, and the directory is    *)
(* entered again, if it is there.                                            *)
Join(p) ==
    /\ proc[p].pc = "create" /\ proc[p].idx = Threads
    /\ \A t \in T : th[p][t].pc \in {"none", "done"}
    /\ proc' = [proc EXCEPT ![p].pc = "merge", ![p].idx = 0, ![p].in = dir]
    /\ th' = [th EXCEPT ![p] = [t \in T |-> NoThread]]
    /\ target' = <<>>
    /\ UNCHANGED <<part, dir, runs>>

(* A byte merged at another place than its own is wrong there. *)
Merged(s, right) == [i \in DOMAIN s |-> IF s[i] = "hole" \/ right THEN s[i] ELSE "wrong"]

MergePart(p) ==
    LET t == proc[p].idx
        s == part[t].bytes
    IN  /\ proc[p].pc = "merge" /\ t < Threads /\ Found(p, t) /\ s # <<>>
        /\ target' = Overlaid(target, proc[p].off, Merged(s, proc[p].off = Start(t)))
        /\ proc' = [proc EXCEPT ![p].idx = t + 1, ![p].off = @ + Len(s)]
        /\ UNCHANGED <<th, part, dir, runs>>

(* An empty part: file_merge returns, and "rm -rf" removes the directory,    *)
(* under the feet of the others, whose open parts have no name any more.     *)
MergeEmpty(p) ==
    LET t == proc[p].idx IN
    /\ proc[p].pc = "merge" /\ t < Threads /\ Found(p, t) /\ part[t].bytes = <<>>
    /\ proc' = [proc EXCEPT ![p].pc = "remove"]
    /\ UNCHANGED <<th, part, dir, target, runs>>

RemoveDir(p) ==
    /\ proc[p].pc = "remove"
    /\ dir' = FALSE /\ part' = [t \in T |-> Absent]
    /\ proc' = [q \in P |-> IF q = p THEN [proc[p] EXCEPT !.pc = "done", !.in = FALSE, !.idx = 0, !.off = 0]
                            ELSE [proc[q] EXCEPT !.in = FALSE]]
    /\ th' = [q \in P |-> [t \in T |-> IF th[q][t].pc = "recv"
                                       THEN [th[q][t] EXCEPT !.linked = FALSE] ELSE th[q][t]]]
    /\ UNCHANGED <<target, runs>>

(* After a merge of every part "rm -rf" finds nothing: the process is one    *)
(* directory too high.                                                       *)
MergeEnd(p) ==
    /\ proc[p].pc = "merge" /\ proc[p].idx = Threads
    /\ proc' = [proc EXCEPT ![p].pc = "done", ![p].in = FALSE, ![p].idx = 0, ![p].off = 0]
    /\ UNCHANGED <<th, part, dir, target, runs>>

-------------------------------------------------------------------------------
Step(p) ==
    \/ CreateThread(p) \/ ContinuePart(p) \/ PartMissing(p)
    \/ \E t \in T : Open(p, t) \/ OpenFails(p, t) \/ Recv(p, t) \/ Finish(p, t)
    \/ Join(p) \/ MergePart(p) \/ MergeEmpty(p) \/ RemoveDir(p) \/ MergeEnd(p)

Next ==
    \/ \E o \in {"start", "continue"} : Spawn(o)
    \/ \E p \in P : Step(p) \/ Kill(p)

Spec == Init /\ [][Next]_vars

-------------------------------------------------------------------------------
(* Properties *)

Byte == {"right", "wrong", "hole"}
Process == [pc : {"none", "create", "merge", "remove", "done", "dead"}, op : {"start", "continue"},
            idx : 0 .. Threads, off : Nat, in : BOOLEAN, alone : BOOLEAN]
Thread == [pc : {"none", "asks", "recv", "done"}, base : Nat, ask : Int, got : Nat, out : Nat,
           linked : BOOLEAN]

(* The type of every variable.  A thread writes out what it received. *)
TypeOK ==
    /\ proc \in [P -> Process] /\ th \in [P -> [T -> Thread]]
    /\ \A p \in P, t \in T : th[p][t].out <= th[p][t].got
    /\ part \in [T -> [is : {"absent", "file"}, bytes : Seq(Byte)]]
    /\ dir \in BOOLEAN /\ target \in Seq(Byte) /\ runs \in 0 .. MaxRuns

OnlyStarts == \A p \in P : proc[p].op = "start"
Whole(s, n) == s = Bytes(n, "right")

(* However many fresh downloads of one file overlap (p2p_download.c:55, 191),*)
(* and wherever they are killed, none writes a byte where it does not belong *)
(* or behind the end of the part: what they can do to each other's parts is  *)
(* to leave holes and to shorten them.                                       *)
StartsWriteRight ==
    OnlyStarts => \A t \in T :
        /\ Len(part[t].bytes) <= Size(t)
        /\ \A i \in DOMAIN part[t].bytes : part[t].bytes[i] # "wrong"

(* Once overlapping fresh downloads have all run to their ends, every part   *)
(* is whole, or removed by an early return of file_merge.  (Of the target    *)
(* this is not true: an earlier process may write to it last.)               *)
StartsLeaveWholeParts ==
    (OnlyStarts /\ \A p \in P : proc[p].pc \in {"none", "done"})
        => \A t \in T : part[t].is = "file" => Whole(part[t].bytes, Size(t))

(* A fresh download that no other overlaps delivers the whole file, whatever *)
(* overlapping and killed ones left in the directory before it.              *)
LoneStartDelivers ==
    (runs > 0 /\ FileSize >= Threads /\ proc[runs].pc = "done"
        /\ proc[runs].op = "start" /\ proc[runs].alone) => Whole(target, FileSize)

(* Resumed downloads that overlap only ever add to a part: what was on the   *)
(* disk stays, until an early return of file_merge removes all.              *)
ContinuesKeepDisk ==
    [][(\A p \in P : Running(p) => proc[p].op = "continue") =>
         \A t \in T : part'[t].is = "file" =>
            IsPrefix(part[t].bytes, part'[t].bytes)]_vars

-------------------------------------------------------------------------------
(* The inductive invariants behind the properties above *)

(* Threads live while their main thread is in its loop, and only up to where *)
(* that has come, and a part that is open and has its name is there.         *)
LifeOf(p, t) ==
    /\ th[p][t].pc # "none" => proc[p].pc = "create" /\ t < proc[p].idx
    /\ th[p][t].pc = "asks" => th[p][t].got = 0 /\ th[p][t].out = 0 /\ th[p][t].linked
    /\ (th[p][t].pc = "recv" /\ th[p][t].linked) => part[t].is = "file"

(* Who was not started does nothing.                                         *)
LifeInv ==
    /\ \A p \in P : p > runs => proc[p].pc = "none" /\ proc[p].op = "start"
    /\ \A p \in P, t \in T : LifeOf(p, t)
    /\ \A t \in T : part[t].is = "absent" => part[t].bytes = <<>>

(* A fresh download asks for parts as a whole. *)
AsksWhole(p, t) ==
    th[p][t].pc \in {"asks", "recv"} =>
        th[p][t].base = 0 /\ th[p][t].ask = Size(t) /\ th[p][t].got <= Size(t)

(* Whoever opened a part last, and so emptied it, is still to write what is  *)
(* not right in it.                                                          *)
Restores(p, t) ==
    /\ th[p][t].pc = "recv" /\ th[p][t].linked
    /\ th[p][t].out <= Len(part[t].bytes)
    /\ \A i \in 1 .. th[p][t].out : part[t].bytes[i] = "right"

StartsPart(t) ==
    /\ \A p \in P : AsksWhole(p, t)
    /\ Len(part[t].bytes) <= Size(t)
    /\ \A i \in DOMAIN part[t].bytes : part[t].bytes[i] # "wrong"
    /\ part[t].is = "file" =>
         \/ Whole(part[t].bytes, Size(t))
         \/ \E p \in P : proc[p].pc = "dead"
         \/ \E p \in P : Restores(p, t)

StartsInv == OnlyStarts => \A t \in T : StartsPart(t)

(* The download started last is a fresh one that had the files for itself:   *)
(* its threads leave whole parts, and what it merged so far is right.        *)
Lone(p) == proc[p].op = "start" /\ proc[p].alone /\ proc[p].pc # "dead"
LastIsLone(p) == p = runs /\ FileSize >= Threads /\ Lone(p)

LonePart(p, t) ==
    /\ AsksWhole(p, t) /\ th[p][t].pc # "none"
    /\ th[p][t].pc = "recv" => /\ th[p][t].linked
                               /\ Whole(part[t].bytes, th[p][t].out)
    /\ th[p][t].pc = "done" => part[t].is = "file" /\ Whole(part[t].bytes, Size(t))

LoneCreates(p) ==
    /\ proc[p].in /\ dir /\ proc[p].off = 0
    /\ \A t \in T : t < proc[p].idx => LonePart(p, t)

Offset(i) == IF i < Threads THEN Start(i) ELSE FileSize

LoneMerges(p) ==
    /\ proc[p].in /\ proc[p].off = Offset(proc[p].idx) /\ Whole(target, proc[p].off)
    /\ \A t \in T : part[t].is = "file" /\ Whole(part[t].bytes, Size(t))

LoneGoes(p) ==
    \/ proc[p].pc = "create" /\ LoneCreates(p)
    \/ proc[p].pc = "merge" /\ LoneMerges(p)
    \/ proc[p].pc = "done" /\ Whole(target, FileSize)

LoneInv == \A p \in P : LastIsLone(p) => (\A q \in P \ {p} : ~Running(q)) /\ LoneGoes(p)

IInv == TypeOK /\ LifeInv /\ StartsInv /\ LoneInv
===============================================================================
