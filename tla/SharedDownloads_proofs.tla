------------------------- MODULE SharedDownloads_proofs ------------------------
(***************************************************************************)
(* Proofs about SharedDownloads for every file size, number of threads,    *)
(* block size and number of processes, at once or one after another: its   *)
(* types, that overlapping fresh downloads write no byte where it does not *)
(* belong and leave whole parts, that a fresh one left alone delivers the  *)
(* file, and that resumed ones keep what is on the disk.                   *)
(***************************************************************************)
EXTENDS SharedDownloads, PartLemmas, SequenceTheorems

-------------------------------------------------------------------------------
(* Parts *)

(* Parts are numbers below that of the threads, and lie inside the file.     *)
LEMMA PartTypes ==
    /\ T \subseteq Nat /\ 0 \in T /\ \A t \in T : t < Threads
    /\ \A i \in 0 .. Threads : i < Threads => i \in T
    /\ \A t \in T : Size(t) \in Nat /\ Start(t) \in Nat
<1>1. T \subseteq Nat /\ 0 \in T /\ \A t \in T : t < Threads
  BY ConstantsAssumption DEF T, Parts
<1>2. \A i \in 0 .. Threads : i < Threads => i \in T
  BY ConstantsAssumption DEF T, Parts
<1>3. \A t \in T : Size(t) \in Nat /\ Start(t) \in Nat
  BY ConstantsAssumption, PartInFile DEF T, Size, Start
<1> QED BY <1>1, <1>2, <1>3

-------------------------------------------------------------------------------
(* Contents of files *)

(* A function on 1 .. n is a sequence of length n.                           *)
LEMMA FunctionIsSeq ==
    ASSUME NEW S, NEW n \in Nat, NEW f \in [1 .. n -> S]
    PROVE  f \in Seq(S) /\ Len(f) = n /\ DOMAIN f = 1 .. n
<1>1. f \in Seq(S)
  BY SeqDef
<1>2. DOMAIN f = 1 .. n /\ DOMAIN f = 1 .. Len(f) /\ Len(f) \in Nat
  BY <1>1, LenProperties
<1> QED BY <1>1, <1>2

(* n bytes of one kind.                                                      *)
LEMMA BytesIs ==
    ASSUME NEW n \in Nat, NEW b \in Byte
    PROVE  /\ Bytes(n, b) \in Seq(Byte) /\ Len(Bytes(n, b)) = n
           /\ \A i \in 1 .. n : Bytes(n, b)[i] = b
<1>1. Bytes(n, b) \in [1 .. n -> Byte]
  BY DEF Bytes
<1>2. Bytes(n, b) \in Seq(Byte) /\ Len(Bytes(n, b)) = n
  BY <1>1, FunctionIsSeq
<1> QED BY <1>2 DEF Bytes

(* What a write at an offset leaves.                                         *)
LEMMA OverlaidIs ==
    ASSUME NEW s \in Seq(Byte), NEW off \in Nat, NEW new \in Seq(Byte)
    PROVE  LET o == Overlaid(s, off, new) IN
           /\ o \in Seq(Byte)
           /\ Len(o) = IF Len(s) > off + Len(new) THEN Len(s) ELSE off + Len(new)
           /\ \A i \in 1 .. Len(o) :
                o[i] = IF off < i /\ i <= off + Len(new) THEN new[i - off]
                       ELSE IF i <= Len(s) THEN s[i] ELSE "hole"
<1> DEFINE len == IF Len(s) > off + Len(new) THEN Len(s) ELSE off + Len(new)
           at(i) == IF off < i /\ i <= off + Len(new) THEN new[i - off]
                    ELSE IF i <= Len(s) THEN s[i] ELSE "hole"
           o == [i \in 1 .. len |-> at(i)]
<1>1. Len(s) \in Nat /\ Len(new) \in Nat /\ len \in Nat
  <2>1. Len(s) \in Nat /\ Len(new) \in Nat
    BY LenProperties
  <2> QED BY <2>1
<1>2. ASSUME NEW i \in 1 .. len PROVE at(i) \in Byte
  <2>1. CASE off < i /\ i <= off + Len(new)
    <3>1. i - off \in 1 .. Len(new)
      BY <1>1, <2>1
    <3>2. new[i - off] \in Byte
      BY <3>1, ElementOfSeq
    <3> QED BY <2>1, <3>2
  <2>2. CASE ~(off < i /\ i <= off + Len(new)) /\ i <= Len(s)
    <3>1. i \in 1 .. Len(s)
      BY <1>1, <2>2
    <3>2. s[i] \in Byte
      BY <3>1, ElementOfSeq
    <3> QED BY <2>2, <3>2
  <2>3. CASE ~(off < i /\ i <= off + Len(new)) /\ ~(i <= Len(s))
    BY <2>3 DEF Byte
  <2> QED BY <2>1, <2>2, <2>3
<1>3. o = Overlaid(s, off, new)
  BY DEF Overlaid
<1>4. \A i \in 1 .. len : o[i] = at(i)
  OBVIOUS
<1>5. o \in [1 .. len -> Byte]
  BY <1>2
<1> HIDE DEF o
<1>6. o \in Seq(Byte) /\ Len(o) = len
  <2> HIDE DEF len
  <2> QED BY <1>1, <1>5, FunctionIsSeq
<1> QED BY <1>3, <1>4, <1>6

(* A file is whole if it is as long as it should be, and right everywhere.   *)
LEMMA WholeIs ==
    ASSUME NEW s \in Seq(Byte), NEW n \in Nat
    PROVE  Whole(s, n) <=> Len(s) = n /\ \A i \in 1 .. n : s[i] = "right"
<1>1. "right" \in Byte
  BY DEF Byte
<1>2. /\ Bytes(n, "right") \in Seq(Byte) /\ Len(Bytes(n, "right")) = n
      /\ \A i \in 1 .. n : Bytes(n, "right")[i] = "right"
  BY <1>1, BytesIs
<1>3. ASSUME Len(s) = n, \A i \in 1 .. n : s[i] = "right" PROVE s = Bytes(n, "right")
  <2>1. Len(s) = Len(Bytes(n, "right"))
    BY <1>2, <1>3
  <2>2. \A i \in 1 .. Len(s) : s[i] = Bytes(n, "right")[i]
    BY <1>2, <1>3
  <2> QED BY <1>2, <2>1, <2>2, SeqEqual
<1> QED BY <1>2, <1>3 DEF Whole

(* Nothing is whole if it should be nothing.                                 *)
LEMMA EmptyWhole == <<>> \in Seq(Byte) /\ Len(<<>>) = 0 /\ Whole(<<>>, 0)
<1>1. <<>> \in Seq(Byte) /\ Len(<<>>) = 0
  BY EmptySeq
<1>2. Whole(<<>>, 0) <=> Len(<<>>) = 0 /\ \A i \in 1 .. 0 : <<>>[i] = "right"
  BY <1>1, WholeIs
<1> QED BY <1>1, <1>2

(* Right bytes written into a file change no right byte, write no wrong one, *)
(* and go no further than what was there or their own end.                   *)
LEMMA RightOverlaid ==
    ASSUME NEW s \in Seq(Byte), NEW off \in Nat, NEW n \in Nat
    PROVE  LET o == Overlaid(s, off, Bytes(n, "right")) IN
           /\ o \in Seq(Byte)
           /\ Len(o) = IF Len(s) > off + n THEN Len(s) ELSE off + n
           /\ \A i \in 1 .. Len(s) : s[i] = "right" => o[i] = "right"
           /\ \A i \in 1 .. Len(o) : off < i /\ i <= off + n => o[i] = "right"
           /\ (\A i \in 1 .. Len(s) : s[i] # "wrong") => \A i \in 1 .. Len(o) : o[i] # "wrong"
<1> DEFINE new == Bytes(n, "right")
<1>1. /\ new \in Seq(Byte) /\ Len(new) = n /\ \A i \in 1 .. n : new[i] = "right"
  <2>1. "right" \in Byte
    BY DEF Byte
  <2> QED BY <2>1, BytesIs
<1> DEFINE o == Overlaid(s, off, new)
<1> HIDE DEF new
<1>2. /\ o \in Seq(Byte)
      /\ Len(o) = IF Len(s) > off + Len(new) THEN Len(s) ELSE off + Len(new)
      /\ \A i \in 1 .. Len(o) :
           o[i] = IF off < i /\ i <= off + Len(new) THEN new[i - off]
                  ELSE IF i <= Len(s) THEN s[i] ELSE "hole"
  BY <1>1, OverlaidIs
<1> HIDE DEF o
<1>3. Len(s) \in Nat /\ Len(o) = IF Len(s) > off + n THEN Len(s) ELSE off + n
  BY <1>1, <1>2, LenProperties
<1>4. ASSUME NEW i \in 1 .. Len(o)
      PROVE  /\ off < i /\ i <= off + n => o[i] = "right"
             /\ ~(off < i /\ i <= off + n) /\ i <= Len(s) => o[i] = s[i]
             /\ ~(off < i /\ i <= off + n) /\ ~(i <= Len(s)) => o[i] = "hole"
  <2>1. off < i /\ i <= off + n => i - off \in 1 .. n
    BY <1>3
  <2> QED BY <1>1, <1>2, <2>1
<1>5. \A i \in 1 .. Len(s) : i \in 1 .. Len(o)
  BY <1>3
<1>6. ASSUME NEW i \in 1 .. Len(s), s[i] = "right" PROVE o[i] = "right"
  BY <1>3, <1>4, <1>5, <1>6
<1>7. ASSUME \A i \in 1 .. Len(s) : s[i] # "wrong", NEW i \in 1 .. Len(o) PROVE o[i] # "wrong"
  <2>1. i <= Len(s) => i \in 1 .. Len(s)
    BY <1>3
  <2> QED BY <1>4, <1>7, <2>1
<1> QED BY <1>2, <1>3, <1>4, <1>6, <1>7 DEF o, new

(* A file that agrees with another as far as it goes is a prefix of it.      *)
LEMMA PrefixIf ==
    ASSUME NEW s \in Seq(Byte), NEW u \in Seq(Byte), Len(s) <= Len(u),
           \A i \in 1 .. Len(s) : s[i] = u[i]
    PROVE  IsPrefix(s, u)
<1> DEFINE a == SubSeq(s, 1, Len(s))
           b == SubSeq(u, 1, Len(s))
<1>1. Len(s) \in Nat /\ Len(u) \in Nat
  BY LenProperties
<1>2. /\ \A i \in 1 .. Len(s) : s[i] \in Byte
      /\ \A i \in 1 .. Len(s) : u[i] \in Byte
  BY ElementOfSeq
<1>3. /\ a \in Seq(Byte) /\ Len(a) = IF 1 <= Len(s) THEN Len(s) - 1 + 1 ELSE 0
      /\ \A i \in 1 .. Len(s) - 1 + 1 : a[i] = s[1 + i - 1]
  BY <1>1, <1>2, SubSeqProperties
<1>4. /\ b \in Seq(Byte) /\ Len(b) = IF 1 <= Len(s) THEN Len(s) - 1 + 1 ELSE 0
      /\ \A i \in 1 .. Len(s) - 1 + 1 : b[i] = u[1 + i - 1]
  BY <1>1, <1>2, SubSeqProperties
<1> HIDE DEF a, b
<1>5. Len(a) = Len(b) /\ Len(a) = Len(s)
  BY <1>1, <1>3, <1>4
<1>6. \A i \in 1 .. Len(a) : a[i] = b[i]
  BY <1>1, <1>3, <1>4, <1>5
<1>7. a = b
  BY <1>3, <1>4, <1>5, <1>6, SeqEqual
<1> QED BY <1>7 DEF IsPrefix, a, b

(* A file is a prefix of itself and of what is appended to it.               *)
LEMMA PrefixOf ==
    ASSUME NEW s \in Seq(Byte), NEW u \in Seq(Byte)
    PROVE  IsPrefix(s, s) /\ IsPrefix(<<>>, s) /\ IsPrefix(s, s \o u)
<1>1. Len(s) \in Nat /\ Len(u) \in Nat /\ <<>> \in Seq(Byte) /\ Len(<<>>) = 0
  BY LenProperties, EmptySeq
<1>2. /\ s \o u \in Seq(Byte) /\ Len(s \o u) = Len(s) + Len(u)
      /\ \A i \in 1 .. Len(s) + Len(u) : (s \o u)[i] = IF i <= Len(s) THEN s[i] ELSE u[i - Len(s)]
  BY ConcatProperties
<1> DEFINE c == s \o u
<1>3. \A i \in 1 .. Len(s) : s[i] = c[i]
  BY <1>1, <1>2
<1>4. IsPrefix(s, c)
  <2>1. c \in Seq(Byte) /\ Len(s) <= Len(c)
    BY <1>1, <1>2
  <2> HIDE DEF c
  <2> QED BY <1>3, <2>1, PrefixIf
<1>5. IsPrefix(s, s)
  BY <1>1, PrefixIf
<1>6. IsPrefix(<<>>, s)
  <2> DEFINE e == <<>>
  <2>1. e \in Seq(Byte) /\ Len(e) = 0
    BY <1>1
  <2> HIDE DEF e
  <2>2. Len(e) <= Len(s) /\ \A i \in 1 .. Len(e) : e[i] = s[i]
    BY <1>1, <2>1
  <2>3. IsPrefix(e, s)
    BY <2>1, <2>2, PrefixIf
  <2> QED BY <2>3 DEF e
<1> QED BY <1>4, <1>5, <1>6

-------------------------------------------------------------------------------
(* Types *)

PartType == [is : {"absent", "file"}, bytes : Seq(Byte)]

(* The types of one process, one thread and one part.                        *)
LEMMA Components ==
    ASSUME TypeOK, NEW p \in P, NEW t \in T
    PROVE  /\ proc[p] \in Process /\ proc[p].op \in {"start", "continue"}
           /\ proc[p].idx \in 0 .. Threads /\ proc[p].idx \in Nat /\ proc[p].off \in Nat
           /\ proc[p].in \in BOOLEAN /\ proc[p].alone \in BOOLEAN
           /\ th[p][t] \in Thread /\ th[p][t].base \in Nat /\ th[p][t].ask \in Int
           /\ th[p][t].got \in Nat /\ th[p][t].out \in Nat /\ th[p][t].out <= th[p][t].got
           /\ th[p][t].linked \in BOOLEAN
           /\ part[t] \in PartType /\ part[t].is \in {"absent", "file"}
           /\ part[t].bytes \in Seq(Byte) /\ Len(part[t].bytes) \in Nat
           /\ DOMAIN part[t].bytes = 1 .. Len(part[t].bytes)
<1>1. proc[p] \in Process /\ th[p][t] \in Thread /\ part[t] \in PartType
      /\ th[p][t].out <= th[p][t].got
  BY DEF TypeOK, PartType
<1>2. /\ proc[p].op \in {"start", "continue"} /\ proc[p].idx \in 0 .. Threads /\ proc[p].off \in Nat
      /\ proc[p].in \in BOOLEAN /\ proc[p].alone \in BOOLEAN
  BY <1>1 DEF Process
<1>3. proc[p].idx \in Nat
  BY <1>2, ConstantsAssumption
<1>4. /\ th[p][t].base \in Nat /\ th[p][t].ask \in Int /\ th[p][t].got \in Nat
      /\ th[p][t].out \in Nat /\ th[p][t].linked \in BOOLEAN
  BY <1>1 DEF Thread
<1>5. part[t].is \in {"absent", "file"} /\ part[t].bytes \in Seq(Byte)
  BY <1>1 DEF PartType
<1>6. Len(part[t].bytes) \in Nat /\ DOMAIN part[t].bytes = 1 .. Len(part[t].bytes)
  BY <1>5, LenProperties
<1> QED BY <1>1, <1>2, <1>3, <1>4, <1>5, <1>6

(* What is written at an offset is a file again, and adds to the file if the *)
(* offset is its end.                                                        *)
LEMMA LaidIs ==
    ASSUME TypeOK, NEW p \in P, NEW t \in T, NEW n \in Nat, NEW off \in Nat
    PROVE  LET q == Laid(p, t, n, off)
               s == part[t].bytes
           IN  /\ q \in PartType /\ q.is = "file"
               /\ off = th[p][t].base + th[p][t].out
                    => q.bytes = Overlaid(s, off, Bytes(n, "right"))
               /\ off = Len(s) => IsPrefix(s, q.bytes)
<1> DEFINE q == Laid(p, t, n, off)
           s == part[t].bytes
           kind == IF off = th[p][t].base + th[p][t].out THEN "right" ELSE "wrong"
           new == Bytes(n, kind)
           o == Overlaid(s, off, new)
<1>1. s \in Seq(Byte) /\ Len(s) \in Nat
  BY Components
<1>2. new \in Seq(Byte)
  <2>1. kind \in Byte
    BY DEF Byte
  <2> HIDE DEF kind
  <2> QED BY <2>1, BytesIs
<1>3. q = File(o)
  BY DEF Laid
<1>4. off = th[p][t].base + th[p][t].out => o = Overlaid(s, off, Bytes(n, "right"))
  OBVIOUS
<1> HIDE DEF new, s, q
<1>5. /\ o \in Seq(Byte)
      /\ Len(o) = IF Len(s) > off + Len(new) THEN Len(s) ELSE off + Len(new)
      /\ \A i \in 1 .. Len(o) :
           o[i] = IF off < i /\ i <= off + Len(new) THEN new[i - off]
                  ELSE IF i <= Len(s) THEN s[i] ELSE "hole"
  BY <1>1, <1>2, OverlaidIs
<1>6. ASSUME off = Len(s) PROVE IsPrefix(s, o)
  <2>1. Len(new) \in Nat
    BY <1>2, LenProperties
  <2> HIDE DEF o
  <2>2. Len(s) <= Len(o)
    BY <1>1, <1>5, <2>1
  <2>3. \A i \in 1 .. Len(s) : s[i] = o[i]
    BY <1>1, <1>5, <1>6, <2>2
  <2> QED BY <1>1, <1>5, <2>2, <2>3, PrefixIf
<1> HIDE DEF o
<1>7. q.is = "file" /\ q.bytes = o /\ q \in PartType
  BY <1>3, <1>5 DEF File, PartType
<1> QED BY <1>4, <1>6, <1>7 DEF o, q, s, new

(* What a thread writes out, by a "start" and by a "continue".               *)
LEMMA WrittenOutIs ==
    ASSUME TypeOK, NEW p \in P, NEW t \in T, NEW n \in Nat
    PROVE  LET q == WrittenOut(p, t, n)
               s == part[t].bytes
               out == th[p][t].out
           IN  /\ q \in PartType
               /\ (n = 0 \/ ~th[p][t].linked) => q = part[t]
               /\ (n # 0 /\ th[p][t].linked) => q.is = "file"
               /\ (n # 0 /\ th[p][t].linked /\ proc[p].op = "start" /\ th[p][t].base = 0)
                    => q.bytes = Overlaid(s, out, Bytes(n, "right"))
               /\ proc[p].op = "continue" => IsPrefix(s, q.bytes)
<1> DEFINE q == WrittenOut(p, t, n)
           s == part[t].bytes
           out == th[p][t].out
<1>1. /\ part[t] \in PartType /\ s \in Seq(Byte) /\ Len(s) \in Nat /\ out \in Nat
      /\ th[p][t].base \in Nat
      /\ th[p][t].linked \in BOOLEAN /\ proc[p].op \in {"start", "continue"}
  BY Components
<1>2. IsPrefix(s, s)
  <2> HIDE DEF s
  <2> QED BY <1>1, PrefixOf
<1>3. CASE n = 0 \/ ~th[p][t].linked
  <2>1. q = part[t]
    BY <1>3 DEF WrittenOut
  <2> QED BY <1>1, <1>2, <1>3, <2>1
<1>4. CASE n # 0 /\ th[p][t].linked /\ proc[p].op = "start"
  <2>1. q = Laid(p, t, n, out)
    BY <1>4 DEF WrittenOut
  <2>2. q \in PartType /\ q.is = "file"
    BY <1>1, <2>1, LaidIs
  <2>3. ASSUME th[p][t].base = 0 PROVE q.bytes = Overlaid(s, out, Bytes(n, "right"))
    <3>1. out = th[p][t].base + out
      BY <1>1, <2>3
    <3> QED BY <1>1, <2>1, <3>1, LaidIs
  <2> QED BY <1>4, <2>2, <2>3
<1>5. CASE n # 0 /\ th[p][t].linked /\ proc[p].op = "continue"
  <2>1. q = Laid(p, t, n, Len(s))
    BY <1>5 DEF WrittenOut
  <2>2. q \in PartType /\ q.is = "file" /\ IsPrefix(s, q.bytes)
    BY <1>1, <2>1, LaidIs
  <2> QED BY <1>5, <2>2
<1> QED BY <1>1, <1>3, <1>4, <1>5

(* One process changes, ...                                                  *)
LEMMA ProcSet ==
    ASSUME TypeOK, NEW p \in P, NEW v \in Process, proc' = [proc EXCEPT ![p] = v]
    PROVE  proc' \in [P -> Process] /\ proc'[p] = v /\ \A q \in P \ {p} : proc'[q] = proc[q]
BY DEF TypeOK

(* ... or one thread of it.                                                  *)
LEMMA ThreadSet ==
    ASSUME TypeOK, NEW p \in P, NEW t \in T, NEW v \in Thread, v.out <= v.got,
           th' = [th EXCEPT ![p][t] = v]
    PROVE  /\ th' \in [P -> [T -> Thread]] /\ th'[p][t] = v
           /\ \A q \in P, u \in T : (q # p \/ u # t) => th'[q][u] = th[q][u]
           /\ \A q \in P, u \in T : th'[q][u].out <= th'[q][u].got
<1>1. th \in [P -> [T -> Thread]] /\ \A q \in P, u \in T : th[q][u].out <= th[q][u].got
  BY DEF TypeOK
<1>2. /\ th' \in [P -> [T -> Thread]] /\ th'[p][t] = v
      /\ \A q \in P, u \in T : (q # p \/ u # t) => th'[q][u] = th[q][u]
  BY <1>1
<1> QED BY <1>1, <1>2

-------------------------------------------------------------------------------
(* What most steps leave as it is *)

(* No process comes or turns into another operation.                         *)
Keeps ==
    /\ runs' = runs
    /\ \A q \in P : /\ proc'[q].op = proc[q].op
                    /\ proc[q].pc = "dead" => proc'[q].pc = "dead"
                    /\ proc'[q].pc # "dead" => proc'[q].alone = proc[q].alone

(* If only fresh downloads were started, it was so a step before.            *)
LEMMA StartsStay == ASSUME Keeps, OnlyStarts' PROVE OnlyStarts
BY DEF Keeps, OnlyStarts

(* While the last process is a fresh one left alone, only it takes a step,   *)
(* so it is enough that this step goes on well.                              *)
LEMMA LoneStep ==
    ASSUME TypeOK, LoneInv, Keeps, NEW p \in P, Running(p),
           \A q \in P \ {p} : proc'[q].pc = proc[q].pc,
           (LastIsLone(p) /\ LoneGoes(p) /\ proc'[p].pc # "dead") => LoneGoes(p)'
    PROVE  LoneInv'
<1> SUFFICES ASSUME NEW r \in P, LastIsLone(r)'
             PROVE  (\A q \in P \ {r} : ~Running(q)') /\ LoneGoes(r)'
  BY DEF LoneInv
<1>1. /\ r = runs /\ FileSize >= Threads
      /\ proc'[r].op = "start" /\ proc'[r].alone /\ proc'[r].pc # "dead"
  BY DEF Keeps, LastIsLone, Lone
<1>2. LastIsLone(r)
  BY <1>1 DEF Keeps, LastIsLone, Lone
<1>3. (\A q \in P \ {r} : ~Running(q)) /\ LoneGoes(r)
  BY <1>2 DEF LoneInv
<1>4. p = r
  BY <1>3
<1>5. \A q \in P \ {r} : ~Running(q)'
  BY <1>3, <1>4 DEF Running
<1>6. LoneGoes(p)'
  BY <1>1, <1>2, <1>3, <1>4
<1> QED BY <1>4, <1>5, <1>6

(* A part stays as it has to be if it does not change and no thread that may *)
(* write to it goes away alive.                                              *)
LEMMA StartsPartKept ==
    ASSUME NEW t \in T, StartsPart(t), Keeps, part'[t] = part[t],
           \A q \in P : \/ th'[q][t] = th[q][t]
                        \/ AsksWhole(q, t)' /\ (th[q][t].pc # "recv" \/ proc'[q].pc = "dead")
    PROVE  StartsPart(t)'
<1>1. \A q \in P : AsksWhole(q, t)'
  BY DEF StartsPart, AsksWhole
<1>2. ASSUME NEW q \in P, Restores(q, t), ~Restores(q, t)' PROVE proc'[q].pc = "dead"
  BY <1>2 DEF Restores
<1>3. \A q \in P : proc[q].pc = "dead" => proc'[q].pc = "dead"
  BY DEF Keeps
<1> QED BY <1>1, <1>2, <1>3 DEF StartsPart

(* What is right about a part and its thread stays if neither changes.       *)
LEMMA LonePartKept ==
    ASSUME NEW p \in P, NEW t \in T, LonePart(p, t), part'[t] = part[t], th'[p][t] = th[p][t]
    PROVE  LonePart(p, t)'
BY DEF LonePart, AsksWhole

-------------------------------------------------------------------------------
(* A process dies *)

(* A process and a thread before they are started.                           *)
LEMMA NoProcessType ==
    /\ NoProcess \in Process /\ NoProcess.pc = "none" /\ NoProcess.op = "start"
    /\ NoProcess.idx = 0 /\ NoProcess.off = 0
BY ConstantsAssumption DEF NoProcess, Process

LEMMA NoThreadType ==
    /\ NoThread \in Thread /\ NoThread.pc = "none" /\ NoThread.out <= NoThread.got
    /\ NoThread.got = 0 /\ NoThread.out = 0 /\ NoThread.linked = TRUE
<1>1. /\ NoThread.pc = "none" /\ NoThread.got = 0 /\ NoThread.out = 0 /\ NoThread.linked = TRUE
      /\ NoThread \in Thread
  BY DEF NoThread, Thread
<1> QED BY <1>1

(* A thread that is created.                                                 *)
LEMMA NewThreadIs ==
    ASSUME NEW base \in Nat, NEW ask \in Int
    PROVE  LET new == NewThread(base, ask) IN
           /\ new \in Thread /\ new.pc = "asks" /\ new.base = base /\ new.ask = ask /\ new.got = 0
           /\ new.out = 0 /\ new.linked = TRUE
<1>1. NoThread \in Thread /\ NoThread.got = 0 /\ NoThread.out = 0 /\ NoThread.linked = TRUE
  BY NoThreadType
<1> QED BY <1>1 DEF NewThread, Thread

(* The threads of one process go.                                            *)
LEMMA ThreadsGone ==
    ASSUME TypeOK, NEW p \in P, th' = [th EXCEPT ![p] = [t \in T |-> NoThread]]
    PROVE  /\ th' \in [P -> [T -> Thread]]
           /\ \A t \in T : th'[p][t].pc = "none"
           /\ \A q \in P \ {p} : th'[q] = th[q]
           /\ \A q \in P, u \in T : th'[q][u].out <= th'[q][u].got
<1>1. th \in [P -> [T -> Thread]] /\ \A q \in P, u \in T : th[q][u].out <= th[q][u].got
  BY DEF TypeOK
<1> DEFINE no == [t \in T |-> NoThread]
<1>2. no \in [T -> Thread] /\ \A t \in T : no[t] = NoThread
  BY NoThreadType
<1>3. th' = [th EXCEPT ![p] = no]
  OBVIOUS
<1> HIDE DEF no
<1>4. th' \in [P -> [T -> Thread]] /\ th'[p] = no /\ \A q \in P \ {p} : th'[q] = th[q]
  BY <1>1, <1>2, <1>3
<1>5. ASSUME NEW q \in P, NEW u \in T PROVE th'[q][u].out <= th'[q][u].got
  <2>1. CASE q = p
    <3>1. th'[q][u] = NoThread
      BY <1>2, <1>4, <2>1
    <3> QED BY <3>1, NoThreadType
  <2>2. CASE q # p
    <3>1. th'[q][u] = th[q][u]
      BY <1>4, <2>2
    <3> QED BY <1>1, <3>1
  <2> QED BY <2>1, <2>2
<1>6. \A t \in T : th'[p][t].pc = "none"
  BY <1>2, <1>4, NoThreadType
<1> QED BY <1>4, <1>5, <1>6

(* Its threads are gone, and its parts may stay as they are.                 *)
LEMMA DieKeeps ==
    ASSUME IInv, NEW p \in P, Running(p), Die(p)
    PROVE  IInv'
<1>1. TypeOK /\ LifeInv /\ StartsInv /\ LoneInv
  BY DEF IInv
<1> DEFINE new == [NoProcess EXCEPT !.pc = "dead", !.op = proc[p].op]
<1>2. new \in Process /\ new.pc = "dead" /\ new.op = proc[p].op
  <2> DEFINE o == proc[p].op
  <2>1. o \in {"start", "continue"}
    BY <1>1 DEF TypeOK, Process
  <2> HIDE DEF o
  <2>2. new \in Process /\ new.pc = "dead" /\ new.op = o
    BY <2>1, NoProcessType DEF Process, o
  <2> QED BY <2>2 DEF o
<1>3. /\ proc' = [proc EXCEPT ![p] = new] /\ th' = [th EXCEPT ![p] = [t \in T |-> NoThread]]
      /\ part' = part /\ dir' = dir /\ target' = target /\ runs' = runs
  BY DEF Die
<1> HIDE DEF new
<1>4. proc' \in [P -> Process] /\ proc'[p] = new /\ \A q \in P \ {p} : proc'[q] = proc[q]
  BY <1>1, <1>2, <1>3, ProcSet
<1>5. /\ th' \in [P -> [T -> Thread]] /\ \A t \in T : th'[p][t].pc = "none"
      /\ \A q \in P \ {p} : th'[q] = th[q]
      /\ \A q \in P, u \in T : th'[q][u].out <= th'[q][u].got
  BY <1>1, <1>3, ThreadsGone
<1>6. Keeps
  BY <1>2, <1>3, <1>4 DEF Keeps
<1>7. TypeOK'
  BY <1>1, <1>3, <1>4, <1>5 DEF TypeOK
<1>8. LifeInv'
  <2>1. ASSUME NEW q \in P, q > runs' PROVE proc'[q].pc = "none" /\ proc'[q].op = "start"
    <3>1. proc[q].pc = "none" /\ proc[q].op = "start"
      BY <1>1, <1>3, <2>1 DEF LifeInv
    <3>2. q # p
      BY <3>1 DEF Running
    <3> QED BY <1>4, <3>1, <3>2
  <2>2. ASSUME NEW q \in P, NEW t \in T PROVE LifeOf(q, t)'
    <3>1. CASE q = p
      BY <1>5, <3>1 DEF LifeOf
    <3>2. CASE q # p
      BY <1>1, <1>3, <1>4, <1>5, <3>2 DEF LifeInv, LifeOf
    <3> QED BY <3>1, <3>2
  <2>3. \A t \in T : part'[t].is = "absent" => part'[t].bytes = <<>>
    BY <1>1, <1>3 DEF LifeInv
  <2> QED BY <2>1, <2>2, <2>3 DEF LifeInv
<1>9. StartsInv'
  <2> SUFFICES ASSUME OnlyStarts', NEW t \in T PROVE StartsPart(t)'
    BY DEF StartsInv
  <2>1. StartsPart(t)
    BY <1>1, <1>6, StartsStay DEF StartsInv
  <2>2. \A q \in P \ {p} : th'[q][t] = th[q][t]
    BY <1>5
  <2>3. AsksWhole(p, t)' /\ proc'[p].pc = "dead"
    BY <1>2, <1>4, <1>5 DEF AsksWhole
  <2>4. part'[t] = part[t]
    BY <1>3
  <2> QED BY <1>6, <2>1, <2>2, <2>3, <2>4, StartsPartKept
<1>10. LoneInv'
  <2>1. proc'[p].pc = "dead"
    BY <1>2, <1>4
  <2>2. \A q \in P \ {p} : proc'[q].pc = proc[q].pc
    BY <1>4
  <2> QED BY <1>1, <1>6, <2>1, <2>2, LoneStep
<1> QED BY <1>7, <1>8, <1>9, <1>10 DEF IInv

-------------------------------------------------------------------------------
(* The loop that creates the threads *)

(* A thread asks for a part as a whole.                                      *)
LEMMA CreateThreadKeeps ==
    ASSUME IInv, NEW p \in P, CreateThread(p)
    PROVE  IInv'
<1>1. TypeOK /\ LifeInv /\ StartsInv /\ LoneInv
  BY DEF IInv
<1> DEFINE t == proc[p].idx
           new == NewThread(0, Size(t))
           v == [proc[p] EXCEPT !.idx = t + 1]
<1>2. /\ proc[p].pc = "create" /\ proc[p].op = "start" /\ t < Threads
      /\ th' = [th EXCEPT ![p][t] = new] /\ proc' = [proc EXCEPT ![p] = v]
      /\ part' = part /\ dir' = dir /\ target' = target /\ runs' = runs
  <2>1. proc' = [proc EXCEPT ![p] = v]
    BY <1>1 DEF CreateThread, TypeOK, Process
  <2> QED BY <2>1 DEF CreateThread
<1>3. t \in T /\ t \in Nat /\ t + 1 \in 0 .. Threads /\ Size(t) \in Nat
  <2>1. t \in 0 .. Threads /\ t < Threads
    BY <1>1, <1>2 DEF TypeOK, Process
  <2> HIDE DEF t, new, v
  <2>2. t \in Nat /\ t + 1 \in 0 .. Threads
    BY <2>1, ConstantsAssumption
  <2> QED BY <2>1, <2>2, PartTypes
<1>4. /\ new \in Thread /\ new.pc = "asks" /\ new.base = 0 /\ new.ask = Size(t) /\ new.got = 0
      /\ new.out = 0 /\ new.linked = TRUE
  <2> DEFINE size == Size(t)
  <2>1. Size(t) \in Int
    BY <1>3
  <2> QED BY <1>3, <2>1, NewThreadIs
<1>5. /\ v \in Process /\ v.pc = "create" /\ v.op = proc[p].op /\ v.alone = proc[p].alone
      /\ v.idx = t + 1 /\ v.in = proc[p].in /\ v.off = proc[p].off
  <2>1. proc[p] \in Process
    BY <1>1 DEF TypeOK
  <2> QED BY <1>2, <1>3, <2>1 DEF Process
<1>6. th[p][t].pc = "none"
  BY <1>1, <1>3 DEF LifeInv, LifeOf
<1> HIDE DEF new, v
<1>7. proc' \in [P -> Process] /\ proc'[p] = v /\ \A q \in P \ {p} : proc'[q] = proc[q]
  BY <1>1, <1>2, <1>5, ProcSet
<1>8. /\ th' \in [P -> [T -> Thread]] /\ th'[p][t] = new
      /\ \A q \in P, u \in T : (q # p \/ u # t) => th'[q][u] = th[q][u]
      /\ \A q \in P, u \in T : th'[q][u].out <= th'[q][u].got
  <2>1. new.out <= new.got
    BY <1>4
  <2> HIDE DEF t
  <2> QED BY <1>1, <1>2, <1>3, <1>4, <2>1, ThreadSet
<1>9. Keeps
  BY <1>2, <1>5, <1>7 DEF Keeps
<1> HIDE DEF t
<1>10. TypeOK'
  BY <1>1, <1>2, <1>7, <1>8 DEF TypeOK
<1>11. LifeInv'
  <2>1. ASSUME NEW q \in P, q > runs' PROVE proc'[q].pc = "none" /\ proc'[q].op = "start"
    <3>1. proc[q].pc = "none" /\ proc[q].op = "start"
      BY <1>1, <1>2, <2>1 DEF LifeInv
    <3>2. q # p
      BY <1>2, <3>1
    <3> QED BY <1>7, <3>1, <3>2
  <2>2. ASSUME NEW q \in P, NEW u \in T PROVE LifeOf(q, u)'
    <3>1. CASE q = p /\ u = t
      BY <1>3, <1>4, <1>5, <1>7, <1>8, <3>1 DEF LifeOf
    <3>2. CASE ~(q = p /\ u = t)
      <4>1. th'[q][u] = th[q][u] /\ part' = part
        BY <1>2, <1>8, <3>2
      <4>2. LifeOf(q, u)
        BY <1>1 DEF LifeInv
      <4>3. CASE q = p
        <5>1. proc[q].idx = t /\ proc'[q].idx = t + 1 /\ proc'[q].pc = "create"
          BY <1>5, <1>7, <4>3 DEF t
        <5>2. u \in Nat
          BY PartTypes
        <5> QED BY <1>3, <4>1, <4>2, <5>1, <5>2 DEF LifeOf
      <4>4. CASE q # p
        BY <1>7, <4>1, <4>2, <4>4 DEF LifeOf
      <4> QED BY <4>3, <4>4
    <3> QED BY <3>1, <3>2
  <2>3. \A u \in T : part'[u].is = "absent" => part'[u].bytes = <<>>
    BY <1>1, <1>2 DEF LifeInv
  <2> QED BY <2>1, <2>2, <2>3 DEF LifeInv
<1>12. StartsInv'
  <2> SUFFICES ASSUME OnlyStarts', NEW u \in T PROVE StartsPart(u)'
    BY DEF StartsInv
  <2>1. StartsPart(u)
    BY <1>1, <1>9, StartsStay DEF StartsInv
  <2>2. ASSUME NEW q \in P PROVE th'[q][u] = th[q][u] \/ (AsksWhole(q, u)' /\ th[q][u].pc # "recv")
    <3>1. CASE q = p /\ u = t
      BY <1>3, <1>4, <1>6, <1>8, <3>1 DEF AsksWhole
    <3> QED BY <1>8, <3>1
  <2>3. part'[u] = part[u]
    BY <1>2
  <2> QED BY <1>9, <2>1, <2>2, <2>3, StartsPartKept
<1>13. LoneInv'
  <2> SUFFICES ASSUME LoneGoes(p) PROVE LoneGoes(p)'
    BY <1>1, <1>2, <1>7, <1>9, LoneStep DEF Running
  <2>1. LoneCreates(p)
    BY <1>2 DEF LoneGoes
  <2>2. ASSUME NEW u \in T, u < t + 1 PROVE LonePart(p, u)'
    <3>1. CASE u = t
      BY <1>3, <1>4, <1>8, <3>1 DEF LonePart, AsksWhole
    <3>2. CASE u # t
      <4>1. u < proc[p].idx
        BY <1>3, <2>2, <3>2, PartTypes DEF t
      <4>2. LonePart(p, u)
        BY <2>1, <4>1 DEF LoneCreates
      <4>3. th'[p][u] = th[p][u] /\ part'[u] = part[u]
        BY <1>2, <1>8, <3>2
      <4> QED BY <4>2, <4>3, LonePartKept
    <3> QED BY <3>1, <3>2
  <2>3. LoneCreates(p)'
    BY <1>2, <1>5, <1>7, <2>1, <2>2 DEF LoneCreates
  <2> QED BY <1>5, <1>7, <2>3 DEF LoneGoes
<1> QED BY <1>10, <1>11, <1>12, <1>13 DEF IInv

(* A thread asks for what is missing, of a file that is not asked for as a   *)
(* whole: there are not only fresh downloads.                                *)
LEMMA ContinuePartKeeps ==
    ASSUME IInv, NEW p \in P, ContinuePart(p)
    PROVE  IInv'
<1>1. TypeOK /\ LifeInv /\ StartsInv /\ LoneInv
  BY DEF IInv
<1> DEFINE t == proc[p].idx
           len == Len(part[t].bytes)
           ask == Size(t) - len
           new == NewThread(len, ask)
           v == [proc[p] EXCEPT !.idx = t + 1]
<1>2. /\ proc[p].pc = "create" /\ proc[p].op = "continue" /\ t < Threads
      /\ (th' = th \/ th' = [th EXCEPT ![p][t] = new])
      /\ proc' = [proc EXCEPT ![p] = v]
      /\ part' = part /\ dir' = dir /\ target' = target /\ runs' = runs
  <2>1. proc' = [proc EXCEPT ![p] = v]
    BY <1>1 DEF ContinuePart, TypeOK, Process
  <2>2. th' = th \/ th' = [th EXCEPT ![p][t] = new]
    BY DEF ContinuePart
  <2> QED BY <2>1, <2>2 DEF ContinuePart
<1>3. t \in T /\ t \in Nat /\ t + 1 \in 0 .. Threads
  <2>1. t \in 0 .. Threads /\ t < Threads
    BY <1>1, <1>2 DEF TypeOK, Process
  <2> HIDE DEF t, new, v
  <2>2. t \in Nat /\ t + 1 \in 0 .. Threads
    BY <2>1, ConstantsAssumption
  <2> QED BY <2>1, <2>2, PartTypes
<1>4. new \in Thread /\ new.pc = "asks" /\ new.got = 0 /\ new.out = 0 /\ new.linked = TRUE
  <2>1. len \in Nat /\ Size(t) \in Nat
    <3> HIDE DEF t
    <3>1. len \in Nat
      BY <1>1, <1>3, Components
    <3>2. Size(t) \in Nat
      BY <1>3, PartTypes
    <3> QED BY <3>1, <3>2
  <2>2. ask \in Int
    <3> HIDE DEF len, t
    <3> QED BY <2>1
  <2>3. /\ new \in Thread /\ new.pc = "asks" /\ new.base = len /\ new.ask = ask /\ new.got = 0
        /\ new.out = 0 /\ new.linked = TRUE
    <3> HIDE DEF t, len, ask
    <3> QED BY <2>1, <2>2, NewThreadIs
  <2> HIDE DEF new
  <2> QED BY <2>3
<1>5. /\ v \in Process /\ v.pc = "create" /\ v.op = proc[p].op /\ v.alone = proc[p].alone
      /\ v.idx = t + 1
  <2>1. proc[p] \in Process
    BY <1>1 DEF TypeOK
  <2> QED BY <1>2, <1>3, <2>1 DEF Process
<1> HIDE DEF new, v
<1>6. proc' \in [P -> Process] /\ proc'[p] = v /\ \A q \in P \ {p} : proc'[q] = proc[q]
  BY <1>1, <1>2, <1>5, ProcSet
<1>7. /\ th' \in [P -> [T -> Thread]]
      /\ (th'[p][t] = th[p][t] \/ th'[p][t] = new)
      /\ \A q \in P, u \in T : (q # p \/ u # t) => th'[q][u] = th[q][u]
      /\ \A q \in P, u \in T : th'[q][u].out <= th'[q][u].got
  <2>1. new.out <= new.got
    BY <1>4
  <2> HIDE DEF t
  <2>2. CASE th' = th
    BY <1>1, <2>2 DEF TypeOK
  <2>3. CASE th' = [th EXCEPT ![p][t] = new]
    <3>1. t \in T /\ new \in Thread
      BY <1>3, <1>4
    <3>2. /\ th' \in [P -> [T -> Thread]] /\ th'[p][t] = new
          /\ \A q \in P, u \in T : (q # p \/ u # t) => th'[q][u] = th[q][u]
          /\ \A q \in P, u \in T : th'[q][u].out <= th'[q][u].got
      BY <1>1, <2>1, <2>3, <3>1, ThreadSet
    <3> QED BY <3>2
  <2> QED BY <1>2, <2>2, <2>3
<1>8. Keeps
  BY <1>2, <1>5, <1>6 DEF Keeps
<1>9. TypeOK'
  BY <1>1, <1>2, <1>6, <1>7 DEF TypeOK
<1>10. LifeInv'
  <2>1. ASSUME NEW q \in P, q > runs' PROVE proc'[q].pc = "none" /\ proc'[q].op = "start"
    <3>1. proc[q].pc = "none" /\ proc[q].op = "start"
      BY <1>1, <1>2, <2>1 DEF LifeInv
    <3>2. q # p
      BY <1>2, <3>1
    <3> QED BY <1>6, <3>1, <3>2
  <2>2. ASSUME NEW q \in P, NEW u \in T PROVE LifeOf(q, u)'
    <3>1. LifeOf(q, u) /\ part'[u] = part[u]
      BY <1>1, <1>2 DEF LifeInv
    <3>2. CASE q = p
      <4>1. proc[q].idx = t /\ proc'[q].idx = t + 1 /\ proc'[q].pc = "create" /\ u \in Nat
        BY <1>5, <1>6, <3>2, PartTypes DEF t
      <4>2. CASE th'[q][u] = th[q][u]
        BY <1>3, <3>1, <4>1, <4>2 DEF LifeOf
      <4>3. CASE th'[q][u] # th[q][u]
        <5>1. u = t /\ th'[q][u] = new
          BY <1>7, <3>2, <4>3
        <5> QED BY <1>3, <1>4, <4>1, <5>1 DEF LifeOf
      <4> QED BY <4>2, <4>3
    <3>3. CASE q # p
      BY <1>6, <1>7, <3>1, <3>3 DEF LifeOf
    <3> QED BY <3>2, <3>3
  <2>3. \A u \in T : part'[u].is = "absent" => part'[u].bytes = <<>>
    BY <1>1, <1>2 DEF LifeInv
  <2> QED BY <2>1, <2>2, <2>3 DEF LifeInv
<1>11. StartsInv'
  BY <1>2, <1>8, StartsStay DEF StartsInv, OnlyStarts
<1>12. LoneInv'
  <2>1. ~LastIsLone(p)
    BY <1>2 DEF LastIsLone, Lone
  <2> QED BY <1>1, <1>2, <1>6, <1>8, <2>1, LoneStep DEF Running
<1> QED BY <1>9, <1>10, <1>11, <1>12 DEF IInv

-------------------------------------------------------------------------------
(* Threads *)

(* A thread that is there goes on and changes its part.  What is left to show*)
(* is that this is right for the part.                                       *)
LEMMA ThreadStepKeeps ==
    ASSUME IInv, NEW p \in P, NEW t \in T, NEW new \in Thread, NEW v \in PartType,
           th[p][t].pc # "none", new.pc \in {"recv", "done"}, new.out <= new.got,
           UNCHANGED <<proc, dir, target, runs>>,
           th' = [th EXCEPT ![p][t] = new], part' = [part EXCEPT ![t] = v],
           v.is = "absent" => v.bytes = <<>>,
           (part[t].is = "file" \/ (new.pc = "recv" /\ new.linked)) => v.is = "file",
           (OnlyStarts /\ StartsPart(t)) => StartsPart(t)',
           (proc[p].op = "start" /\ LonePart(p, t)) => LonePart(p, t)'
    PROVE  IInv'
<1>1. TypeOK /\ LifeInv /\ StartsInv /\ LoneInv
  BY DEF IInv
<1>2. /\ proc' = proc /\ dir' = dir /\ target' = target /\ runs' = runs
      /\ proc[p].pc = "create" /\ t < proc[p].idx
  BY <1>1 DEF LifeInv, LifeOf
<1>3. /\ th' \in [P -> [T -> Thread]] /\ th'[p][t] = new
      /\ \A q \in P, u \in T : (q # p \/ u # t) => th'[q][u] = th[q][u]
      /\ \A q \in P, u \in T : th'[q][u].out <= th'[q][u].got
  BY <1>1, ThreadSet
<1>4. part' \in [T -> PartType] /\ part'[t] = v /\ \A u \in T \ {t} : part'[u] = part[u]
  BY <1>1 DEF TypeOK, PartType
<1>5. Keeps
  BY <1>2 DEF Keeps
<1>6. TypeOK'
  BY <1>1, <1>2, <1>3, <1>4 DEF TypeOK, PartType
<1>7. LifeInv'
  <2>1. ASSUME NEW q \in P, NEW u \in T PROVE LifeOf(q, u)'
    <3>1. LifeOf(q, u)
      BY <1>1 DEF LifeInv
    <3>2. part[u].is = "file" => part'[u].is = "file"
      BY <1>4
    <3>3. CASE q = p /\ u = t
      BY <1>2, <1>3, <1>4, <3>3 DEF LifeOf
    <3>4. CASE ~(q = p /\ u = t)
      BY <1>2, <1>3, <3>1, <3>2, <3>4 DEF LifeOf
    <3> QED BY <3>3, <3>4
  <2>2. \A u \in T : part'[u].is = "absent" => part'[u].bytes = <<>>
    BY <1>1, <1>4 DEF LifeInv
  <2> QED BY <1>1, <1>2, <2>1, <2>2 DEF LifeInv
<1>8. StartsInv'
  <2> SUFFICES ASSUME OnlyStarts', NEW u \in T PROVE StartsPart(u)'
    BY DEF StartsInv
  <2>1. OnlyStarts /\ StartsPart(u)
    BY <1>1, <1>5, StartsStay DEF StartsInv
  <2>2. CASE u = t
    BY <2>1, <2>2
  <2>3. CASE u # t
    BY <1>3, <1>4, <1>5, <2>1, <2>3, StartsPartKept
  <2> QED BY <2>2, <2>3
<1>9. LoneInv'
  <2> SUFFICES ASSUME LastIsLone(p), LoneGoes(p) PROVE LoneGoes(p)'
    BY <1>1, <1>2, <1>5, LoneStep DEF Running
  <2>1. LoneCreates(p) /\ proc[p].op = "start"
    BY <1>2 DEF LoneGoes, LastIsLone, Lone
  <2>2. ASSUME NEW u \in T, u < proc[p].idx PROVE LonePart(p, u)'
    <3>1. LonePart(p, u)
      BY <2>1, <2>2 DEF LoneCreates
    <3>2. CASE u = t
      BY <2>1, <3>1, <3>2
    <3>3. CASE u # t
      BY <1>3, <1>4, <3>1, <3>3, LonePartKept
    <3> QED BY <3>2, <3>3
  <2>3. LoneCreates(p)'
    BY <1>2, <2>1, <2>2 DEF LoneCreates
  <2> QED BY <1>2, <2>3 DEF LoneGoes
<1> QED BY <1>6, <1>7, <1>8, <1>9 DEF IInv

(* A fresh download empties the part, and is to restore it.                  *)
LEMMA OpenKeeps ==
    ASSUME IInv, NEW p \in P, NEW t \in T, Open(p, t)
    PROVE  IInv'
<1>1. TypeOK /\ LifeInv
  BY DEF IInv
<1> DEFINE new == [th[p][t] EXCEPT !.pc = "recv"]
           v == Opened(p, t)
<1>2. /\ th[p][t].pc = "asks" /\ UNCHANGED <<proc, dir, target, runs>>
      /\ th' = [th EXCEPT ![p][t] = new] /\ part' = [part EXCEPT ![t] = v]
  <2>1. th' = [th EXCEPT ![p][t] = new]
    BY <1>1 DEF Open, TypeOK, Thread
  <2> QED BY <2>1 DEF Open
<1>3. th[p][t].got = 0 /\ th[p][t].out = 0 /\ th[p][t].linked
  BY <1>1, <1>2 DEF LifeInv, LifeOf
<1>4. /\ new \in Thread /\ new.pc = "recv" /\ new.base = th[p][t].base /\ new.ask = th[p][t].ask
      /\ new.got = 0 /\ new.out = 0 /\ new.linked
  <2>1. th[p][t] \in Thread
    BY <1>1 DEF TypeOK
  <2> QED BY <1>3, <2>1 DEF Thread
<1>5. v \in PartType /\ v.is = "file" /\ (proc[p].op = "start" => v.bytes = <<>>)
  <2>1. part[t] \in PartType /\ <<>> \in Seq(Byte)
    BY <1>1, EmptySeq DEF TypeOK, PartType
  <2> QED BY <2>1 DEF Opened, File, PartType
<1> HIDE DEF new, v
<1>6. th'[p][t] = new /\ part'[t] = v /\ \A q \in P \ {p} : th'[q][t] = th[q][t]
  <2>1. new.out <= new.got
    BY <1>4
  <2>2. new \in Thread /\ th' = [th EXCEPT ![p][t] = new]
    BY <1>2, <1>4
  <2>3. /\ th' \in [P -> [T -> Thread]] /\ th'[p][t] = new
        /\ \A q \in P, u \in T : (q # p \/ u # t) => th'[q][u] = th[q][u]
        /\ \A q \in P, u \in T : th'[q][u].out <= th'[q][u].got
    BY <1>1, <2>1, <2>2, ThreadSet
  <2>4. part'[t] = v
    BY <1>1, <1>2 DEF TypeOK
  <2> QED BY <2>3, <2>4
<1>7. Size(t) \in Nat /\ Len(<<>>) = 0 /\ Whole(<<>>, 0)
  BY PartTypes, EmptyWhole
<1>8. ASSUME OnlyStarts, StartsPart(t) PROVE StartsPart(t)'
  <2>1. part'[t].bytes = <<>>
    BY <1>5, <1>6, <1>8 DEF OnlyStarts
  <2>2. \A q \in P : AsksWhole(q, t)'
    BY <1>2, <1>4, <1>6, <1>7, <1>8 DEF StartsPart, AsksWhole
  <2>3. Restores(p, t)'
    BY <1>4, <1>6, <1>7, <2>1 DEF Restores
  <2>4. Len(part'[t].bytes) <= Size(t) /\ DOMAIN part'[t].bytes = {}
    BY <1>7, <2>1
  <2> QED BY <2>2, <2>3, <2>4 DEF StartsPart
<1>9. ASSUME proc[p].op = "start", LonePart(p, t) PROVE LonePart(p, t)'
  BY <1>2, <1>4, <1>5, <1>6, <1>7, <1>9 DEF LonePart, AsksWhole
<1>10. new.out <= new.got /\ th[p][t].pc # "none"
  BY <1>2, <1>4
<1> QED BY <1>2, <1>4, <1>5, <1>8, <1>9, <1>10, ThreadStepKeeps

(* What a thread of a fresh download writes out goes where it belongs, and   *)
(* what others wrote stays right.                                            *)
LEMMA WritesRight ==
    ASSUME TypeOK, NEW p \in P, NEW t \in T, NEW n \in Nat, proc[p].op = "start",
           th[p][t].base = 0, th[p][t].out + n <= Size(t)
    PROVE  LET q == WrittenOut(p, t, n)
               s == part[t].bytes
               out == th[p][t].out
           IN  /\ q.bytes \in Seq(Byte) /\ Len(s) <= Len(q.bytes)
               /\ Len(s) <= Size(t) => Len(q.bytes) <= Size(t)
               /\ \A i \in 1 .. Len(s) : s[i] = "right" => q.bytes[i] = "right"
               /\ (\A i \in 1 .. Len(s) : s[i] # "wrong")
                    => \A i \in 1 .. Len(q.bytes) : q.bytes[i] # "wrong"
               /\ (th[p][t].linked /\ out <= Len(s)) => out + n <= Len(q.bytes)
               /\ th[p][t].linked => \A i \in 1 .. Len(q.bytes) :
                                       out < i /\ i <= out + n => q.bytes[i] = "right"
               /\ (th[p][t].linked /\ Whole(s, out)) => Whole(q.bytes, out + n)
<1> DEFINE q == WrittenOut(p, t, n)
           s == part[t].bytes
           b == q.bytes
           out == th[p][t].out
           size == Size(t)
<1>1. /\ s \in Seq(Byte) /\ Len(s) \in Nat /\ out \in Nat /\ size \in Nat
      /\ th[p][t].linked \in BOOLEAN
  BY Components, PartTypes
<1>2. CASE n = 0 \/ ~th[p][t].linked
  <2>1. b = s
    BY <1>2, WrittenOutIs
  <2> HIDE DEF s, b, out, size
  <2>2. n = 0 => out + n = out
    BY <1>1
  <2>3. /\ b \in Seq(Byte) /\ Len(s) <= Len(b)
        /\ Len(s) <= size => Len(b) <= size
        /\ \A i \in 1 .. Len(s) : s[i] = "right" => b[i] = "right"
        /\ (\A i \in 1 .. Len(s) : s[i] # "wrong") => \A i \in 1 .. Len(b) : b[i] # "wrong"
    BY <1>1, <2>1
  <2>4. (th[p][t].linked /\ out <= Len(s)) => out + n <= Len(b)
    BY <1>2, <2>1, <2>2
  <2>5. th[p][t].linked => \A i \in 1 .. Len(b) : out < i /\ i <= out + n => b[i] = "right"
    BY <1>1, <1>2, <2>2
  <2>6. (th[p][t].linked /\ Whole(s, out)) => Whole(b, out + n)
    BY <1>2, <2>1, <2>2
  <2> QED BY <2>3, <2>4, <2>5, <2>6 DEF s, b, q, out, size
<1>3. CASE n # 0 /\ th[p][t].linked
  <2> DEFINE o == Overlaid(s, out, Bytes(n, "right"))
  <2>1. b = o
    BY <1>3, WrittenOutIs
  <2> HIDE DEF s, b, out, size
  <2>2. /\ o \in Seq(Byte)
        /\ Len(o) = IF Len(s) > out + n THEN Len(s) ELSE out + n
        /\ \A i \in 1 .. Len(s) : s[i] = "right" => o[i] = "right"
        /\ \A i \in 1 .. Len(o) : out < i /\ i <= out + n => o[i] = "right"
        /\ (\A i \in 1 .. Len(s) : s[i] # "wrong") => \A i \in 1 .. Len(o) : o[i] # "wrong"
    BY <1>1, RightOverlaid
  <2> HIDE DEF o
  <2>3. out + n <= size
    BY DEF out, size
  <2>4. /\ Len(s) <= Len(b) /\ out + n <= Len(b)
        /\ Len(s) <= size => Len(b) <= size
    BY <1>1, <2>1, <2>2, <2>3
  <2>5. ASSUME Whole(s, out) PROVE Whole(b, out + n)
    <3>1. Len(s) = out /\ \A i \in 1 .. out : s[i] = "right"
      BY <1>1, <2>5, WholeIs
    <3>2. Len(b) = out + n
      BY <1>1, <2>1, <2>2, <3>1
    <3>3. ASSUME NEW i \in 1 .. out + n PROVE b[i] = "right"
      <4>1. i <= out => i \in 1 .. Len(s)
        BY <1>1, <3>1
      <4>2. i \in 1 .. Len(b)
        BY <3>2
      <4> QED BY <1>1, <2>1, <2>2, <3>1, <4>1, <4>2
    <3>4. out + n \in Nat /\ b \in Seq(Byte)
      BY <1>1, <2>1, <2>2
    <3> QED BY <3>2, <3>3, <3>4, WholeIs
  <2> QED BY <2>1, <2>2, <2>4, <2>5 DEF s, b, q, out, size
<1> QED BY <1>1, <1>2, <1>3

(* So if only fresh downloads run, the part stays as it has to be if the     *)
(* thread itself still restores it, or is done with it.                      *)
LEMMA StartsPartWritten ==
    ASSUME TypeOK, LifeInv, OnlyStarts, NEW p \in P, NEW t \in T, NEW n \in Nat, StartsPart(t),
           th[p][t].pc = "recv", th[p][t].out + n <= Size(t),
           proc' = proc, part'[t] = WrittenOut(p, t, n),
           \A q \in P \ {p} : th'[q][t] = th[q][t], AsksWhole(p, t)',
           Restores(p, t) => (Restores(p, t)' \/ Whole(part'[t].bytes, Size(t)))
    PROVE  StartsPart(t)'
<1> DEFINE s == part[t].bytes
           b == part'[t].bytes
           size == Size(t)
<1>1. /\ s \in Seq(Byte) /\ Len(s) \in Nat /\ DOMAIN s = 1 .. Len(s) /\ size \in Nat
      /\ part[t].is \in {"absent", "file"} /\ th[p][t].linked \in BOOLEAN
  BY Components, PartTypes
<1>2. proc[p].op = "start" /\ th[p][t].base = 0
  BY DEF OnlyStarts, StartsPart, AsksWhole
<1>3. /\ b \in Seq(Byte) /\ Len(s) <= Len(b)
      /\ Len(s) <= size => Len(b) <= size
      /\ \A i \in 1 .. Len(s) : s[i] = "right" => b[i] = "right"
      /\ (\A i \in 1 .. Len(s) : s[i] # "wrong") => \A i \in 1 .. Len(b) : b[i] # "wrong"
  BY <1>2, WritesRight
<1>4. DOMAIN b = 1 .. Len(b) /\ Len(b) \in Nat
  BY <1>3, LenProperties
<1>5. /\ Len(s) <= size /\ \A i \in 1 .. Len(s) : s[i] # "wrong"
      /\ \A q \in P : AsksWhole(q, t)
      /\ part[t].is = "file" => \/ Whole(s, size)
                                \/ \E q \in P : proc[q].pc = "dead"
                                \/ \E q \in P : Restores(q, t)
  BY <1>1 DEF StartsPart
<1>6. \A q \in P : AsksWhole(q, t)'
  BY DEF StartsPart, AsksWhole
<1>7. CASE part[t].is = "file"
  <2>1. CASE Whole(s, size)
    <3>1. Len(s) = size /\ \A i \in 1 .. size : s[i] = "right"
      <4> HIDE DEF s, size
      <4> QED BY <1>1, <2>1, WholeIs
    <3>2. Whole(b, size)
      <4> HIDE DEF s, b, size
      <4>1. Len(b) = size
        BY <1>1, <1>3, <1>4, <3>1
      <4>2. \A i \in 1 .. size : b[i] = "right"
        BY <1>3, <3>1
      <4> QED BY <1>1, <1>3, <4>1, <4>2, WholeIs
    <3> QED BY <1>3, <1>4, <1>5, <1>6, <3>2 DEF StartsPart
  <2>2. CASE \E q \in P : proc[q].pc = "dead"
    BY <1>3, <1>4, <1>5, <1>6, <2>2 DEF StartsPart
  <2>3. CASE \E q \in P : Restores(q, t)
    <3>1. PICK q \in P : Restores(q, t)
      BY <2>3
    <3>2. CASE q = p
      BY <1>3, <1>4, <1>5, <1>6, <3>1, <3>2 DEF StartsPart
    <3>3. CASE q # p
      <4>1. /\ th'[q][t] = th[q][t] /\ th[q][t].pc = "recv" /\ th[q][t].linked
            /\ th[q][t].out <= Len(s) /\ \A i \in 1 .. th[q][t].out : s[i] = "right"
        BY <3>1, <3>3 DEF Restores
      <4>2. th[q][t].out \in Nat
        BY Components
      <4>3. th[q][t].out <= Len(b) /\ \A i \in 1 .. th[q][t].out : b[i] = "right"
        <5> HIDE DEF s, b
        <5> QED BY <1>1, <1>3, <1>4, <4>1, <4>2
      <4>4. Restores(q, t)'
        BY <4>1, <4>3 DEF Restores
      <4> QED BY <1>3, <1>4, <1>5, <1>6, <4>4 DEF StartsPart
    <3> QED BY <3>2, <3>3
  <2> QED BY <1>5, <1>7, <2>1, <2>2, <2>3
<1>8. CASE part[t].is # "file"
  <2>1. ~th[p][t].linked
    BY <1>8 DEF LifeInv, LifeOf
  <2>2. part'[t].is # "file"
    BY <1>8, <2>1, WrittenOutIs
  <2> QED BY <1>3, <1>4, <1>5, <1>6, <2>2 DEF StartsPart
<1> QED BY <1>7, <1>8

(* A thread receives, and writes out some of what it has received.           *)
LEMMA RecvKeeps ==
    ASSUME IInv, NEW p \in P, NEW t \in T, Recv(p, t)
    PROVE  IInv'
<1>1. TypeOK /\ LifeInv
  BY DEF IInv
<1> DEFINE w == th[p][t]
<1>2. PICK n \in 1 .. Block :
        /\ w.got + n <= w.ask
        /\ \E k \in 0 .. w.got + n - w.out :
             /\ part' = [part EXCEPT ![t] = WrittenOut(p, t, k)]
             /\ th' = [th EXCEPT ![p][t].got = @ + n, ![p][t].out = @ + k]
  BY DEF Recv
<1>3. PICK k \in 0 .. w.got + n - w.out :
        /\ part' = [part EXCEPT ![t] = WrittenOut(p, t, k)]
        /\ th' = [th EXCEPT ![p][t].got = @ + n, ![p][t].out = @ + k]
  BY <1>2
<1>4. w \in Thread /\ w.got \in Nat /\ w.out \in Nat /\ w.ask \in Int /\ w.linked \in BOOLEAN
  BY <1>1, Components
<1>5. w.pc = "recv" /\ w.got + n <= w.ask /\ UNCHANGED <<proc, dir, target, runs>>
  BY <1>2 DEF Recv
<1> DEFINE got == w.got + n
           out == w.out + k
           new == [w EXCEPT !.got = got, !.out = out]
           v == WrittenOut(p, t, k)
<1>6. n \in Nat /\ k \in Nat /\ got \in Nat /\ out \in Nat /\ out <= got
  <2> HIDE DEF w
  <2> QED BY <1>4, ConstantsAssumption
<1>7. th' = [th EXCEPT ![p][t] = new] /\ part' = [part EXCEPT ![t] = v]
  BY <1>1, <1>3 DEF TypeOK, Thread
<1>8. /\ new \in Thread /\ new.pc = "recv" /\ new.base = w.base /\ new.ask = w.ask
      /\ new.got = got /\ new.out = out /\ new.linked = w.linked
  <2> HIDE DEF w, got, out
  <2> QED BY <1>4, <1>5, <1>6 DEF Thread
<1>9. /\ v \in PartType
      /\ (k = 0 \/ ~w.linked) => v = part[t]
      /\ (k # 0 /\ w.linked) => v.is = "file"
  BY <1>1, <1>6, WrittenOutIs
<1>10. /\ v.is = "absent" => v.bytes = <<>>
       /\ (part[t].is = "file" \/ w.linked) => v.is = "file"
  BY <1>1, <1>4, <1>5, <1>9 DEF LifeInv, LifeOf
<1> HIDE DEF new, v
<1>11. th'[p][t] = new /\ part'[t] = v /\ \A q \in P \ {p} : th'[q][t] = th[q][t]
  <2>1. new.out <= new.got /\ new \in Thread
    BY <1>6, <1>8
  <2>2. /\ th' \in [P -> [T -> Thread]] /\ th'[p][t] = new
        /\ \A q \in P, u \in T : (q # p \/ u # t) => th'[q][u] = th[q][u]
        /\ \A q \in P, u \in T : th'[q][u].out <= th'[q][u].got
    BY <1>1, <1>7, <2>1, ThreadSet
  <2>3. part'[t] = v
    BY <1>1, <1>7 DEF TypeOK
  <2> QED BY <2>2, <2>3
<1>12. ASSUME AsksWhole(p, t)
       PROVE  AsksWhole(p, t)' /\ w.base = 0 /\ w.out + k <= Size(t)
  <2>1. w.base = 0 /\ w.ask = Size(t)
    BY <1>5, <1>12 DEF AsksWhole
  <2>2. got <= Size(t) /\ out <= Size(t)
    <3> HIDE DEF w
    <3> QED BY <1>5, <1>6, <2>1, PartTypes
  <2> QED BY <1>8, <1>11, <2>1, <2>2 DEF AsksWhole
<1>13. ASSUME OnlyStarts, StartsPart(t) PROVE StartsPart(t)'
  <2>1. AsksWhole(p, t)' /\ w.base = 0 /\ w.out + k <= Size(t)
    BY <1>12, <1>13 DEF StartsPart
  <2>2. ASSUME Restores(p, t) PROVE Restores(p, t)'
    <3>1. /\ w.linked /\ w.out <= Len(part[t].bytes)
          /\ \A i \in 1 .. w.out : part[t].bytes[i] = "right"
      BY <2>2 DEF Restores
    <3>2. /\ v.bytes \in Seq(Byte) /\ Len(part[t].bytes) <= Len(v.bytes)
          /\ \A i \in 1 .. Len(part[t].bytes) : part[t].bytes[i] = "right" => v.bytes[i] = "right"
          /\ (w.linked /\ w.out <= Len(part[t].bytes)) => w.out + k <= Len(v.bytes)
          /\ w.linked => \A i \in 1 .. Len(v.bytes) :
                           w.out < i /\ i <= w.out + k => v.bytes[i] = "right"
      <4>1. proc[p].op = "start"
        BY <1>13 DEF OnlyStarts
      <4> QED BY <1>1, <1>6, <2>1, <4>1, WritesRight DEF v
    <3>3. Len(part[t].bytes) \in Nat /\ Len(v.bytes) \in Nat
      BY <1>1, <3>2, Components, LenProperties
    <3> HIDE DEF w
    <3>4. ASSUME NEW i \in 1 .. out PROVE v.bytes[i] = "right"
      <4>1. i \in 1 .. Len(v.bytes)
        BY <1>4, <1>6, <3>1, <3>2, <3>3
      <4>2. CASE i <= w.out
        <5>1. i \in 1 .. w.out /\ i \in 1 .. Len(part[t].bytes)
          BY <1>4, <1>6, <3>1, <3>3, <4>2
        <5> QED BY <3>1, <3>2, <5>1
      <4>3. CASE w.out < i
        BY <1>4, <1>6, <3>1, <3>2, <4>1, <4>3
      <4> QED BY <1>4, <1>6, <4>2, <4>3
    <3>5. out <= Len(v.bytes)
      BY <3>1, <3>2
    <3> QED BY <1>8, <1>11, <3>1, <3>4, <3>5 DEF Restores
  <2> QED BY <1>1, <1>5, <1>6, <1>11, <1>13, <2>1, <2>2, StartsPartWritten DEF v
<1>14. ASSUME proc[p].op = "start", LonePart(p, t) PROVE LonePart(p, t)'
  <2>1. AsksWhole(p, t)' /\ w.base = 0 /\ w.out + k <= Size(t) /\ w.linked
        /\ Whole(part[t].bytes, w.out)
    BY <1>5, <1>12, <1>14 DEF LonePart
  <2>2. Whole(v.bytes, out)
    BY <1>1, <1>6, <1>14, <2>1, WritesRight DEF v
  <2> QED BY <1>8, <1>11, <2>1, <2>2 DEF LonePart
<1>15. new.out <= new.got /\ th[p][t].pc # "none"
  BY <1>5, <1>6, <1>8
<1> QED BY <1>5, <1>7, <1>8, <1>9, <1>10, <1>13, <1>14, <1>15, ThreadStepKeeps

(* A thread has received its part and writes out what is left.               *)
LEMMA FinishKeeps ==
    ASSUME IInv, NEW p \in P, NEW t \in T, Finish(p, t)
    PROVE  IInv'
<1>1. TypeOK /\ LifeInv
  BY DEF IInv
<1> DEFINE w == th[p][t]
           s == part[t].bytes
           n == w.got - w.out
           new == [NoThread EXCEPT !.pc = "done"]
           v == WrittenOut(p, t, n)
<1>2. /\ w.pc = "recv" /\ w.got >= w.ask /\ UNCHANGED <<proc, dir, target, runs>>
      /\ part' = [part EXCEPT ![t] = v] /\ th' = [th EXCEPT ![p][t] = new]
  BY DEF Finish
<1>3. /\ w \in Thread /\ w.got \in Nat /\ w.out \in Nat /\ w.ask \in Int /\ w.linked \in BOOLEAN
      /\ w.out <= w.got /\ s \in Seq(Byte) /\ Len(s) \in Nat
  BY <1>1, Components
<1>4. n \in Nat /\ w.out + n = w.got
  <2> HIDE DEF w
  <2> QED BY <1>3
<1>5. new \in Thread /\ new.pc = "done" /\ new.out <= new.got
  <2>1. /\ NoThread \in Thread /\ NoThread.got = 0 /\ NoThread.out = 0
    BY NoThreadType
  <2>2. new \in Thread /\ new.pc = "done" /\ new.out = 0 /\ new.got = 0
    BY <2>1 DEF Thread
  <2> QED BY <2>2
<1>6. /\ v \in PartType
      /\ (n = 0 \/ ~w.linked) => v = part[t]
      /\ (n # 0 /\ w.linked) => v.is = "file"
  <2> HIDE DEF n
  <2> QED BY <1>1, <1>4, WrittenOutIs
<1>7. /\ v.is = "absent" => v.bytes = <<>>
      /\ (part[t].is = "file" \/ w.linked) => v.is = "file"
  <2>1. /\ part[t].is = "absent" => part[t].bytes = <<>>
        /\ w.linked => part[t].is = "file"
    BY <1>1, <1>2 DEF LifeInv, LifeOf
  <2> HIDE DEF v, n
  <2> QED BY <1>3, <1>6, <2>1
<1> HIDE DEF new, v, n
<1>8. th'[p][t] = new /\ part'[t] = v /\ \A q \in P \ {p} : th'[q][t] = th[q][t]
  <2>1. new.out <= new.got /\ new \in Thread
    BY <1>5
  <2>2. /\ th' \in [P -> [T -> Thread]] /\ th'[p][t] = new
        /\ \A q \in P, u \in T : (q # p \/ u # t) => th'[q][u] = th[q][u]
        /\ \A q \in P, u \in T : th'[q][u].out <= th'[q][u].got
    BY <1>1, <1>2, <2>1, ThreadSet
  <2>3. part'[t] = v
    BY <1>1, <1>2 DEF TypeOK
  <2> QED BY <2>2, <2>3
<1>9. AsksWhole(p, t)'
  BY <1>5, <1>8 DEF AsksWhole
<1>10. ASSUME proc[p].op = "start", AsksWhole(p, t)
       PROVE  /\ w.out + n = Size(t)
              /\ v.bytes \in Seq(Byte) /\ Len(s) <= Len(v.bytes)
              /\ Len(s) <= Size(t) => Len(v.bytes) <= Size(t)
              /\ \A i \in 1 .. Len(s) : s[i] = "right" => v.bytes[i] = "right"
              /\ (w.linked /\ w.out <= Len(s)) => w.out + n <= Len(v.bytes)
              /\ w.linked => \A i \in 1 .. Len(v.bytes) :
                               w.out < i /\ i <= w.out + n => v.bytes[i] = "right"
              /\ (w.linked /\ Whole(s, w.out)) => Whole(v.bytes, w.out + n)
  <2>1. w.base = 0 /\ w.ask = Size(t) /\ w.got <= Size(t)
    BY <1>2, <1>10 DEF AsksWhole
  <2>2. w.out + n = Size(t) /\ w.out + n <= Size(t)
    <3> HIDE DEF w
    <3> QED BY <1>2, <1>3, <1>4, <2>1, PartTypes
  <2> QED BY <1>1, <1>4, <1>10, <2>1, <2>2, WritesRight DEF v
<1>11. ASSUME OnlyStarts, StartsPart(t) PROVE StartsPart(t)'
  <2>1. proc[p].op = "start" /\ AsksWhole(p, t) /\ Len(s) <= Size(t)
    BY <1>11 DEF OnlyStarts, StartsPart
  <2>2. ASSUME Restores(p, t) PROVE Whole(v.bytes, Size(t))
    <3>1. w.linked /\ w.out <= Len(s) /\ \A i \in 1 .. w.out : s[i] = "right"
      BY <2>2 DEF Restores
    <3>2. v.bytes \in Seq(Byte) /\ Len(v.bytes) \in Nat /\ Size(t) \in Nat
      BY <1>10, <2>1, LenProperties, PartTypes
    <3>3. Len(v.bytes) = Size(t)
      <4> HIDE DEF w, s
      <4> QED BY <1>10, <2>1, <3>1, <3>2
    <3>4. ASSUME NEW i \in 1 .. Size(t) PROVE v.bytes[i] = "right"
      <4> HIDE DEF w, s
      <4>1. i \in 1 .. Len(v.bytes) /\ i <= w.out + n
        BY <1>10, <2>1, <3>2, <3>3
      <4>2. CASE i <= w.out
        <5>1. i \in 1 .. w.out /\ i \in 1 .. Len(s)
          BY <1>3, <3>1, <3>2, <4>2
        <5> QED BY <1>10, <2>1, <3>1, <5>1
      <4>3. CASE w.out < i
        BY <1>10, <2>1, <3>1, <4>1, <4>3
      <4> QED BY <1>3, <3>2, <4>2, <4>3
    <3> QED BY <3>2, <3>3, <3>4, WholeIs
  <2>3. w.out + n <= Size(t)
    BY <1>10, <2>1, PartTypes
  <2>4. part'[t] = WrittenOut(p, t, n) /\ proc' = proc
    BY <1>2, <1>8 DEF v
  <2>5. Restores(p, t) => Whole(part'[t].bytes, Size(t))
    BY <1>8, <2>2
  <2> QED BY <1>1, <1>2, <1>4, <1>8, <1>9, <1>11, <2>3, <2>4, <2>5, StartsPartWritten
<1>12. ASSUME proc[p].op = "start", LonePart(p, t) PROVE LonePart(p, t)'
  <2>1. w.linked /\ Whole(s, w.out) /\ AsksWhole(p, t)
    BY <1>2, <1>12 DEF LonePart
  <2>2. Whole(v.bytes, Size(t))
    BY <1>10, <1>12, <2>1
  <2>3. v.is = "file"
    BY <1>7, <2>1
  <2> QED BY <1>5, <1>8, <1>9, <2>2, <2>3 DEF LonePart
<1>13. th[p][t].pc # "none" /\ new.pc \in {"recv", "done"}
       /\ ((part[t].is = "file" \/ (new.pc = "recv" /\ new.linked)) => v.is = "file")
  BY <1>2, <1>5, <1>7
<1> QED BY <1>2, <1>5, <1>6, <1>7, <1>11, <1>12, <1>13, ThreadStepKeeps

-------------------------------------------------------------------------------
(* file_merge *)

(* A main thread without threads goes on, and leaves the parts alone.        *)
LEMMA MainStepKeeps ==
    ASSUME IInv, NEW p \in P, NEW v \in Process, Running(p), v.pc # "dead",
           v.op = proc[p].op, v.alone = proc[p].alone, proc' = [proc EXCEPT ![p] = v],
           UNCHANGED <<part, dir, runs>>, target' \in Seq(Byte),
           th' \in [P -> [T -> Thread]], \A q \in P, t \in T : th'[q][t].out <= th'[q][t].got,
           \A q \in P \ {p} : th'[q] = th[q],
           \A t \in T : th'[p][t].pc = "none" /\ th[p][t].pc # "recv",
           (LastIsLone(p) /\ LoneGoes(p)) => LoneGoes(p)'
    PROVE  IInv'
<1>1. TypeOK /\ LifeInv /\ StartsInv /\ LoneInv
  BY DEF IInv
<1>2. part' = part /\ dir' = dir /\ runs' = runs
  OBVIOUS
<1>3. proc' \in [P -> Process] /\ proc'[p] = v /\ \A q \in P \ {p} : proc'[q] = proc[q]
  BY <1>1, ProcSet
<1>4. Keeps
  BY <1>2, <1>3 DEF Keeps, Running
<1>5. TypeOK'
  BY <1>1, <1>2, <1>3 DEF TypeOK
<1>6. LifeInv'
  <2>1. ASSUME NEW q \in P, q > runs' PROVE proc'[q].pc = "none" /\ proc'[q].op = "start"
    <3>1. proc[q].pc = "none" /\ proc[q].op = "start"
      BY <1>1, <1>2, <2>1 DEF LifeInv
    <3>2. q # p
      BY <3>1 DEF Running
    <3> QED BY <1>3, <3>1, <3>2
  <2>2. ASSUME NEW q \in P, NEW u \in T PROVE LifeOf(q, u)'
    <3>1. LifeOf(q, u)
      BY <1>1 DEF LifeInv
    <3>2. CASE q = p
      BY <3>2 DEF LifeOf
    <3>3. CASE q # p
      BY <1>2, <1>3, <3>1, <3>3 DEF LifeOf
    <3> QED BY <3>2, <3>3
  <2>3. \A u \in T : part'[u].is = "absent" => part'[u].bytes = <<>>
    BY <1>1, <1>2 DEF LifeInv
  <2> QED BY <2>1, <2>2, <2>3 DEF LifeInv
<1>7. StartsInv'
  <2> SUFFICES ASSUME OnlyStarts', NEW u \in T PROVE StartsPart(u)'
    BY DEF StartsInv
  <2>1. StartsPart(u) /\ part'[u] = part[u]
    BY <1>1, <1>2, <1>4, StartsStay DEF StartsInv
  <2>2. AsksWhole(p, u)' /\ th[p][u].pc # "recv" /\ \A q \in P \ {p} : th'[q][u] = th[q][u]
    BY DEF AsksWhole
  <2> QED BY <1>4, <2>1, <2>2, StartsPartKept
<1>8. LoneInv'
  BY <1>1, <1>3, <1>4, LoneStep
<1> QED BY <1>5, <1>6, <1>7, <1>8 DEF IInv

(* While a main thread is not in its loop it has no threads.                 *)
LEMMA NoThreads ==
    ASSUME TypeOK, LifeInv, NEW p \in P, proc[p].pc # "create", th' = th
    PROVE  /\ th' \in [P -> [T -> Thread]]
           /\ \A q \in P, t \in T : th'[q][t].out <= th'[q][t].got
           /\ \A q \in P \ {p} : th'[q] = th[q]
           /\ \A t \in T : th'[p][t].pc = "none" /\ th[p][t].pc # "recv"
BY DEF TypeOK, LifeInv, LifeOf

(* All parts asked for are done when the threads are joined.                 *)
LEMMA JoinKeeps ==
    ASSUME IInv, NEW p \in P, Join(p)
    PROVE  IInv'
<1>1. TypeOK
  BY DEF IInv
<1> DEFINE v == [proc[p] EXCEPT !.pc = "merge", !.idx = 0, !.in = dir]
<1>2. /\ proc[p].pc = "create" /\ proc[p].idx = Threads
      /\ \A t \in T : th[p][t].pc \in {"none", "done"}
      /\ proc' = [proc EXCEPT ![p] = v] /\ th' = [th EXCEPT ![p] = [t \in T |-> NoThread]]
      /\ target' = <<>> /\ UNCHANGED <<part, dir, runs>>
  <2>1. proc' = [proc EXCEPT ![p] = v]
    BY <1>1 DEF Join, TypeOK, Process
  <2> QED BY <2>1 DEF Join
<1>3. /\ v \in Process /\ v.pc = "merge" /\ v.op = proc[p].op /\ v.alone = proc[p].alone
      /\ v.idx = 0 /\ v.off = proc[p].off /\ v.in = dir
  <2>1. proc[p] \in Process /\ dir \in BOOLEAN
    BY <1>1 DEF TypeOK
  <2>2. 0 \in 0 .. Threads
    BY ConstantsAssumption
  <2> QED BY <2>1, <2>2 DEF Process
<1> HIDE DEF v
<1>4. proc' \in [P -> Process] /\ proc'[p] = v
  BY <1>1, <1>2, <1>3, ProcSet
<1>5. /\ th' \in [P -> [T -> Thread]] /\ \A t \in T : th'[p][t].pc = "none"
      /\ \A q \in P \ {p} : th'[q] = th[q]
      /\ \A q \in P, u \in T : th'[q][u].out <= th'[q][u].got
  BY <1>1, <1>2, ThreadsGone
<1>6. target' \in Seq(Byte) /\ Whole(target', 0)
  BY <1>2, EmptyWhole
<1>7. ASSUME LoneGoes(p) PROVE LoneGoes(p)'
  <2>1. LoneCreates(p)
    BY <1>2, <1>7 DEF LoneGoes
  <2>2. ASSUME NEW t \in T PROVE part'[t].is = "file" /\ Whole(part'[t].bytes, Size(t))
    <3>1. LonePart(p, t)
      BY <1>2, <2>1, PartTypes DEF LoneCreates
    <3> QED BY <1>2, <3>1 DEF LonePart
  <2>3. Offset(0) = 0
    <3>1. 0 < Threads /\ FileSize \div Threads \in Nat
      BY ConstantsAssumption, DivBounds
    <3>2. Start(0) = 0
      <4> DEFINE d == FileSize \div Threads
      <4>1. Start(0) = d * 0
        BY DEF Start, PartStart
      <4> HIDE DEF d
      <4> QED BY <3>1, <4>1 DEF d
    <3> QED BY <3>1, <3>2 DEF Offset
  <2>4. proc'[p].in /\ proc'[p].off = 0 /\ proc'[p].idx = 0
    BY <1>3, <1>4, <2>1 DEF LoneCreates
  <2>5. LoneMerges(p)'
    BY <1>6, <2>2, <2>3, <2>4 DEF LoneMerges
  <2> QED BY <1>3, <1>4, <2>5 DEF LoneGoes
<1>8. Running(p) /\ \A t \in T : th'[p][t].pc = "none" /\ th[p][t].pc # "recv"
  BY <1>2, <1>5 DEF Running
<1>9. v.pc # "dead"
  BY <1>3
<1> QED BY <1>2, <1>3, <1>5, <1>6, <1>7, <1>8, <1>9, MainStepKeeps

(* A whole part of a file with a byte for each thread is not empty.          *)
LEMMA MergeEmptyKeeps ==
    ASSUME IInv, NEW p \in P, MergeEmpty(p)
    PROVE  IInv'
<1>1. TypeOK /\ LifeInv
  BY DEF IInv
<1> DEFINE v == [proc[p] EXCEPT !.pc = "remove"]
           t == proc[p].idx
<1>2. /\ proc[p].pc = "merge" /\ t < Threads /\ part[t].bytes = <<>>
      /\ proc' = [proc EXCEPT ![p] = v] /\ UNCHANGED <<th, part, dir, target, runs>>
  <2>1. proc' = [proc EXCEPT ![p] = v]
    BY <1>1 DEF MergeEmpty, TypeOK, Process
  <2> QED BY <2>1 DEF MergeEmpty
<1>3. v \in Process /\ v.pc = "remove" /\ v.op = proc[p].op /\ v.alone = proc[p].alone
  <2>1. proc[p] \in Process
    BY <1>1 DEF TypeOK
  <2> QED BY <2>1 DEF Process
<1> HIDE DEF v
<1>4. ASSUME LastIsLone(p), LoneGoes(p) PROVE FALSE
  <2>1. t \in T
    <3>1. t \in 0 .. Threads
      BY <1>1 DEF TypeOK, Process
    <3> QED BY <1>2, <3>1, PartTypes
  <2>2. Whole(part[t].bytes, Size(t)) /\ FileSize >= Threads
    BY <1>2, <1>4, <2>1 DEF LoneGoes, LoneMerges, LastIsLone
  <2>3. Len(<<>>) = Size(t)
    <3> HIDE DEF t
    <3> QED BY <1>2, <2>1, <2>2, EmptyWhole, WholeIs, PartTypes
  <2>4. Size(t) > 0
    <3> HIDE DEF t
    <3> QED BY <2>1, <2>2, ConstantsAssumption, PartNonEmpty DEF T, Size
  <2> QED BY <2>3, <2>4, EmptyWhole
<1>5. Running(p) /\ v.pc # "dead" /\ target' \in Seq(Byte)
  BY <1>1, <1>2, <1>3 DEF Running, TypeOK
<1>6. /\ th' \in [P -> [T -> Thread]]
      /\ \A q \in P, u \in T : th'[q][u].out <= th'[q][u].got
      /\ \A q \in P \ {p} : th'[q] = th[q]
      /\ \A u \in T : th'[p][u].pc = "none" /\ th[p][u].pc # "recv"
  <2>1. proc[p].pc # "create" /\ th' = th
    BY <1>2
  <2> QED BY <1>1, <2>1, NoThreads
<1> QED BY <1>2, <1>3, <1>4, <1>5, <1>6, MainStepKeeps

(* After the last part the target is whole.                                  *)
LEMMA MergeEndKeeps ==
    ASSUME IInv, NEW p \in P, MergeEnd(p)
    PROVE  IInv'
<1>1. TypeOK /\ LifeInv
  BY DEF IInv
<1> DEFINE v == [proc[p] EXCEPT !.pc = "done", !.in = FALSE, !.idx = 0, !.off = 0]
<1>2. /\ proc[p].pc = "merge" /\ proc[p].idx = Threads
      /\ proc' = [proc EXCEPT ![p] = v] /\ UNCHANGED <<th, part, dir, target, runs>>
  <2>1. proc' = [proc EXCEPT ![p] = v]
    BY <1>1 DEF MergeEnd, TypeOK, Process
  <2> QED BY <2>1 DEF MergeEnd
<1>3. v \in Process /\ v.pc = "done" /\ v.op = proc[p].op /\ v.alone = proc[p].alone
  <2>1. proc[p] \in Process /\ 0 \in 0 .. Threads
    BY <1>1, ConstantsAssumption DEF TypeOK
  <2> QED BY <2>1 DEF Process
<1> HIDE DEF v
<1>4. ASSUME LoneGoes(p) PROVE LoneGoes(p)'
  <2>1. proc[p].off = FileSize /\ Whole(target, proc[p].off)
    BY <1>2, <1>4, ConstantsAssumption DEF LoneGoes, LoneMerges, Offset
  <2>2. proc'[p] = v /\ target' = target
    BY <1>1, <1>2, <1>3, ProcSet
  <2> QED BY <1>3, <2>1, <2>2 DEF LoneGoes
<1>5. Running(p) /\ v.pc # "dead" /\ target' \in Seq(Byte)
  BY <1>1, <1>2, <1>3 DEF Running, TypeOK
<1>6. /\ th' \in [P -> [T -> Thread]]
      /\ \A q \in P, u \in T : th'[q][u].out <= th'[q][u].got
      /\ \A q \in P \ {p} : th'[q] = th[q]
      /\ \A u \in T : th'[p][u].pc = "none" /\ th[p][u].pc # "recv"
  <2>1. proc[p].pc # "create" /\ th' = th
    BY <1>2
  <2> QED BY <1>1, <2>1, NoThreads
<1> QED BY <1>2, <1>3, <1>4, <1>5, <1>6, MainStepKeeps

(* The parts are whole, so each one ends where the next begins.              *)
LEMMA MergePartKeeps ==
    ASSUME IInv, NEW p \in P, MergePart(p)
    PROVE  IInv'
<1>1. TypeOK /\ LifeInv
  BY DEF IInv
<1> DEFINE t == proc[p].idx
           s == part[t].bytes
           off == proc[p].off
           end == off + Len(s)
           m == Merged(s, off = Start(t))
           v == [proc[p] EXCEPT !.idx = t + 1, !.off = end]
<1>2. /\ proc[p].pc = "merge" /\ t < Threads
      /\ proc' = [proc EXCEPT ![p] = v] /\ target' = Overlaid(target, off, m)
      /\ UNCHANGED <<th, part, dir, runs>>
  <2>1. proc' = [proc EXCEPT ![p] = v]
    BY <1>1 DEF MergePart, TypeOK, Process
  <2> QED BY <2>1 DEF MergePart
<1>3. t \in T /\ t \in Nat /\ t + 1 \in 0 .. Threads
  <2>1. t \in 0 .. Threads
    BY <1>1 DEF TypeOK, Process
  <2> QED BY <1>2, <2>1, PartTypes, ConstantsAssumption
<1>4. /\ s \in Seq(Byte) /\ Len(s) \in Nat /\ DOMAIN s = 1 .. Len(s) /\ off \in Nat
      /\ target \in Seq(Byte) /\ Size(t) \in Nat /\ Start(t) \in Nat
  <2> HIDE DEF t
  <2> QED BY <1>1, <1>3, Components, PartTypes DEF TypeOK
<1>5. end \in Nat
  <2> HIDE DEF s, off
  <2> QED BY <1>4
<1>6. /\ v \in Process /\ v.pc = "merge" /\ v.op = proc[p].op /\ v.alone = proc[p].alone
      /\ v.idx = t + 1 /\ v.off = end /\ v.in = proc[p].in
  <2>1. proc[p] \in Process
    BY <1>1 DEF TypeOK
  <2> HIDE DEF end
  <2> QED BY <1>2, <1>3, <1>5, <2>1 DEF Process
<1>7. m \in Seq(Byte)
  <2> DEFINE right == off = Start(t)
             at(i) == IF s[i] = "hole" \/ right THEN s[i] ELSE "wrong"
             f == [i \in 1 .. Len(s) |-> at(i)]
  <2>1. m = f
    BY <1>4 DEF Merged
  <2>2. \A i \in 1 .. Len(s) : s[i] \in Byte
    <3> HIDE DEF s
    <3> QED BY <1>4, ElementOfSeq
  <2>3. \A i \in 1 .. Len(s) : at(i) \in Byte
    BY <2>2 DEF Byte
  <2>4. f \in [1 .. Len(s) -> Byte]
    BY <2>3
  <2> HIDE DEF f, m, s
  <2> QED BY <1>4, <2>1, <2>4, FunctionIsSeq
<1>8. target' \in Seq(Byte)
  <2> HIDE DEF m, off, s, t
  <2> QED BY <1>2, <1>4, <1>7, OverlaidIs
<1>9. ASSUME LoneGoes(p) PROVE LoneGoes(p)'
  <2>1. LoneMerges(p)
    BY <1>2, <1>9 DEF LoneGoes
  <2>2. /\ off = Start(t) /\ Whole(target, off) /\ Whole(s, Size(t)) /\ proc[p].in
        /\ \A u \in T : part[u].is = "file" /\ Whole(part[u].bytes, Size(u))
    BY <1>2, <1>3, <2>1 DEF LoneMerges, Offset
  <2>3. s = Bytes(Size(t), "right") /\ Len(s) = Size(t)
    <3>1. s = Bytes(Size(t), "right")
      BY <2>2 DEF Whole
    <3> HIDE DEF s, t
    <3> QED BY <1>4, <2>2, <3>1, WholeIs
  <2>4. m = s
    <3>1. m = [i \in 1 .. Len(s) |-> s[i]]
      BY <1>4, <2>2 DEF Merged
    <3>2. s = [i \in 1 .. Size(t) |-> "right"]
      BY <2>3 DEF Bytes
    <3> HIDE DEF s, m, t
    <3> QED BY <2>3, <3>1, <3>2
  <2> DEFINE n == Size(t)
             o == Overlaid(target, off, Bytes(n, "right"))
  <2>5. target' = o
    BY <1>2, <2>3, <2>4
  <2>6. n \in Nat /\ end = off + n
    BY <1>4, <2>3
  <2>7. Len(target) = off /\ \A i \in 1 .. off : target[i] = "right"
    <3> HIDE DEF off
    <3> QED BY <1>4, <2>2, WholeIs
  <2> HIDE DEF n, off, s, m, end
  <2>8. /\ o \in Seq(Byte)
        /\ Len(o) = IF Len(target) > off + n THEN Len(target) ELSE off + n
        /\ \A i \in 1 .. Len(target) : target[i] = "right" => o[i] = "right"
        /\ \A i \in 1 .. Len(o) : off < i /\ i <= off + n => o[i] = "right"
    BY <1>4, <2>6, RightOverlaid
  <2> HIDE DEF o
  <2>9. Whole(o, end)
    <3>1. Len(o) = end
      BY <1>4, <2>6, <2>7, <2>8
    <3>2. ASSUME NEW i \in 1 .. end PROVE o[i] = "right"
      <4>1. i <= off => i \in 1 .. Len(target)
        BY <1>4, <2>7
      <4>2. i \in 1 .. Len(o)
        BY <3>1
      <4> QED BY <1>4, <2>6, <2>7, <2>8, <4>1, <4>2
    <3> QED BY <1>5, <2>8, <3>1, <3>2, WholeIs
  <2>10. end = Offset(t + 1)
    <3>1. Start(t) + Size(t) = IF t + 1 < Threads THEN PartStart(FileSize, Threads, t + 1) ELSE FileSize
      <4>1. t \in Parts(Threads)
        BY <1>3 DEF T
      <4> HIDE DEF t
      <4> QED BY <4>1, ConstantsAssumption, PartEnds DEF Start, Size
    <3>2. end = Start(t) + Size(t)
      BY <2>2, <2>6 DEF n
    <3> QED BY <3>1, <3>2 DEF Offset, Start
  <2>11. proc'[p] = v
    BY <1>1, <1>2, <1>6, ProcSet
  <2>12. LoneMerges(p)'
    BY <1>2, <1>6, <2>2, <2>5, <2>9, <2>10, <2>11 DEF LoneMerges
  <2> QED BY <1>6, <2>11, <2>12 DEF LoneGoes
<1>10. Running(p) /\ v.pc # "dead"
  BY <1>2, <1>6 DEF Running
<1>11. /\ th' \in [P -> [T -> Thread]]
       /\ \A q \in P, u \in T : th'[q][u].out <= th'[q][u].got
       /\ \A q \in P \ {p} : th'[q] = th[q]
       /\ \A u \in T : th'[p][u].pc = "none" /\ th[p][u].pc # "recv"
  <2>1. proc[p].pc # "create" /\ th' = th
    BY <1>2
  <2> QED BY <1>1, <2>1, NoThreads
<1> HIDE DEF v, m, t, s, off, end
<1> QED BY <1>2, <1>6, <1>8, <1>9, <1>10, <1>11, MainStepKeeps

(* No fresh download that was left alone removes the directory.              *)
LEMMA RemoveDirKeeps ==
    ASSUME IInv, NEW p \in P, RemoveDir(p)
    PROVE  IInv'
<1>1. TypeOK /\ LifeInv /\ StartsInv /\ LoneInv
  BY DEF IInv
<1>2. /\ proc[p].pc = "remove" /\ dir' = FALSE /\ part' = [t \in T |-> Absent]
      /\ target' = target /\ runs' = runs
  BY DEF RemoveDir
<1>3. /\ proc'[p] \in Process /\ proc'[p].pc = "done" /\ proc'[p].op = proc[p].op
      /\ proc'[p].alone = proc[p].alone
  <2>1. proc[p] \in Process /\ 0 \in 0 .. Threads
    BY <1>1, ConstantsAssumption DEF TypeOK
  <2> DEFINE v == [proc[p] EXCEPT !.pc = "done", !.in = FALSE, !.idx = 0, !.off = 0]
  <2>2. proc'[p] = v
    BY DEF RemoveDir
  <2>3. v \in Process /\ v.pc = "done" /\ v.op = proc[p].op /\ v.alone = proc[p].alone
    BY <2>1 DEF Process
  <2> HIDE DEF v
  <2> QED BY <2>2, <2>3
<1>4. ASSUME NEW q \in P \ {p}
      PROVE  /\ proc'[q] \in Process /\ proc'[q].pc = proc[q].pc /\ proc'[q].op = proc[q].op
             /\ proc'[q].alone = proc[q].alone /\ proc'[q].idx = proc[q].idx
  <2>1. proc[q] \in Process
    BY <1>1 DEF TypeOK
  <2>2. proc'[q] = [proc[q] EXCEPT !.in = FALSE]
    BY DEF RemoveDir
  <2> QED BY <2>1, <2>2 DEF Process
<1>5. ASSUME NEW q \in P, NEW t \in T
      PROVE  /\ th'[q][t] \in Thread /\ th'[q][t].pc = th[q][t].pc /\ th'[q][t].got = th[q][t].got
             /\ th'[q][t].out = th[q][t].out /\ th'[q][t].base = th[q][t].base
             /\ th'[q][t].ask = th[q][t].ask
             /\ th'[q][t].pc = "recv" => ~th'[q][t].linked
             /\ th'[q][t].pc # "recv" => th'[q][t] = th[q][t]
  <2>1. th[q][t] \in Thread
    BY <1>1 DEF TypeOK
  <2>2. th'[q][t] = IF th[q][t].pc = "recv" THEN [th[q][t] EXCEPT !.linked = FALSE] ELSE th[q][t]
    BY DEF RemoveDir
  <2>3. CASE th[q][t].pc = "recv"
    BY <2>1, <2>2, <2>3 DEF Thread
  <2>4. CASE th[q][t].pc # "recv"
    BY <2>1, <2>2, <2>4
  <2> QED BY <2>3, <2>4
<1>6. ASSUME NEW t \in T PROVE part'[t] = Absent
  BY <1>2
<1>7. Absent \in PartType /\ Absent.is = "absent" /\ Absent.bytes = <<>>
  BY EmptySeq DEF Absent, PartType
<1>8. Keeps
  BY <1>2, <1>3, <1>4 DEF Keeps
<1>9. TypeOK'
  <2>1. proc' \in [P -> Process]
    BY <1>3, <1>4 DEF RemoveDir
  <2>2. th' \in [P -> [T -> Thread]]
    BY <1>5 DEF RemoveDir
  <2>3. \A q \in P, t \in T : th'[q][t].out <= th'[q][t].got
    BY <1>1, <1>5 DEF TypeOK
  <2>4. part' \in [T -> PartType]
    BY <1>2, <1>7
  <2> QED BY <1>1, <1>2, <2>1, <2>2, <2>3, <2>4 DEF TypeOK, PartType
<1>10. LifeInv'
  <2>1. ASSUME NEW q \in P, q > runs' PROVE proc'[q].pc = "none" /\ proc'[q].op = "start"
    <3>1. proc[q].pc = "none" /\ proc[q].op = "start"
      BY <1>1, <1>2, <2>1 DEF LifeInv
    <3>2. q # p
      BY <1>2, <3>1
    <3> QED BY <1>4, <3>1, <3>2
  <2>2. ASSUME NEW q \in P, NEW u \in T PROVE LifeOf(q, u)'
    <3>1. LifeOf(q, u)
      BY <1>1 DEF LifeInv
    <3>2. CASE q = p
      BY <1>2, <1>5, <3>1, <3>2 DEF LifeOf
    <3>3. CASE q # p
      BY <1>4, <1>5, <3>1, <3>3 DEF LifeOf
    <3> QED BY <3>2, <3>3
  <2> QED BY <1>6, <1>7, <2>1, <2>2 DEF LifeInv
<1>11. StartsInv'
  <2> SUFFICES ASSUME OnlyStarts', NEW u \in T PROVE StartsPart(u)'
    BY DEF StartsInv
  <2>1. StartsPart(u)
    BY <1>1, <1>8, StartsStay DEF StartsInv
  <2>2. \A q \in P : AsksWhole(q, u)'
    BY <1>5, <2>1 DEF StartsPart, AsksWhole
  <2>3. Len(part'[u].bytes) <= Size(u) /\ DOMAIN part'[u].bytes = {} /\ part'[u].is # "file"
    BY <1>6, <1>7, PartTypes, EmptyWhole
  <2> QED BY <2>2, <2>3 DEF StartsPart
<1>12. LoneInv'
  <2>1. ~LoneGoes(p)
    BY <1>2 DEF LoneGoes
  <2>2. Running(p) /\ \A q \in P \ {p} : proc'[q].pc = proc[q].pc
    BY <1>2, <1>4 DEF Running
  <2> QED BY <1>1, <1>8, <2>1, <2>2, LoneStep
<1> QED BY <1>9, <1>10, <1>11, <1>12 DEF IInv

-------------------------------------------------------------------------------
(* A process is started *)

(* A download that is alone starts with nothing to be wrong about.           *)
LEMMA SpawnKeeps ==
    ASSUME IInv, NEW o \in {"start", "continue"}, Spawn(o)
    PROVE  IInv'
<1>1. TypeOK /\ LifeInv /\ StartsInv /\ LoneInv
  BY DEF IInv
<1> DEFINE p == runs + 1
           alone == ~\E r \in P : Running(r)
           v == [NoProcess EXCEPT !.pc = "create", !.op = o, !.in = dir', !.alone = alone]
<1>2. /\ runs < MaxRuns /\ runs' = p /\ dir' = (dir \/ o = "start")
      /\ proc' = [q \in P |-> IF q = p THEN v ELSE [proc[q] EXCEPT !.alone = FALSE]]
      /\ UNCHANGED <<th, part, target>>
  BY DEF Spawn
<1>3. /\ p \in P /\ p > runs /\ p \in 0 .. MaxRuns /\ runs \in Nat /\ p \in Nat
      /\ dir' \in BOOLEAN
  <2>1. runs \in 0 .. MaxRuns /\ runs < MaxRuns
    BY <1>1, <1>2 DEF TypeOK
  <2>2. p \in P /\ p > runs /\ p \in 0 .. MaxRuns /\ runs \in Nat /\ p \in Nat
    BY <2>1, ConstantsAssumption DEF P
  <2>3. dir' \in BOOLEAN
    BY <1>2
  <2> QED BY <2>2, <2>3
<1>4. /\ v \in Process /\ v.pc = "create" /\ v.op = o /\ v.idx = 0 /\ v.off = 0
      /\ v.in = dir' /\ v.alone = alone
  <2>1. /\ NoProcess \in Process /\ NoProcess.pc = "none" /\ NoProcess.op = "start"
        /\ NoProcess.idx = 0 /\ NoProcess.off = 0
    BY NoProcessType
  <2>2. alone \in BOOLEAN
    OBVIOUS
  <2> HIDE DEF alone
  <2> QED BY <1>3, <2>1, <2>2 DEF Process
<1> HIDE DEF v
<1>5. proc'[p] = v
  BY <1>2, <1>3
<1>6. ASSUME NEW q \in P \ {p}
      PROVE  /\ proc'[q] \in Process /\ proc'[q].pc = proc[q].pc /\ proc'[q].op = proc[q].op
             /\ proc'[q].idx = proc[q].idx
  <2>1. proc[q] \in Process
    BY <1>1 DEF TypeOK
  <2>2. proc'[q] = [proc[q] EXCEPT !.alone = FALSE]
    BY <1>2
  <2> QED BY <2>1, <2>2 DEF Process
<1>7. proc[p].pc = "none" /\ proc[p].op = "start"
  BY <1>1, <1>3 DEF LifeInv
<1>8. th' = th /\ part' = part /\ target' = target
  BY <1>2
<1>9. TypeOK'
  <2>1. proc' \in [P -> Process]
    <3>1. \A q \in P : proc'[q] \in Process
      BY <1>4, <1>5, <1>6
    <3>2. proc' = [q \in P |-> proc'[q]]
      BY <1>2
    <3> QED BY <3>1, <3>2
  <2> HIDE DEF p
  <2> QED BY <1>1, <1>2, <1>3, <1>8, <2>1 DEF TypeOK
<1>10. LifeInv'
  <2>1. ASSUME NEW q \in P, q > runs' PROVE proc'[q].pc = "none" /\ proc'[q].op = "start"
    <3>1. q > runs /\ q # p
      <4>1. q \in Nat
        BY DEF P
      <4> QED BY <1>2, <1>3, <2>1, <4>1
    <3> QED BY <1>1, <1>6, <3>1 DEF LifeInv
  <2>2. ASSUME NEW q \in P, NEW u \in T PROVE LifeOf(q, u)'
    <3>1. LifeOf(q, u)
      BY <1>1 DEF LifeInv
    <3>2. CASE q = p
      BY <1>7, <1>8, <3>1, <3>2 DEF LifeOf
    <3>3. CASE q # p
      BY <1>6, <1>8, <3>1, <3>3 DEF LifeOf
    <3> QED BY <3>2, <3>3
  <2>3. \A u \in T : part'[u].is = "absent" => part'[u].bytes = <<>>
    BY <1>1, <1>8 DEF LifeInv
  <2> QED BY <2>1, <2>2, <2>3 DEF LifeInv
<1>11. StartsInv'
  <2> SUFFICES ASSUME OnlyStarts', NEW u \in T PROVE StartsPart(u)'
    BY DEF StartsInv
  <2>1. OnlyStarts
    BY <1>6, <1>7 DEF OnlyStarts
  <2>2. StartsPart(u)
    BY <1>1, <2>1 DEF StartsInv
  <2>3. \A q \in P : AsksWhole(q, u)' /\ (Restores(q, u) => Restores(q, u)')
    BY <1>8, <2>2 DEF StartsPart, AsksWhole, Restores
  <2>4. \A q \in P : proc[q].pc = "dead" => proc'[q].pc = "dead"
    BY <1>6, <1>7
  <2> QED BY <1>8, <2>2, <2>3, <2>4 DEF StartsPart
<1>12. LoneInv'
  <2> SUFFICES ASSUME NEW r \in P, LastIsLone(r)'
               PROVE  (\A q \in P \ {r} : ~Running(q)') /\ LoneGoes(r)'
    BY DEF LoneInv
  <2>1. r = p /\ o = "start" /\ alone
    BY <1>2, <1>4, <1>5 DEF LastIsLone, Lone
  <2>2. \A q \in P \ {r} : ~Running(q)'
    BY <1>6, <2>1 DEF Running
  <2>3. proc'[r].in /\ dir' /\ proc'[r].off = 0 /\ proc'[r].idx = 0 /\ proc'[r].pc = "create"
    BY <1>2, <1>4, <1>5, <2>1
  <2>4. \A u \in T : ~(u < 0)
    BY PartTypes
  <2>5. LoneCreates(r)'
    BY <2>3, <2>4 DEF LoneCreates
  <2> QED BY <2>2, <2>3, <2>5 DEF LoneGoes
<1> QED BY <1>9, <1>10, <1>11, <1>12 DEF IInv

-------------------------------------------------------------------------------
(* Theorems *)

(* The inductive invariant holds at first, and after each step.              *)
LEMMA InitIInv == Init => IInv
<1> SUFFICES ASSUME Init PROVE IInv
  OBVIOUS
<1>1. /\ proc = [p \in P |-> NoProcess] /\ th = [p \in P |-> [t \in T |-> NoThread]]
      /\ part = [t \in T |-> Absent] /\ dir = FALSE /\ target = <<>> /\ runs = 0
  BY DEF Init
<1>2. ASSUME NEW p \in P PROVE proc[p].pc = "none" /\ proc[p].op = "start"
  BY <1>1, NoProcessType
<1>3. ASSUME NEW p \in P, NEW t \in T
      PROVE  th[p][t].pc = "none" /\ th[p][t].out <= th[p][t].got
  <2>1. th[p][t] = NoThread
    BY <1>1
  <2> QED BY <2>1, NoThreadType
<1>4. Absent \in PartType /\ Absent.is = "absent" /\ Absent.bytes = <<>>
  BY EmptySeq DEF Absent, PartType
<1>5. TypeOK
  <2>1. proc \in [P -> Process] /\ th \in [P -> [T -> Thread]]
    BY <1>1, NoProcessType, NoThreadType
  <2>2. part \in [T -> PartType] /\ dir \in BOOLEAN /\ target \in Seq(Byte) /\ runs \in 0 .. MaxRuns
    <3>1. dir \in BOOLEAN
      BY <1>1
    <3>2. part \in [T -> PartType]
      BY <1>1, <1>4
    <3>3. target \in Seq(Byte) /\ runs \in 0 .. MaxRuns
      BY <1>1, EmptyWhole, ConstantsAssumption
    <3> QED BY <3>1, <3>2, <3>3
  <2> QED BY <1>3, <2>1, <2>2 DEF TypeOK, PartType
<1>6. LifeInv
  BY <1>1, <1>2, <1>3, <1>4 DEF LifeInv, LifeOf
<1>7. StartsInv
  <2> SUFFICES ASSUME NEW t \in T PROVE StartsPart(t)
    BY DEF StartsInv
  <2>1. part[t].is # "file" /\ part[t].bytes = <<>>
    BY <1>1, <1>4
  <2>2. Len(part[t].bytes) <= Size(t) /\ DOMAIN part[t].bytes = {}
    BY <2>1, PartTypes, EmptyWhole
  <2> QED BY <1>3, <2>1, <2>2 DEF StartsPart, AsksWhole
<1>8. LoneInv
  BY <1>1 DEF LoneInv, LastIsLone, P
<1> QED BY <1>5, <1>6, <1>7, <1>8 DEF IInv

LEMMA StepIInv == IInv /\ [Next]_vars => IInv'
<1> SUFFICES ASSUME IInv, [Next]_vars PROVE IInv'
  OBVIOUS
<1>1. ASSUME NEW o \in {"start", "continue"}, Spawn(o) PROVE IInv'
  BY <1>1, SpawnKeeps
<1>2. ASSUME NEW p \in P, CreateThread(p) PROVE IInv'
  BY <1>2, CreateThreadKeeps
<1>3. ASSUME NEW p \in P, ContinuePart(p) PROVE IInv'
  BY <1>3, ContinuePartKeeps
<1>4. ASSUME NEW p \in P, PartMissing(p) PROVE IInv'
  <2>1. Running(p) /\ Die(p)
    BY <1>4 DEF PartMissing, Running
  <2> QED BY <2>1, DieKeeps
<1>5. ASSUME NEW p \in P, NEW t \in T, Open(p, t) PROVE IInv'
  BY <1>5, OpenKeeps
<1>6. ASSUME NEW p \in P, NEW t \in T, OpenFails(p, t) PROVE IInv'
  <2>1. proc[p].pc = "create"
    BY <1>6 DEF IInv, LifeInv, LifeOf, OpenFails
  <2>2. Running(p) /\ Die(p)
    BY <1>6, <2>1 DEF OpenFails, Running
  <2> QED BY <2>2, DieKeeps
<1>7. ASSUME NEW p \in P, NEW t \in T, Recv(p, t) PROVE IInv'
  BY <1>7, RecvKeeps
<1>8. ASSUME NEW p \in P, NEW t \in T, Finish(p, t) PROVE IInv'
  BY <1>8, FinishKeeps
<1>9. ASSUME NEW p \in P, Join(p) PROVE IInv'
  BY <1>9, JoinKeeps
<1>10. ASSUME NEW p \in P, MergePart(p) PROVE IInv'
  BY <1>10, MergePartKeeps
<1>11. ASSUME NEW p \in P, MergeEmpty(p) PROVE IInv'
  BY <1>11, MergeEmptyKeeps
<1>12. ASSUME NEW p \in P, RemoveDir(p) PROVE IInv'
  BY <1>12, RemoveDirKeeps
<1>13. ASSUME NEW p \in P, MergeEnd(p) PROVE IInv'
  BY <1>13, MergeEndKeeps
<1>14. ASSUME NEW p \in P, Kill(p) PROVE IInv'
  BY <1>14, DieKeeps DEF Kill
<1>15. CASE UNCHANGED vars
  <2>1. TypeOK' /\ LifeInv'
    BY <1>15 DEF vars, IInv, TypeOK, LifeInv, LifeOf
  <2>2. StartsInv'
    BY <1>15 DEF vars, IInv, StartsInv, OnlyStarts, StartsPart, AsksWhole, Restores
  <2>3. LoneInv'
    BY <1>15 DEF vars, IInv, LoneInv, LastIsLone, Lone, LoneGoes, LoneCreates, LonePart, LoneMerges,
                 AsksWhole, Running, Offset
  <2> QED BY <2>1, <2>2, <2>3 DEF IInv
<1> QED
  BY <1>1, <1>2, <1>3, <1>4, <1>5, <1>6, <1>7, <1>8, <1>9, <1>10, <1>11, <1>12, <1>13, <1>14, <1>15
     DEF Next, Step

(* The inductive invariant holds in every state.                             *)
THEOREM IInvCorrect == Spec => []IInv
BY InitIInv, StepIInv, PTL DEF Spec

(* Every variable keeps its type, and no thread writes out more than it      *)
(* received.                                                                 *)
THEOREM TypeCorrect == Spec => []TypeOK
<1>1. IInv => TypeOK
  BY DEF IInv
<1> QED BY <1>1, IInvCorrect, PTL

(* However many fresh downloads of one file overlap, and wherever they are   *)
(* killed, none writes a byte where it does not belong or behind the end of  *)
(* the part.                                                                 *)
THEOREM StartsWriteRightCorrect == Spec => []StartsWriteRight
<1>1. IInv => StartsWriteRight
  BY DEF IInv, StartsInv, StartsPart, StartsWriteRight
<1> QED BY <1>1, IInvCorrect, PTL

(* Once overlapping fresh downloads have all run to their ends, every part   *)
(* that was not removed is whole.                                            *)
THEOREM StartsLeaveWholePartsCorrect == Spec => []StartsLeaveWholeParts
<1>1. IInv => StartsLeaveWholeParts
  <2> SUFFICES ASSUME IInv, OnlyStarts, \A p \in P : proc[p].pc \in {"none", "done"},
                      NEW t \in T, part[t].is = "file"
               PROVE  Whole(part[t].bytes, Size(t))
    BY DEF StartsLeaveWholeParts
  <2>1. \A p \in P : th[p][t].pc = "none"
    BY DEF IInv, LifeInv, LifeOf
  <2>2. ~\E p \in P : Restores(p, t)
    BY <2>1 DEF Restores
  <2> QED BY <2>2 DEF IInv, StartsInv, StartsPart
<1> QED BY <1>1, IInvCorrect, PTL

(* A fresh download that no other overlaps delivers the whole file, whatever *)
(* overlapping and killed ones left in the directory before it.              *)
THEOREM LoneStartDeliversCorrect == Spec => []LoneStartDelivers
<1>1. IInv => LoneStartDelivers
  <2> SUFFICES ASSUME IInv, runs > 0, FileSize >= Threads, proc[runs].pc = "done",
                      proc[runs].op = "start", proc[runs].alone
               PROVE  Whole(target, FileSize)
    BY DEF LoneStartDelivers
  <2>1. runs \in P
    <3>1. runs \in 0 .. MaxRuns
      BY DEF IInv, TypeOK
    <3> QED BY <3>1, ConstantsAssumption DEF P
  <2>2. LastIsLone(runs)
    BY DEF LastIsLone, Lone
  <2>3. LoneGoes(runs)
    BY <2>1, <2>2 DEF IInv, LoneInv
  <2> QED BY <2>3 DEF LoneGoes
<1> QED BY <1>1, IInvCorrect, PTL

(* Resumed downloads that overlap only ever add to a part, until an early    *)
(* return of file_merge removes it.                                          *)
THEOREM ContinuesKeepDiskCorrect == Spec => ContinuesKeepDisk
<1> DEFINE Adds == (\A p \in P : Running(p) => proc[p].op = "continue") =>
                     \A t \in T : part'[t].is = "file" => IsPrefix(part[t].bytes, part'[t].bytes)
<1>1. IInv /\ [Next]_vars => [Adds]_vars
  <2> SUFFICES ASSUME IInv, Next, \A p \in P : Running(p) => proc[p].op = "continue",
                      NEW t \in T, part'[t].is = "file"
               PROVE  IsPrefix(part[t].bytes, part'[t].bytes)
    OBVIOUS
  <2>1. TypeOK /\ LifeInv /\ part[t].bytes \in Seq(Byte)
    BY Components DEF IInv, TypeOK
  <2>2. IsPrefix(part[t].bytes, part[t].bytes)
    BY <2>1, PrefixOf
  <2>3. ASSUME part' = part PROVE IsPrefix(part[t].bytes, part'[t].bytes)
    BY <2>2, <2>3
  <2>4. ASSUME NEW p \in P, NEW u \in T, th[p][u].pc # "none" PROVE proc[p].op = "continue"
    BY <2>1, <2>4 DEF LifeInv, LifeOf, Running
  <2>5. ASSUME NEW p \in P, NEW u \in T, NEW n \in Nat, th[p][u].pc = "recv",
               part' = [part EXCEPT ![u] = WrittenOut(p, u, n)]
        PROVE  IsPrefix(part[t].bytes, part'[t].bytes)
    <3>1. proc[p].op = "continue"
      BY <2>4, <2>5
    <3>2. CASE u = t
      <4>1. part'[t] = WrittenOut(p, t, n)
        BY <2>1, <2>5, <3>2 DEF TypeOK
      <4>2. IsPrefix(part[t].bytes, WrittenOut(p, t, n).bytes)
        BY <2>1, <3>1, WrittenOutIs
      <4> QED BY <4>1, <4>2
    <3>3. CASE u # t
      <4>1. part'[t] = part[t]
        BY <2>1, <2>5, <3>3 DEF TypeOK
      <4> QED BY <2>2, <4>1
    <3> QED BY <3>2, <3>3
  <2>6. ASSUME NEW o \in {"start", "continue"}, Spawn(o) PROVE part' = part
    BY <2>6 DEF Spawn
  <2>7. ASSUME NEW p \in P, \/ CreateThread(p) \/ ContinuePart(p) \/ PartMissing(p) \/ Join(p)
                            \/ MergePart(p) \/ MergeEmpty(p) \/ MergeEnd(p) \/ Kill(p)
        PROVE  part' = part
    BY <2>7 DEF CreateThread, ContinuePart, PartMissing, Join, MergePart, MergeEmpty, MergeEnd, Kill, Die
  <2>8. ASSUME NEW p \in P, NEW u \in T, OpenFails(p, u) PROVE part' = part
    BY <2>8 DEF OpenFails, Die
  <2>9. ASSUME NEW p \in P, NEW u \in T, Open(p, u)
        PROVE  IsPrefix(part[t].bytes, part'[t].bytes)
    <3>1. proc[p].op = "continue"
      BY <2>4, <2>9 DEF Open
    <3>2. part' = [part EXCEPT ![u] = File(part[u].bytes)]
      BY <2>9, <3>1 DEF Open, Opened
    <3>3. part'[t].bytes = part[t].bytes
      BY <2>1, <3>2 DEF TypeOK, File
    <3> QED BY <2>2, <3>3
  <2>10. ASSUME NEW p \in P, NEW u \in T, Recv(p, u)
         PROVE  IsPrefix(part[t].bytes, part'[t].bytes)
    <3>1. PICK n \in 1 .. Block :
            \E k \in 0 .. th[p][u].got + n - th[p][u].out :
              part' = [part EXCEPT ![u] = WrittenOut(p, u, k)]
      BY <2>10 DEF Recv
    <3>2. PICK k \in 0 .. th[p][u].got + n - th[p][u].out :
            part' = [part EXCEPT ![u] = WrittenOut(p, u, k)]
      BY <3>1
    <3>3. k \in Nat
      OBVIOUS
    <3> QED BY <2>5, <2>10, <3>2, <3>3 DEF Recv
  <2>11. ASSUME NEW p \in P, NEW u \in T, Finish(p, u)
         PROVE  IsPrefix(part[t].bytes, part'[t].bytes)
    <3>1. th[p][u].got - th[p][u].out \in Nat
      <4>1. th[p][u].got \in Nat /\ th[p][u].out \in Nat /\ th[p][u].out <= th[p][u].got
        BY <2>1, Components
      <4> QED BY <4>1
    <3> QED BY <2>5, <2>11, <3>1 DEF Finish
  <2>12. ASSUME NEW p \in P, RemoveDir(p) PROVE part'[t].is = "absent"
    BY <2>12 DEF RemoveDir, Absent
  <2> QED
    BY <2>3, <2>6, <2>7, <2>8, <2>9, <2>10, <2>11, <2>12 DEF Next, Step
<1> QED BY <1>1, IInvCorrect, PTL DEF Spec, ContinuesKeepDisk
===============================================================================
