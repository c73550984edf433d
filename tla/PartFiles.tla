------------------------------ MODULE PartFiles -------------------------------
(***************************************************************************)
(* Files that hold a part of a download, written through stdio: how many   *)
(* bytes reached the disk, how many are still in the buffer of the FILE,   *)
(* and how long the prefix is that equals the part's own bytes.            *)
(***************************************************************************)
EXTENDS Integers

PartFile == [is : {"absent", "file"}, disk : Nat, mem : Nat, clean : Nat]

NoPart == [is |-> "absent", disk |-> 0, mem |-> 0, clean |-> 0]

Lesser(a, b) == IF a < b THEN a ELSE b

(* Length of a part file, buffer included. *)
Held(p) == p.disk + p.mem

(* The file after fwrite of n bytes that continue the part's own content or  *)
(* not; stdio then flushes as much of its buffer as it likes.                *)
Appended(p, n, right, flushed) ==
    [is |-> p.is, disk |-> p.disk + flushed, mem |-> p.mem + n - flushed,
     clean |-> IF right /\ p.clean = Held(p) THEN p.clean + n ELSE p.clean]

(* The file after fclose. *)
Flushed(p) == [p EXCEPT !.disk = Held(p), !.mem = 0]

(* Mutation: what a killed process had buffered is taken to be on the disk. *)
KeepsBuffered(p) == [p EXCEPT !.mem = 0]

(* What a buffer that is never flushed leaves of the file. *)
Unflushed(p) == [p EXCEPT !.mem = 0, !.clean = Lesser(p.clean, p.disk)]

(* The sum of f[0] .. f[n - 1], over the parts of a file. *)
Total(f, n) ==
    LET sum[i \in 0 .. n] == IF i = 0 THEN 0 ELSE sum[i - 1] + f[i - 1] IN sum[n]
===============================================================================
