------------------------------- MODULE Segments -------------------------------
(***************************************************************************)
(* How a P2P download of f bytes is cut into t parts, one per thread, and  *)
(* which of the s servers named by the request serves each part.  The same *)
(* arithmetic is written twice in the source: in                           *)
(* p2p_download_process_create (p2p_download.c) and, for a resumed         *)
(* download, in p2p_continue_process_create (p2p_continue.c).              *)
(***************************************************************************)
EXTENDS Integers

(* Part numbers, and with them thread numbers, start at 0. *)
Parts(t) == 0 .. (t - 1)

(* Bytes of part i: the quotient, and for the last part what is left. *)
PartSize(f, t, i) == IF i # t - 1 THEN f \div t ELSE f - (f \div t) * i

(* First byte of part i. *)
PartStart(f, t, i) == (f \div t) * i

(* The server asked for part i: the first one while i <= t / s. *)
ServerOf(t, s, i) == IF i <= t \div s THEN 0 ELSE 1

-------------------------------------------------------------------------------

(***************************************************************************)
(* Every byte of the file lies in exactly one part, and no part reaches    *)
(* outside the file: the threads together ask for the whole file, once     *)
(* (lines 63-71 of p2p_download.c).                                        *)
(***************************************************************************)
TilesFile(f, t) ==
    /\ \A b \in 0 .. (f - 1) :
         \E i \in Parts(t) :
            /\ PartStart(f, t, i) <= b
            /\ b < PartStart(f, t, i) + PartSize(f, t, i)
            /\ \A j \in Parts(t) :
                 (PartStart(f, t, j) <= b /\ b < PartStart(f, t, j) + PartSize(f, t, j))
                    => j = i
    /\ \A i \in Parts(t) :
         0 <= PartSize(f, t, i) /\ PartStart(f, t, i) + PartSize(f, t, i) <= f

(***************************************************************************)
(* A part is asked of a server the request names: with one server no part  *)
(* is sent to the second, unset, address (lines 75-84 of p2p_download.c).  *)
(***************************************************************************)
AsksNamedServer(t, s) == \A i \in Parts(t) : ServerOf(t, s, i) < s
===============================================================================
