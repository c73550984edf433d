--------------------------- MODULE ResumableTransfer ---------------------------
(***************************************************************************)
(* What a resumable download of one file promises, whatever the protocol:  *)
(* the file is cut into parts; a fresh download may start any part over, a *)
(* resumed one only adds to what it finds; an interruption may cost the    *)
(* tail of any part; the file is put together only when every part is      *)
(* complete; and a download that comes to its end has delivered it.  The   *)
(* P2P, the FTP and the HTTP download are shown to implement this.         *)
(***************************************************************************)
EXTENDS Naturals

CONSTANTS
    Pieces,     \* the parts of the file
    Bytes       \* how many bytes each part has

VARIABLES
    phase,      \* "idle", "fetching", "merging" or "done"
    resume,     \* whether the current download goes on with an earlier one
    have,       \* right bytes held of each part
    delivered   \* the file is there, whole

tvars == <<phase, resume, have, delivered>>

TInit ==
    /\ phase = "idle" /\ resume \in BOOLEAN
    /\ have = [p \in Pieces |-> 0]
    /\ delivered = FALSE

Begin ==
    /\ phase \in {"idle", "done"} /\ phase' = "fetching"
    /\ resume' \in BOOLEAN
    /\ UNCHANGED <<have, delivered>>

(* A fresh download starts a part over. *)
StartOver(p) ==
    /\ phase = "fetching" /\ ~resume
    /\ have' = [have EXCEPT ![p] = 0]
    /\ UNCHANGED <<phase, resume, delivered>>

Gain(p) ==
    /\ phase = "fetching"
    /\ \E n \in (have[p] + 1) .. Bytes[p] : have' = [have EXCEPT ![p] = n]
    /\ UNCHANGED <<phase, resume, delivered>>

(* Merging begins with every part complete, and with an empty file. *)
Merge ==
    /\ phase = "fetching" /\ phase' = "merging"
    /\ have = Bytes
    /\ delivered' = FALSE
    /\ UNCHANGED <<resume, have>>

Deliver ==
    /\ phase = "merging"
    /\ delivered' = TRUE
    /\ UNCHANGED <<phase, resume, have>>

(* The parts are removed, or kept. *)
End ==
    /\ phase = "merging" /\ delivered
    /\ phase' = "done"
    /\ have' \in {have, [p \in Pieces |-> 0]}
    /\ UNCHANGED <<resume, delivered>>

(* The process is gone; of each part some prefix remains. *)
Interrupt ==
    /\ phase \in {"fetching", "merging"} /\ phase' = "idle"
    /\ have' \in [Pieces -> Nat]
    /\ \A p \in Pieces : have'[p] <= have[p]
    /\ UNCHANGED <<resume, delivered>>

TNext ==
    \/ Begin \/ Merge \/ Deliver \/ End \/ Interrupt
    \/ \E p \in Pieces : StartOver(p) \/ Gain(p)

TSpec == TInit /\ [][TNext]_tvars
================================================================================
