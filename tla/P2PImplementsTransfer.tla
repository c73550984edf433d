------------------------- MODULE P2PImplementsTransfer -------------------------
(***************************************************************************)
(* The P2P download implements ResumableTransfer in the behaviours in which*)
(* no two requests meet in the shared buffer and no server dies, for files *)
(* with at least one byte per thread.                                      *)
(***************************************************************************)
EXTENDS P2PDownload

(* Behaviours with one request in the buffer at a time and live servers. *)
NormalSpec == Init /\ [][Next /\ ~tainted' /\ failures' = 0]_vars

Phase == CASE mpc \in {"none", "dead"} -> "idle"
           [] mpc = "done" -> "done"
           [] mpc \in {"create", "add"} -> "fetching"
           [] mpc \in {"merge", "cleanup"} -> "merging"

Transfer == INSTANCE ResumableTransfer WITH
    Pieces <- T,
    Bytes <- [t \in T |-> Size(t)],
    phase <- Phase,
    resume <- (op = "continue"),
    have <- [t \in T |-> part[t].clean],
    delivered <- Whole

(* Every step of the download is a step of the abstract transfer or changes  *)
(* nothing it sees: no byte is given up but by an interruption or by         *)
(* starting over, file_merge begins only when every part is complete, and a  *)
(* process that reaches its end has delivered the file.                      *)
ImplementsTransfer == Transfer!TSpec
================================================================================
