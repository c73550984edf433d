---------------------------- MODULE BrowserMessages ---------------------------
(***************************************************************************)
(* What a browser makes of the messages of a download: the progress and the*)
(* description of the file, which send_websocket_res_head puts behind a    *)
(* header of its own making, one behind the other in one stream.           *)
(*                                                                         *)
(* A message is its length.  The browser reads the length a header gives,  *)
(* that many bytes, and takes what follows for the next header.  As what it*)
(* takes for a header within a text may be anything, it may give up, go    *)
(* astray for good, or be in step again at the end of some message.        *)
(***************************************************************************)
EXTENDS Integers, Sequences

CONSTANTS
    Medium,           \* shortest message with a length of two bytes: 126
    Base,             \* values of a byte: 256
    MsgLens,          \* lengths of messages to the browser
    MaxOut            \* bound: messages sent to it

ASSUME MessagesAssumption ==
    /\ Medium \in Nat \ {0} /\ Base \in Nat \ {0}
    /\ MsgLens \subseteq Nat /\ MaxOut \in Nat

VARIABLES
    sending,    \* a download sends messages
    out,        \* the messages it sent
    due,        \* bytes of the stream the browser takes for the rest of the
                \* message it reads, or Astray
    read,       \* the messages it read as they were sent
    again       \* history: it was out of step, and is in step again

msgVars == <<sending, out, due, read, again>>

Astray == -1

MsgInit == sending = FALSE /\ out = <<>> /\ due = 0 /\ read = {} /\ again = FALSE

(* A download runs from now on, if it begins. *)
Starts(begins) ==
    /\ sending' = IF begins THEN TRUE ELSE sending
    /\ UNCHANGED <<out, due, read, again>>

-------------------------------------------------------------------------------
(* send_websocket_res_head *)

(* Mutation: a length of two bytes is used once too often. *)
LengthBytesEarly(n) == IF n < Medium - 1 THEN <<n>> ELSE <<Medium, n % Base, 0>>

(* The bytes of the header that give the length, the low one first, and the  *)
(* high one always 0.                                                        *)
LengthBytes(n) == IF n < Medium THEN <<n>> ELSE <<Medium, n % Base, 0>>

(* Bytes of a message in the stream. *)
WireLen(n) == 1 + Len(LengthBytes(n)) + n

(* From this length on the header is written through NULL. *)
TooLong(n) == n >= Base * Base - 1

(* The length a browser reads in a header, the high byte first. *)
ReadLength(bytes) ==
    IF bytes[1] < Medium THEN bytes[1]
    ELSE IF Len(bytes) < 3 THEN Astray         \* bytes of the message follow
    ELSE bytes[2] * Base + bytes[3]

(* In step, the browser reads a message whose header is right.  One that     *)
(* announces more than there is has what follows taken for a part of it, one *)
(* that announces less has its own text taken for a header.                  *)
ReadsHeader(n) ==
    LET says == ReadLength(LengthBytes(n)) IN
    /\ due = 0
    /\ read' = IF says = n THEN read \cup {Len(out) + 1} ELSE read
    /\ due' = IF says >= n THEN says - n ELSE Astray
    /\ again' = again

(* Still in the message before, ... *)
Swallows(n) ==
    /\ due > 0
    /\ due' = IF WireLen(n) <= due THEN due - WireLen(n) ELSE Astray
    /\ again' = (again \/ WireLen(n) = due)
    /\ read' = read

(* ... or in the middle of some text. *)
Strays ==
    /\ due = Astray
    /\ due' \in {0, Astray}
    /\ again' = (again \/ due' = 0)
    /\ read' = read

(* A message is sent, and read in its turn. *)
Send(n) ==
    /\ sending /\ Len(out) < MaxOut /\ ~TooLong(n)
    /\ out' = Append(out, n)
    /\ ReadsHeader(n) \/ Swallows(n) \/ Strays
    /\ sending' = sending

(* The process dies of a message that is too long. *)
SendTooLong(n) ==
    /\ sending /\ Len(out) < MaxOut /\ TooLong(n)
    /\ sending' = FALSE
    /\ UNCHANGED <<out, due, read, again>>

SendMessage == \E n \in MsgLens : Send(n) \/ SendTooLong(n)

-------------------------------------------------------------------------------
(* Downloads begin at any time. *)
MsgNext == (~sending /\ Starts(TRUE)) \/ SendMessage

MsgSpec == MsgInit /\ [][MsgNext]_msgVars

-------------------------------------------------------------------------------
(* Properties *)

MsgTypeOK ==
    /\ sending \in BOOLEAN /\ again \in BOOLEAN
    /\ out \in Seq(MsgLens) /\ due \in Nat \cup {Astray} /\ read \subseteq DOMAIN out

(* A message shorter than 126 bytes is read as it was sent as long as all    *)
(* before it were as short.  A longer one is not, and takes every message    *)
(* behind it along, short ones too, until the browser happens to be in step  *)
(* again (the length bytes of get_php_oper_info.c:316-317).                  *)
OnlyShortReadBack ==
    ~again => \A k \in DOMAIN out : k \in read <=> \A j \in 1 .. k : out[j] < Medium

(* The inductive invariant behind it: in step means all were short so far.   *)
InStepInv == ~again => (due = 0 <=> \A j \in DOMAIN out : out[j] < Medium)

MsgInv == MsgTypeOK /\ OnlyShortReadBack /\ InStepInv
===============================================================================
