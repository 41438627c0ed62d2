------------------------------ MODULE Connection ------------------------------
(***************************************************************************)
(* socketlib::connection: one socket of a client/server pair.  Its STATE   *)
(* enumeration, the setter state(), and the two predicates that the event  *)
(* loop and the I/O calls consult.  The descriptor, the ready flags and    *)
(* the read buffer are variables of ProxyHandler, which owns two           *)
(* connections.                                                            *)
(***************************************************************************)

(* connection::STATE *)
States == {"NOT_CONNECTED", "CONNECTED", "CONNECTING",
           "READ_SHUT", "WRITE_SHUT", "HUNGUP"}

(* The statuses of socketlib::STATUS that the proxy uses. *)
Statuses == {"COMPLETE", "INCOMPLETE", "CONNECTION_FAILED",
             "SRC_CLOSED", "DEST_CLOSED", "DENY"}

(* connection::open_for_read(), open_for_write() *)
OpenForRead(st)  == st \in {"CONNECTED", "WRITE_SHUT"}
OpenForWrite(st) == st \in {"CONNECTED", "READ_SHUT"}

(***************************************************************************)
(* connection::state(new_state).  The two tests of the code are not an     *)
(* if/else-if chain: the first one stores HUNGUP, and the else branch of   *)
(* the second one then stores new_state over it.  Only WRITE_SHUT followed *)
(* by READ_SHUT ends in HUNGUP.                                            *)
(***************************************************************************)
SetState(old, new) ==
    IF new = "READ_SHUT" /\ old = "WRITE_SHUT" THEN "HUNGUP" ELSE new

===============================================================================
