-------------------------- MODULE WithdrawalPromise ----------------------------
(***************************************************************************)
(* What a withdrawal promises its user.  The amount is in one place at a   *)
(* time: with the user, reserved, or paid out.  It is sent at most once,   *)
(* never sent after it was given back, and leaves the reservation only for *)
(* the payout or back to the user.                                         *)
(*                                                                         *)
(* Withdrawals is what the program does, and says under which condition it *)
(* implements this module.                                                 *)
(***************************************************************************)
CONSTANT W                  \* the withdrawal requests

VARIABLE promise

Statuses == {"none", "pending", "approved", "rejected", "cancelled",
             "processing", "completed", "failed"}

Promises == [status : Statuses, funds : {"user", "reserved", "out"}, sent : BOOLEAN]

Made(status, funds, sent) == [status |-> status, funds |-> funds, sent |-> sent]

Init == promise = [w \in W |-> Made("none", "user", FALSE)]

Steps ==
    {<<Made("none", "user", FALSE),        Made("pending", "reserved", FALSE)>>,
     <<Made("pending", "reserved", FALSE), Made("cancelled", "user", FALSE)>>,
     <<Made("pending", "reserved", FALSE), Made("rejected", "user", FALSE)>>,
     <<Made("pending", "reserved", FALSE), Made("approved", "reserved", FALSE)>>,
     \* The broadcast, and what the database learns of it.
     <<Made("approved", "reserved", FALSE), Made("failed", "user", FALSE)>>,
     <<Made("approved", "reserved", FALSE), Made("approved", "reserved", TRUE)>>,
     <<Made("approved", "reserved", TRUE),  Made("processing", "out", TRUE)>>,
     \* The verdict on a payout.
     <<Made("processing", "out", TRUE),     Made("completed", "out", TRUE)>>,
     <<Made("processing", "out", TRUE),     Made("failed", "user", TRUE)>>}

\* A batch may settle several withdrawals at once.
Next ==
    /\ \A w \in W : promise'[w] = promise[w] \/ <<promise[w], promise'[w]>> \in Steps
    /\ DOMAIN promise' = W

Spec == Init /\ [][Next]_promise
=============================================================================
