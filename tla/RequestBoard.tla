---------------------------- MODULE RequestBoard ----------------------------
(***************************************************************************)
(* What a connection promises about the requests submitted to it: a        *)
(* request is submitted once, is pending, and is then settled exactly      *)
(* once -- it succeeds, fails or is withdrawn (RemoveHandler).  It         *)
(* succeeds only while the connection works.  When the connection is       *)
(* destroyed, one request at most may be abandoned: its callback never     *)
(* runs.  PacketService is shown to implement this board.                  *)
(***************************************************************************)
CONSTANT Requests

VARIABLES
    state,   \* of each request
    link     \* of the connection: working, failed, closing or gone

boardVars == <<state, link>>

States == {"new", "pending", "succeeded", "failed", "withdrawn", "abandoned"}
Links  == {"working", "failed", "closing", "gone"}

BoardInit ==
    /\ state = [r \in Requests |-> "new"]
    /\ link = "working"

Become(r, from, to) == state[r] = from /\ state' = [state EXCEPT ![r] = to]

(* On a failed connection the request fails within the call.               *)
SubmitRequest(r) ==
    /\ link \in {"working", "failed"}
    /\ Become(r, "new", IF link = "working" THEN "pending" ELSE "failed")
    /\ UNCHANGED link

Succeed(r)  == link = "working" /\ Become(r, "pending", "succeeded") /\ UNCHANGED link

Fail(r)     == link # "gone" /\ Become(r, "pending", "failed") /\ UNCHANGED link

Withdraw(r) == link \in {"working", "failed"} /\ Become(r, "pending", "withdrawn")
                                              /\ UNCHANGED link

Break == link = "working" /\ link' = "failed" /\ UNCHANGED state

BeginClose == link \in {"working", "failed"} /\ link' = "closing" /\ UNCHANGED state

(* At most one request may be lost, in the middle of closing.              *)
Abandon(r) ==
    /\ link = "closing"
    /\ \A q \in Requests : state[q] # "abandoned"
    /\ Become(r, "pending", "abandoned")
    /\ UNCHANGED link

EndClose ==
    /\ link = "closing"
    /\ \A r \in Requests : state[r] # "pending"
    /\ link' = "gone"
    /\ UNCHANGED state

BoardNext ==
    \/ \E r \in Requests :
        SubmitRequest(r) \/ Succeed(r) \/ Fail(r) \/ Withdraw(r) \/ Abandon(r)
    \/ Break
    \/ BeginClose
    \/ EndClose

BoardSpec == BoardInit /\ [][BoardNext]_boardVars
=============================================================================
