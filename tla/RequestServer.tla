---------------------------- MODULE RequestServer ----------------------------
(***************************************************************************)
(* What the Modbus driver promises its clients (modbus_rtu.h:19-28):       *)
(* "It is allowed to add multiple request at once.  They will be queued    *)
(* and sent to the device whenever it is ready (ie. all previous requests  *)
(* have been handled)."  Requests are served one at a time, in the order   *)
(* of their arrival.  The end of a request runs the client's handler,      *)
(* which may make the next request at once: it goes to the end of the      *)
(* queue.                                                                  *)
(***************************************************************************)
EXTENDS Sequences

CONSTANT Commands

VARIABLE queue      \* the request being served, then those that wait

Init == queue = <<>>

Submit == \E command \in Commands : queue' = Append(queue, command)

Finish ==
    /\ queue # <<>>
    /\ \/ queue' = Tail(queue)
       \/ \E command \in Commands : queue' = Append(Tail(queue), command)

Next == Submit \/ Finish

Spec == Init /\ [][Next]_queue
=============================================================================
