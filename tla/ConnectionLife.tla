--------------------------- MODULE ConnectionLife ---------------------------
(***************************************************************************)
(* What a TcpConnection (core/TcpConnection.hpp) promises to the program   *)
(* that set its callbacks, HttpServer for one: the connect callback comes  *)
(* first and once, the close callback comes last and once, and message and *)
(* write-complete callbacks come only between the two.  HttpServer relies  *)
(* on it when it casts the user data of the connection without a test.     *)
(*                                                                         *)
(* TcpConnection.tla implements this specification; epoll, buffers, states *)
(* and queued tasks do not appear here.                                    *)
(***************************************************************************)
VARIABLES stage,   \* what the program has been told: "new", "open", "closed"
          calls,   \* the callback that runs, or "none"
          ending,  \* the peer is gone, or the program asked to close
          blocked  \* the program is held up in a write()

vars == <<stage, calls, ending>>

Init ==
  /\ stage = "new"
  /\ calls = "none"
  /\ ending = FALSE

\* The first callback.
Connect ==
  /\ stage = "new" /\ calls = "none"
  /\ stage' = "open"
  /\ calls' = "connect"
  /\ UNCHANGED ending

\* A message or write-complete callback.
Inform ==
  /\ stage = "open" /\ calls = "none"
  /\ calls' \in {"message", "writeComplete"}
  /\ UNCHANGED <<stage, ending>>

\* The last callback.
Close ==
  /\ stage = "open" /\ calls = "none" /\ ending
  /\ stage' = "closed"
  /\ calls' = "close"
  /\ UNCHANGED ending

Return ==
  /\ calls # "none"
  /\ calls' = "none"
  /\ UNCHANGED <<stage, ending>>

End ==
  /\ ~ending
  /\ ending' = TRUE
  /\ UNCHANGED <<stage, calls>>

Next == Connect \/ Inform \/ Close \/ Return \/ End

SafeSpec == Init /\ [][Next]_vars

\* A connection that is to end is not left open: the last callback comes, while
\* no write() blocks.
Spec == SafeSpec /\ (ending ~> stage = "closed" \/ blocked)
=============================================================================
