----------------------------- MODULE MCTransport -----------------------------
(* Two calls over one connection.  The first request and the replies do not fit
   in the socket buffer, the second request does.  The second request is a
   duplicate of one in progress or has no header, so that at most one reply is
   sent. *)
EXTENDS Transport

MCFd == {Client, Server}
MCThread == MCFd \X (Call \cup {Closer})
MCSize == [t \in MCThread |->
             IF t = <<Client, 1>> THEN 4 ELSE IF t[1] = Server THEN 3 ELSE 2]
MCScenarios ==
  {[kind |-> <<"NEW", "INPROGRESS">>, events |-> 1],
   [kind |-> <<"old instance", "INPROGRESS">>, events |-> 0],
   [kind |-> <<"DONE", "bad header">>, events |-> 0],
   [kind |-> <<"FORGOTTEN", "INPROGRESS">>, events |-> 0]}
=============================================================================
