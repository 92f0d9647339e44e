------------------------------ MODULE Exchange ------------------------------
(***************************************************************************)
(* What the line protocol promises, and what Irauthd takes for granted: a   *)
(* request reaches the daemon whole or not at all, and a client that is told *)
(* yes or PONG is told what the daemon decided about that request.           *)
(***************************************************************************)
CONSTANT Requests

VARIABLES
  asked,   \* the client's request
  done,    \* what the daemon has made of it
  told     \* what the client knows

Outcomes == {"granted", "denied", "pong", "status"}

Init == asked \in Requests /\ done = "nothing" /\ told = "nothing"

Do ==
  /\ done = "nothing"
  /\ \/ done' = "refused"
     \/ asked.kind = "AUTH" /\ done' \in {"granted", "denied"}
     \/ asked.kind = "PING" /\ done' = "pong"
     \/ asked.kind = "STATUS" /\ done' = "status"
  /\ UNCHANGED <<asked, told>>

Tell ==
  /\ told = "nothing"
  /\ \/ told' = "no"
     \/ told' = "yes" /\ done \in {"granted", "pong", "status"}
  /\ UNCHANGED <<asked, done>>

Next == Do \/ Tell

Spec == Init /\ [][Next]_<<asked, done, told>>
=============================================================================
