------------------------------ MODULE FaceGate ------------------------------
(***************************************************************************)
(* What PAM may rely on when it asks irauthd for a face: an abstract        *)
(* specification without threads, queues, locks or processes.  Irauthd      *)
(* implements it (Irauthd!IsFaceGate).                                      *)
(***************************************************************************)
CONSTANTS Conns, Requests, Entitled, NoRequest

VARIABLES
  asked,     \* the request of each connection, NoRequest before it is made
  scanning,  \* the connection whose face is being scanned: at most one
  outcome,   \* how far the ceremony of each connection has come
  verdict    \* what the client has concluded

vars == <<asked, scanning, outcome, verdict>>

Init ==
  /\ asked = [c \in Conns |-> NoRequest]
  /\ scanning = {}
  /\ outcome = [c \in Conns |-> "none"]
  /\ verdict = [c \in Conns |-> "none"]

Ask(c) ==
  /\ asked[c] = NoRequest /\ verdict[c] = "none"
  /\ \E r \in Requests : asked' = [asked EXCEPT ![c] = r]
  /\ UNCHANGED <<scanning, outcome, verdict>>

\* One scan at a time, never a second one for the same request.
StartScan(c) ==
  /\ asked[c] \in Entitled /\ outcome[c] = "none" /\ scanning = {}
  /\ scanning' = {c}
  /\ outcome' = [outcome EXCEPT ![c] = "running"]
  /\ UNCHANGED <<asked, verdict>>

Look(c) ==
  /\ c \in scanning /\ outcome[c] = "running"
  /\ \E o \in {"matched", "missed"} : outcome' = [outcome EXCEPT ![c] = o]
  /\ UNCHANGED <<asked, scanning, verdict>>

\* A ceremony may be given up at any time before its end; a match is then void.
Cut(c) ==
  /\ c \in scanning /\ verdict[c] # "granted"
  /\ outcome' = [outcome EXCEPT ![c] = "cut"]
  /\ scanning' \in {scanning, scanning \ {c}}
  /\ UNCHANGED <<asked, verdict>>

EndScan(c) ==
  /\ c \in scanning /\ outcome[c] # "running"
  /\ scanning' = scanning \ {c}
  /\ UNCHANGED <<asked, outcome, verdict>>

Grant(c) ==
  /\ verdict[c] = "none" /\ outcome[c] = "matched" /\ c \notin scanning
  /\ verdict' = [verdict EXCEPT ![c] = "granted"]
  /\ UNCHANGED <<asked, scanning, outcome>>

Deny(c) ==
  /\ verdict[c] = "none"
  /\ verdict' = [verdict EXCEPT ![c] = "denied"]
  /\ UNCHANGED <<asked, scanning, outcome>>

Next == \E c \in Conns : \/ Ask(c) \/ StartScan(c) \/ Look(c) \/ Cut(c)
                         \/ EndScan(c) \/ Grant(c) \/ Deny(c)

Spec == Init /\ [][Next]_vars
=============================================================================
