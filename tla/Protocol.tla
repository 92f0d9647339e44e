------------------------------ MODULE Protocol ------------------------------
(***************************************************************************)
(* The line protocol of irauth-core between irauthd and its clients (the    *)
(* PAM module, irauthctl test, status and setup) on one connection of a      *)
(* stream socket: what is written arrives piece by piece, and either side    *)
(* may stop in the middle of a line.  A line is a sequence of tokens.        *)
(***************************************************************************)
EXTENDS Naturals, Sequences, FiniteSets

CONSTANTS
  Text,        \* ordinary tokens
  Asks,        \* requests of the clients
  MaxRequest,  \* MAX_REQUEST_BYTES, in tokens
  MaxField     \* what valid_field() allows, in tokens

Controls == {"TAB", "CR", "NL", "ESC"}
Kinds == {"AUTH", "STATUS", "PING"}
Tokens == {"V1"} \cup Kinds \cup Controls \cup Text
NoAsk == [kind |-> "none", user |-> <<>>, reason |-> <<>>]

\* Any name and any reason: pam-irauth passes on what PAM gives it.
ASSUME ProtocolAssumption ==
  /\ \A a \in Asks : a.kind \in Kinds /\ a.user \in Seq(Tokens) /\ a.reason \in Seq(Tokens)
  /\ MaxRequest \in Nat \ {0} /\ MaxField \in Nat

-----------------------------------------------------------------------------
(* encode_request() and decode_request().                                   *)

encode_request(a) ==
  <<"V1", "TAB", a.kind>>
    \o (IF a.kind = "AUTH" THEN <<"TAB">> \o a.user \o <<"TAB">> \o a.reason ELSE <<>>)
    \o <<"NL">>

\* Without the line ends; the pieces between its tabs.
Lead(l, n) == SubSeq(l, 1, IF n < Len(l) THEN n ELSE Len(l))
Trim(l) == LET S == {n \in 0..Len(l) : \A i \in n + 1 .. Len(l) : l[i] \in {"CR", "NL"}}
           IN Lead(l, CHOOSE n \in S : \A k \in S : n <= k)
\* Up to the first newline, which is not always the one that ends a request.
FirstLine(l) == Lead(l, CHOOSE n \in 0..Len(l) :
                          /\ n = Len(l) \/ (n > 0 /\ l[n] = "NL")
                          /\ \A i \in 1..n - 1 : l[i] # "NL")
Bar(l, k) == CHOOSE i \in 0..Len(l) + 1 :
               /\ i \in {0, Len(l) + 1} \/ l[i] = "TAB"
               /\ Cardinality({j \in 1..i : j = Len(l) + 1 \/ l[j] = "TAB"}) = k
Pieces(l) == [k \in 1..Cardinality({j \in DOMAIN l : l[j] = "TAB"}) + 1 |->
                SubSeq(l, Bar(l, k - 1) + 1, Bar(l, k) - 1)]

valid_field(s) == /\ s # <<>> /\ Len(s) <= MaxField
                  /\ \A i \in DOMAIN s : s[i] \notin Controls

\* The two requests without fields, the one with two, or NoAsk for an error.
IsAuthLoose(p) == Len(p) >= 4 /\ p[2] = <<"AUTH">>
IsAuth(p) == Len(p) = 4 /\ p[2] = <<"AUTH">>
decode_request(line) ==
  LET p == Pieces(Trim(line))
  IN CASE p[1] # <<"V1">> -> NoAsk
       [] p[1] = <<"V1">> /\ Len(p) = 2 /\ p[2] \in {<<"STATUS">>, <<"PING">>} ->
            [NoAsk EXCEPT !.kind = p[2][1]]
       [] p[1] = <<"V1">> /\ Len(p) >= 2 /\ IsAuth(p) /\ valid_field(p[3]) /\ valid_field(p[4]) ->
            [kind |-> "AUTH", user |-> p[3], reason |-> p[4]]
       [] OTHER -> NoAsk

VARIABLES
  ask,      \* the client's request
  sent,     \* how much of its line has reached the daemon
  client,   \* sending, reading, gone; yes or no
  daemon,   \* reading, deciding, answering, closed
  request,  \* what it has decoded
  reply,    \* its answer's line
  out,      \* how much of that has reached the client
  outcome   \* history: what became of the request

clientVars == <<ask, client>>
vars == <<ask, sent, client, daemon, request, reply, out, outcome>>

Wire == encode_request(ask)
Replies == {<<>>, <<"OK", "TAB", "text", "NL">>, <<"ERR", "TAB", "text", "NL">>,
            <<"PONG", "NL">>, <<"STATUS", "TAB", "text", "NL">>}

TypeOK ==
  /\ ask \in Asks /\ sent \in 0..Len(Wire)
  /\ client \in {"sending", "reading", "gone", "yes", "no"}
  /\ daemon \in {"reading", "deciding", "answering", "closed"}
  /\ request = NoAsk \/ request.kind \in Kinds
  /\ reply \in Replies /\ out \in 0..Len(reply)
  /\ daemon \in {"reading", "deciding"} => out = 0
  /\ outcome \in {"nothing", "refused", "granted", "denied", "pong", "status"}

Init ==
  /\ ask \in Asks /\ sent = 0 /\ client = "sending"
  /\ daemon = "reading" /\ request = NoAsk /\ reply = <<>> /\ out = 0
  /\ outcome = "nothing"

-----------------------------------------------------------------------------
(* handle(): one line of at most MaxRequest tokens is read and answered.    *)

\* What read_line() gives: up to the newline, the limit, or the end of what was
\* sent when the client has closed its side.
Received == FirstLine(Lead(Lead(Wire, sent), MaxRequest))
EndsLine(l) == l # <<>> /\ l[Len(l)] = "NL"
Complete == EndsLine(Received) \/ Len(Received) = MaxRequest \/ client \in {"gone", "no"}

IsLineAny(l) == TRUE
IsLine(l) == EndsLine(l)

ReadLine ==
  /\ daemon = "reading" /\ Complete
  /\ request' = IF IsLine(Received) THEN decode_request(Received) ELSE NoAsk
  /\ daemon' = "deciding"
  /\ UNCHANGED <<clientVars, sent, reply, out, outcome>>

\* No line within 5 s, or not UTF-8: the connection is closed without an answer.
ReadFails ==
  /\ daemon = "reading" /\ daemon' = "closed"
  /\ UNCHANGED <<clientVars, sent, request, reply, out, outcome>>

\* What authenticate() decides is left open here.
Answer(o, l) == outcome' = o /\ reply' = l
Decide ==
  /\ daemon = "deciding" /\ daemon' = "answering"
  /\ \/ request.kind = "AUTH" /\ Answer("granted", <<"OK", "TAB", "text", "NL">>)
     \/ request.kind = "AUTH" /\ Answer("denied", <<"ERR", "TAB", "text", "NL">>)
     \/ request.kind = "PING" /\ Answer("pong", <<"PONG", "NL">>)
     \/ request.kind = "STATUS" /\ Answer("status", <<"STATUS", "TAB", "text", "NL">>)
     \/ request = NoAsk /\ Answer("refused", <<"ERR", "TAB", "text", "NL">>)
  /\ UNCHANGED <<clientVars, sent, request, out>>

WriteReply ==
  /\ daemon = "answering"
  /\ \/ out < Len(reply) /\ out' = out + 1 /\ UNCHANGED daemon
     \/ out = Len(reply) /\ daemon' = "closed" /\ UNCHANGED out
  /\ UNCHANGED <<clientVars, sent, request, reply, outcome>>

\* The client is gone or 5 s have passed; or the daemon is stopped.
DaemonEnds ==
  /\ daemon \in {"deciding", "answering"} /\ daemon' = "closed"
  /\ UNCHANGED <<clientVars, sent, request, reply, out, outcome>>

-----------------------------------------------------------------------------
(* request_auth() and daemon_request().                                     *)

Push ==
  /\ client = "sending"
  /\ \/ sent < Len(Wire) /\ sent' = sent + 1 /\ UNCHANGED client
     \/ sent = Len(Wire) /\ client' = "reading" /\ UNCHANGED sent
  /\ UNCHANGED <<ask, daemon, request, reply, out, outcome>>

\* Success is a line that starts with OK and a tab, also one cut short after it;
\* for setup's probe PONG, with or without its newline.  irauthctl status prints
\* whatever it gets: it knows something when that is a status.
SuccessUnlessError(k, l) == Lead(l, 2) # <<"ERR", "TAB">>
Success(k, l) ==
  \/ k = "AUTH" /\ Lead(l, 2) = <<"OK", "TAB">>
  \/ k = "PING" /\ Lead(l, 1) = <<"PONG">>
  \/ k = "STATUS" /\ Lead(l, 1) = <<"STATUS">>

\* read_line(): to the newline, or to the end.
Hear ==
  LET l == Lead(reply, out)
  IN /\ client = "reading"
     /\ EndsLine(l) \/ daemon = "closed"
     /\ client' = IF Success(ask.kind, l) THEN "yes" ELSE "no"
     /\ UNCHANGED <<ask, sent, daemon, request, reply, out, outcome>>

\* A write fails, or nothing is heard for 35 s; or the client is killed.
GiveUp ==
  /\ client \in {"sending", "reading"} /\ client' \in {"no", "gone"}
  /\ UNCHANGED <<ask, sent, daemon, request, reply, out, outcome>>

Next == \/ ReadLine \/ ReadFails \/ Decide \/ WriteReply \/ DaemonEnds
        \/ Push \/ Hear \/ GiveUp

Spec == Init /\ [][Next]_vars

-----------------------------------------------------------------------------
(* Properties.                                                              *)

\* A client that has given up knows as little as one that was told no.
Told == CASE client \in {"yes", "no"} -> client
          [] client = "gone" -> "no"
          [] client \in {"sending", "reading"} -> "nothing"
Abstract == INSTANCE Exchange
              WITH Requests <- Asks, asked <- ask, done <- outcome, told <- Told

\* A line of which the daemon has only a part is never acted on, however long the
\* client's request and wherever it was cut.
WholeLineOnly ==
  request.kind # "none" =>
    Len(FirstLine(Wire)) <= sent /\ Len(FirstLine(Wire)) <= MaxRequest

\* The daemon acts on what the client asked for, or not at all: on the request's
\* first line, less the carriage returns at its end, in which a tab moves nothing
\* from one field into the other.  The user is the one asked for unless that name
\* has a newline; encode_request() lets one pass and what is before it counts.
Fields == ask.user \o <<"TAB">> \o ask.reason
ActedAsAsked ==
  request.kind # "none" =>
    /\ request.kind = ask.kind
    /\ ask.kind = "AUTH" =>
         /\ request.user \o <<"TAB">> \o request.reason = Trim(FirstLine(Fields))
         /\ (\A i \in DOMAIN ask.user : ask.user[i] # "NL") => request.user = ask.user

\* The protocol implements the exchange that Irauthd is written with: clients
\* are told yes only by a decision on their own request.
IsExchange == Abstract!Spec
=============================================================================
