----------------------------- MODULE MCProtocol -----------------------------
(* A small instance of Protocol for TLC.                                    *)
EXTENDS Protocol

MCText == {"alice", "al", "ice", "sudo", "su", "do", "a", "b", "c", "d", "e", "f", "x", "y"}

Auth(u, r) == [kind |-> "AUTH", user |-> u, reason |-> r]
Plainly(k) == [NoAsk EXCEPT !.kind = k]

\* Ordinary names; fields with a tab, a newline, an escape, a carriage return, both
\* a tab and a newline, empty or too long ones, and words of the protocol.
Users == {<<"alice">>, <<"al", "TAB", "ice">>, <<>>, <<"PING">>, <<"al", "CR">>,
          <<"alice", "NL">>, <<"alice", "TAB", "x", "NL", "y">>}
Reasons == {<<"sudo">>, <<"su", "TAB", "do">>, <<"sudo", "CR">>, <<"CR">>, <<"ESC">>,
            <<"su", "NL", "do">>, <<"su", "TAB", "do", "NL">>,
            <<"a", "b", "c">>, <<"a", "b", "c", "d", "e", "f">>}
MCAsks == {Auth(u, r) : u \in Users, r \in Reasons} \cup {Plainly("STATUS"), Plainly("PING")}
=============================================================================
