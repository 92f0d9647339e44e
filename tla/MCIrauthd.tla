----------------------------- MODULE MCIrauthd -----------------------------
(* Small instances of Irauthd for TLC.                                      *)
EXTENDS Irauthd, TLC

\* Account 0 is root, 1 is alice, 2 is bob.
MCUids  == {0, 1, 2}
MCNames == {"alice", "bob", "mallory", "alice+"}
MCUidOf == [n \in MCNames |-> CASE n = "alice" -> 1
                                [] n = "bob" -> 2
                                [] n = "mallory" -> NoUid
                                [] n = "alice+" -> 1]
MCOdd   == {"alice+"}

Auth(p, n)  == [kind |-> "auth", peer |-> p, user |-> n]
Other(k)    == [kind |-> k, peer |-> 1, user |-> "alice"]

\* Ceremonies by the user, by root for a name that valid_username refuses, across
\* accounts; the lines that ask for none, and one that is not understood.
AllRequests == {Auth(1, "alice"), Auth(0, "alice+"), Auth(1, "bob"),
                Other("ping"), Other("status"), Other("bad")}
\* Two users, each for itself.
OwnRequests == {Auth(1, "alice"), Auth(2, "bob")}

\* Connections and workers are interchangeable (safety runs only).
MCSymmetry == Permutations(Conns) \cup Permutations(Workers)
=============================================================================
