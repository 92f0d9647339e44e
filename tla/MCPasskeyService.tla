-------------------------- MODULE MCPasskeyService --------------------------
(* Small instances of PasskeyService for TLC.                               *)
EXTENDS PasskeyService

Home(t, b, v, k, u) == [tree |-> t, binary |-> b, vault |-> v, sealed |-> k,
                        unit |-> u, marker |-> FALSE]
\* Nothing yet; a software-only vault beside a directory that is no checkout; a
\* working upstream installation, and one whose vault others may read; a vault
\* that is empty, or gone although its key is sealed; a unit of the user's own.
MCHomes == {Home("none", "none", "none", "none", "none"),
            Home("foreign", "user", "private", "none", "none"),
            Home("repo", "user", "private", "private", "none"),
            Home("repo", "user", "open", "private", "none"),
            Home("none", "unsafe", "empty", "none", "none"),
            Home("none", "user", "none", "open", "none"),
            Home("repo", "user", "private", "private", "foreign")}

MCBounds == [commands |-> 3, errors |-> 1, kills |-> 1, logins |-> 1, failures |-> 1]
=============================================================================
