------------------------------ MODULE PamStack ------------------------------
(***************************************************************************)
(* What irauthctl's commands tell apart in one PAM stack, and what they     *)
(* make of it.  PamFiles moves these values between files; PamText shows    *)
(* that the line edits of the code do to a stack what is said here.         *)
(***************************************************************************)
EXTENDS Naturals

\* A stack: which edition of the administrator's lines, whether it calls Howdy
\* directly, whether such a call was commented out by IRAuth (the marker line
\* the manifest looks for), whether a check stands in place of one, and whether
\* it has the enable stanza.  Edition 0 is an empty file: no stack begins as one,
\* only a backup that was created and not filled (Torn in PamFiles).
Plain(b, h) == [base |-> b, howdy |-> h, marked |-> FALSE,
                inline |-> FALSE, stanza |-> FALSE]
Empty == Plain(0, FALSE)

\* The file mentions pam_irauth.so.
Hooked(x) == x.inline \/ x.stanza
\* IRAuth left no mark on it.  That is so of an empty file, which is no way back.
Pristine(x) == ~Hooked(x) /\ ~x.marked

\* The migration of setup: whether it finds something to do, and what it does.
DirectUnhooked(x) == x.howdy /\ ~Hooked(x)
Direct(x) == x.howdy
Rewrite(x) == [x EXCEPT !.howdy = FALSE, !.marked = TRUE, !.inline = TRUE]
\* pam enable of a stack that is not hooked, pam disable of one without backup.
AddStanza(x) == [x EXCEPT !.stanza = TRUE]
Strip(x) == [x EXCEPT !.stanza = FALSE]
=============================================================================
