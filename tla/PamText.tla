------------------------------ MODULE PamText ------------------------------
(***************************************************************************)
(* The line edits irauthctl makes in a PAM stack: pam_enable's insertion,   *)
(* rewrite_direct_howdy_pam, pam_disable's removal of the stanza when there *)
(* is no backup, and the test of refresh_migration_manifest_in.  A stack is *)
(* a sequence of lines, a line is the kind the code's tests put it in.      *)
(* Commands and the administrator's insertions come in any order.           *)
(***************************************************************************)
EXTENDS Naturals, Sequences, SequencesExt, PamStack

CONSTANTS
  Typed,       \* kinds of lines an administrator types
  MaxLines,    \* bound: lines of the first text
  MaxInserts   \* bound: lines typed later

\* Typed lines: the #%PAM header, a password check that must pass, a call of
\* Howdy that starts "auth ", whatever its control is (the edits do not look at it),
\* a sufficient one with another blank after "auth", any other.
TypedKinds == {"header", "password", "howdy", "howdytab", "other"}
\* Lines IRAuth writes: the stanza's two comments, its check (the line is the
\* same in the stanza and in place of Howdy), the marker, a Howdy call as comment.
Kinds == TypedKinds \cup {"begin", "end", "check", "marker", "off"}

ASSUME PamTextAssumption ==
  /\ Typed \subseteq TypedKinds
  /\ MaxLines \in Nat /\ MaxInserts \in Nat

VARIABLES text, inserts
vars == <<text, inserts>>

Init == text \in BoundedSeq(Typed, MaxLines) /\ inserts = 0

Has(t, l) == \E i \in DOMAIN t : t[i] = l
First(t, l) == CHOOSE i \in DOMAIN t : t[i] = l /\ \A j \in 1..(i - 1) : t[j] # l

\* After the first header, or on top when there is none; not twice.
Stanza == <<"begin", "check", "end">>
WithStanza(t) ==
  IF Has(t, "header")
    THEN LET h == First(t, "header")
         IN SubSeq(t, 1, h) \o Stanza \o SubSeq(t, h + 1, Len(t))
    ELSE Stanza \o t
EnabledAgain(t) == WithStanza(t)
Enabled(t) == IF Has(t, "check") THEN t ELSE WithStanza(t)

\* Every direct call becomes a comment under a marker, the first one with the
\* check after it.
CommentedUnchecked(t, i) == <<"marker", "off">>
CommentedDropping(t, i) ==
  IF i = First(t, "howdy") THEN <<"marker", "off", "check">> ELSE <<"marker">>
Commented(t, i) ==
  IF i = First(t, "howdy") THEN <<"marker", "off", "check">> ELSE <<"marker", "off">>
Rewritten(t) ==
  FlattenSeq([i \in DOMAIN t |-> IF t[i] = "howdy" THEN Commented(t, i) ELSE <<t[i]>>])

\* Line i stands after a "begin" that no "end" has followed.
InStanza(t, i) ==
  \E j \in 1..(i - 1) : t[j] = "begin" /\ \A k \in (j + 1)..(i - 1) : t[k] # "end"
DroppedUnended(t, i) == Has(SubSeq(t, 1, i), "begin")
Dropped(t, i) == t[i] \in {"begin", "end"} \/ InStanza(t, i)
Stripped(t) ==
  FlattenSeq([i \in DOMAIN t |-> IF Dropped(t, i) THEN <<>> ELSE <<t[i]>>])

\* The content the manifest looks for.
Marked(t) == Has(t, "marker")

Enable == text' = Enabled(text) /\ UNCHANGED inserts
Migrate == text' = Rewritten(text) /\ UNCHANGED inserts
\* pam_disable of a stack whose backup is gone.
Disable == text' = Stripped(text) /\ UNCHANGED inserts
\* The administrator adds a line, not inside what IRAuth wrote.
Insert ==
  /\ inserts < MaxInserts /\ inserts' = inserts + 1
  /\ \E i \in 1..(Len(text) + 1), l \in Typed :
       /\ ~InStanza(text, i)
       /\ i > 1 => text[i - 1] # "marker"
       /\ text' = SubSeq(text, 1, i - 1) \o <<l>> \o SubSeq(text, i, Len(text))

Next == Enable \/ Migrate \/ Disable \/ Insert

Spec == Init /\ [][Next]_vars

-----------------------------------------------------------------------------
(* Properties.                                                              *)

\* A text consists of known lines, and holds at most one stanza, which is whole:
\* commands repeated in any order neither pile up stanzas nor leave half of one,
\* after which pam_disable would drop the rest of the file.
WellFormed ==
  /\ text \in Seq(Kinds) /\ inserts \in 0..MaxInserts
  /\ \A i, j \in DOMAIN text : text[i] = "begin" /\ text[j] = "begin" => i = j
  /\ \A i \in DOMAIN text : text[i] = "begin" => SubSeq(text, i, i + 2) = Stanza
  /\ \A i \in DOMAIN text : text[i] = "end" => i > 2 /\ text[i - 2] = "begin"

\* The administrator's lines in a text, with the calls IRAuth commented out
\* taken back in.
Own(t) ==
  FlattenSeq([i \in DOMAIN t |-> IF t[i] = "off" THEN <<"howdy">>
                                 ELSE IF t[i] \in TypedKinds THEN <<t[i]>> ELSE <<>>])

\* pam_enable, the migration and pam_disable lose, change and reorder no line
\* of the administrator's, whatever was done to the stack before.
OwnLinesKept == [][Enable \/ Migrate \/ Disable => Own(text') = Own(text)]_vars

\* The stack as PamFiles sees it.
Abs(t) == [base |-> 1,
           howdy |-> Has(t, "howdy"), marked |-> Marked(t),
           inline |-> \E i \in DOMAIN t : t[i] = "check" /\ ~InStanza(t, i),
           stanza |-> \E i \in DOMAIN t : t[i] = "check" /\ InStanza(t, i)]

\* The three edits do to every reachable text what PamFiles says of the stack:
\* enable, rewrite and strip of lines are AddStanza, Rewrite and Strip.
EditsImplementStack ==
  LET x == Abs(text) IN
    /\ Abs(Enabled(text)) = IF Hooked(x) THEN x ELSE AddStanza(x)
    /\ Abs(Rewritten(text)) = IF Direct(x) THEN Rewrite(x) ELSE x
    /\ Abs(Stripped(text)) = Strip(x)

\* The controls of direct calls.  "required" stands for requisite as well; of a
\* bracketed control only what equals one of these is covered.
Controls == {"sufficient", "required", "optional"}
Calls(t) == {i \in DOMAIN t : t[i] = "howdy"}
AllSufficient(t) == [i \in Calls(t) |-> "sufficient"]

\* What PAM makes of line i, c being the controls of the direct calls, for a face
\* that matches or not and a password that is right or not.
Suffices(t, c, i) ==
  t[i] \in {"check", "howdytab"} \/ (t[i] = "howdy" /\ c[i] = "sufficient")
Fails(t, c, i, face, password) ==
  \/ t[i] = "password" /\ ~password
  \/ t[i] = "howdy" /\ c[i] = "required" /\ ~face
Passes(t, c, i, face, password) ==
  \/ t[i] = "password" /\ password
  \/ t[i] = "howdy" /\ c[i] # "sufficient" /\ face

\* A sufficient check passes before anything that must pass has failed; or all that
\* must pass has, and something did.
Decides(t, c, face, password) ==
  \/ /\ face
     /\ \E i \in DOMAIN t : /\ Suffices(t, c, i)
                            /\ \A j \in 1..(i - 1) : ~Fails(t, c, j, face, password)
  \/ /\ \A i \in DOMAIN t : ~Fails(t, c, i, face, password)
     /\ \E i \in DOMAIN t : Passes(t, c, i, face, password)

\* A migration takes every direct call for a sufficient one: afterwards the stack
\* decides as it would with those, so that a failed face check falls through to the
\* same password checks, and nobody who was let in is shut out.  It may let in more:
\* where a required call and a password had both to pass, either is enough now.
MigrationOnlyLoosens ==
  [][Migrate => \A face, password \in BOOLEAN :
       LET now == Decides(text', AllSufficient(text'), face, password)
       IN /\ now = Decides(text, AllSufficient(text), face, password)
          /\ \A c \in [Calls(text) -> Controls] : Decides(text, c, face, password) => now]_vars
=============================================================================
