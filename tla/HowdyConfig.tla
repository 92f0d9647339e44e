---------------------------- MODULE HowdyConfig ----------------------------
(***************************************************************************)
(* Howdy's config.ini as IRAuth reads and changes it: configured_camera and *)
(* its parser, bind_camera with its backup and temporary file, and the      *)
(* restoring of the backup by scripts/uninstall.sh.  One command runs at a  *)
(* time; it may end at any step, the administrator edits at any step, and   *)
(* the daemon reads the file at any step.                                   *)
(*                                                                         *)
(* A line is a section header, a device_path setting, or another line.  A   *)
(* file that is missing reads as an empty one: both have no camera, and     *)
(* bind_camera fails on both.                                               *)
(***************************************************************************)
EXTENDS Naturals, FiniteSets, Sequences, SequencesExt

CONSTANTS
  Devices,    \* camera paths setup may bind
  NoDevice,   \* the value "none"
  NoFile,
  MaxLines,   \* bound: lines of the first config.ini
  MaxStops,   \* bound: commands that end half-way
  MaxEdits    \* bound: edits by the administrator

ASSUME HowdyConfigAssumption ==
  /\ NoDevice \notin Devices
  /\ MaxLines \in Nat /\ MaxStops \in Nat /\ MaxEdits \in Nat

Line(k) == [kind |-> k, device |-> NoDevice]
Path(d) == [kind |-> "path", device |-> d]
\* "[video]", another header, device_path with a value and without one, any other.
Lines == {Line("video"), Line("section"), Line("unset"), Line("other")}
           \cup {Path(d) : d \in Devices \cup {NoDevice}}
Texts == {<<>>} \cup BoundedSeq(Lines, MaxLines)

VARIABLES
  config, bak, tmp,   \* config.ini, its .irauth.bak and .irauth.tmp
  pc, want, seen,     \* the command: its step, the camera to bind, the file read
  orig,               \* history: config.ini when IRAuth first backed it up
  stops, edits        \* counters for the bounds
vars == <<config, bak, tmp, pc, want, seen, orig, stops, edits>>

Header(l) == l.kind \in {"video", "section"}
HasVideo(t) == \E i \in DOMAIN t : t[i].kind = "video"
\* Line i of t, or the place after the last line, stands in a [video] section.
InVideo(t, i) ==
  \E v \in 1..(i - 1) : /\ t[v].kind = "video"
                        /\ \A j \in (v + 1)..(i - 1) : ~Header(t[j])

\* parse_video_device_path: the first device_path with a value counts.
Configured(t) ==
  LET C == {i \in DOMAIN t : InVideo(t, i) /\ t[i].kind = "path"}
  IN IF C = {} THEN NoDevice
     ELSE t[CHOOSE i \in C : \A j \in C : i <= j].device

\* replace_video_device_path: every device_path of a [video] section is set; a
\* first [video] section without one gets one at its end.
Settable(t, i) == InVideo(t, i) /\ t[i].kind \in {"path", "unset"}
SectionEnd(t) ==
  LET v == CHOOSE i \in DOMAIN t : /\ t[i].kind = "video"
                                   /\ \A j \in 1..(i - 1) : t[j].kind # "video"
  IN CHOOSE e \in (v + 1)..(Len(t) + 1) :
       /\ e <= Len(t) => Header(t[e])
       /\ \A j \in (v + 1)..(e - 1) : ~Header(t[j])
BoundAdding(t, d) ==
  SubSeq(t, 1, SectionEnd(t) - 1) \o <<Path(d)>> \o SubSeq(t, SectionEnd(t), Len(t))
BoundAtEnd(t, d) ==
  LET set == [i \in DOMAIN t |-> IF Settable(t, i) THEN Path(d) ELSE t[i]]
  IN IF set # t THEN set ELSE Append(t, Path(d))
Bound(t, d) ==
  LET set == [i \in DOMAIN t |-> IF Settable(t, i) THEN Path(d) ELSE t[i]]
      e == SectionEnd(t)
  IN IF \E i \in 1..(e - 1) : Settable(t, i) THEN set
     ELSE SubSeq(set, 1, e - 1) \o <<Path(d)>> \o SubSeq(set, e, Len(t))

Init ==
  /\ config \in Texts /\ orig = NoFile
  /\ bak = NoFile /\ tmp = NoFile
  /\ pc = "idle" /\ want = NoDevice /\ seen = <<>>
  /\ stops = 0 /\ edits = 0

\* cmd_setup binds only when another camera is configured.  bind_camera reads
\* the file; without a [video] section it fails.
Begin(d) ==
  /\ pc = "idle" /\ Configured(config) # d /\ HasVideo(config)
  /\ want' = d /\ seen' = config /\ pc' = "backup"
  /\ UNCHANGED <<config, bak, tmp, orig, stops, edits>>

\* fs::copy to a backup that does not exist: created, then filled.
NeedsBackupAlways == pc = "backup"
NeedsBackup == bak = NoFile
Backup ==
  /\ pc = "backup"
  /\ \/ NeedsBackup /\ bak' = <<>> /\ pc' = "fill"
     \/ ~NeedsBackup /\ pc' = "write" /\ UNCHANGED bak
  /\ UNCHANGED <<orig, config, tmp, want, seen, stops, edits>>
FillBackup ==
  /\ pc = "fill"
  /\ bak' = config /\ pc' = "write"
  /\ orig' = IF orig = NoFile THEN config ELSE orig
  /\ UNCHANGED <<config, tmp, want, seen, stops, edits>>

\* fs::write of the temporary file: created or emptied, then filled; rename.
TruncateInPlace ==
  /\ pc = "write"
  /\ config' = <<>> /\ tmp' = <<>> /\ pc' = "writing"
  /\ UNCHANGED <<bak, want, seen, orig, stops, edits>>
Truncate ==
  /\ pc = "write"
  /\ tmp' = <<>> /\ pc' = "writing"
  /\ UNCHANGED <<config, bak, want, seen, orig, stops, edits>>
Write ==
  /\ pc = "writing"
  /\ tmp' = Bound(seen, want) /\ pc' = "rename"
  /\ UNCHANGED <<config, bak, want, seen, orig, stops, edits>>
Rename ==
  /\ pc = "rename"
  /\ config' = tmp /\ tmp' = NoFile /\ pc' = "idle"
  /\ UNCHANGED <<bak, want, seen, orig, stops, edits>>

\* uninstall.sh: cp --remove-destination takes the file away and copies the backup.
TakeAway ==
  /\ pc = "idle" /\ bak # NoFile
  /\ config' = <<>> /\ pc' = "putback"
  /\ UNCHANGED <<bak, tmp, want, seen, orig, stops, edits>>
PutBack ==
  /\ pc = "putback"
  /\ config' = bak /\ pc' = "idle"
  /\ UNCHANGED <<bak, tmp, want, seen, orig, stops, edits>>

\* An I/O error, a signal or a power failure ends the command.
Stop ==
  /\ pc # "idle" /\ stops < MaxStops
  /\ pc' = "idle" /\ stops' = stops + 1
  /\ UNCHANGED <<config, bak, tmp, want, seen, orig, edits>>

\* The administrator changes a line.
Edit ==
  /\ edits < MaxEdits /\ edits' = edits + 1
  /\ \E i \in DOMAIN config, l \in Lines : config' = [config EXCEPT ![i] = l]
  /\ UNCHANGED <<bak, tmp, pc, want, seen, orig, stops>>

Next ==
  \/ \E d \in Devices : Begin(d)
  \/ Backup \/ FillBackup \/ Truncate \/ Write \/ Rename
  \/ TakeAway \/ PutBack \/ Stop \/ Edit

Spec == Init /\ [][Next]_vars

-----------------------------------------------------------------------------
(* Properties.                                                              *)

\* The file keeps to known lines and binding adds at most one of them, however
\* often and to whichever camera it is bound (unless the one it set is edited away).
TypeOK ==
  /\ config \in Seq(Lines) /\ Len(config) <= MaxLines + 1 + edits
  /\ bak = NoFile \/ bak \in Seq(Lines)
  /\ tmp = NoFile \/ tmp \in Seq(Lines)
  /\ pc \in {"idle", "backup", "fill", "write", "writing", "rename", "putback"}
  /\ want \in Devices \cup {NoDevice}
  /\ stops \in 0..MaxStops /\ edits \in 0..MaxEdits

\* To the daemon, which may read the file between any two steps, the camera
\* goes from the one configured to the selected one in one step, and to no
\* other: not while the file is written, not when bind_camera ends half-way,
\* and not because the two parsers in the code read a file differently.
CameraMovesToSelected ==
  [][Configured(config') # Configured(config) /\ edits' = edits
       /\ pc \notin {"idle", "putback"}
     => Configured(config') = want]_vars

\* Once bound, the file names the selected camera, and every line that is not a
\* device_path of [video] is as and where it was when bind_camera read it: the
\* first of these lines is still the first, the second the second.
Rank(t, i) == Cardinality({j \in 1..i : ~Settable(t, j)})
Others(t) == {<<Rank(t, i), t[i]>> : i \in {j \in DOMAIN t : ~Settable(t, j)}}
BindKeepsTheRest ==
  [][pc = "rename" /\ pc' = "idle" /\ stops' = stops =>
       Configured(config') = want /\ Others(config') = Others(seen)]_vars

\* Uninstalling gives back config.ini as it was before IRAuth first bound a
\* camera, however often it was bound and edited since, provided that no command
\* ended half-way.
UninstallGivesBack ==
  [][pc = "putback" /\ pc' = "idle" /\ stops' = 0 => config' = orig]_vars
=============================================================================
