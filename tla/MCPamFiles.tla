---------------------------- MODULE MCPamFiles ----------------------------
(* Small instances of PamFiles for TLC.                                     *)
EXTENDS PamFiles, TLC

CONSTANTS sudo, polkit

Cmd(o, t) == [op |-> o, on |-> t]
\* Every command; setup selects both services, the others one.
AllCommands == {Cmd("enable", {sudo}), Cmd("disable", {sudo}), Cmd("disable", {polkit}),
                Cmd("setup", {sudo, polkit}), Cmd("uninstall", {})}
\* An enable, and a setup that migrates both services.
SetupCommands == {Cmd("enable", {sudo}), Cmd("setup", {sudo, polkit})}

\* At most two troubles in one behaviour: errors, kills and edits taken together,
\* an edit not with an error.
TwoTroubles == faults + crashes + edits <= 2 /\ (faults = 0 \/ edits = 0)

ProcSymmetry == Permutations(Procs)
=============================================================================
