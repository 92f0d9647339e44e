------------------------------ MODULE MCSetup ------------------------------
(* Small instances of Setup for TLC.                                        *)
EXTENDS Setup

CONSTANTS sudo, polkit, ir, rgb

System(f, h, c, s, p) ==
  [foreign |-> f, howdy |-> h, config |-> c, strict |-> s, host |-> p]

\* Howdy in one stack, in both, in none; bound to a strict camera, to another, to
\* none; two strict cameras or none; files of IRAuth's names taken; no TPM.
MCSystems == {System({}, {sudo}, rgb, {ir}, {"howdy"}),
              System({}, {sudo, polkit}, ir, {ir, rgb}, {"howdy", "tpm"}),
              System({}, {}, NoCamera, {ir}, {"howdy", "tpm"}),
              System({"modules"}, {polkit}, NoCamera, {}, {"howdy", "tpm"}),
              System({"howdy"}, {polkit}, rgb, {ir}, {"tpm"}),
              System({"passkey", "unit"}, {sudo}, ir, {ir}, {"howdy"})}

\* Few commands and two accidents, or more commands and one.
MCBounds == {[commands |-> 3, accidents |-> 2], [commands |-> 4, accidents |-> 1]}
=============================================================================
