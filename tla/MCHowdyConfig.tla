--------------------------- MODULE MCHowdyConfig ---------------------------
(* Small instances of HowdyConfig for TLC.                                  *)
EXTENDS HowdyConfig, TLC

DeviceSymmetry == Permutations(Devices)
=============================================================================
