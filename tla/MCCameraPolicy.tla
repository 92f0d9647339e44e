--------------------------- MODULE MCCameraPolicy ---------------------------
(* A small instance of CameraPolicy for TLC.                                *)
EXTENDS CameraPolicy

CONSTANTS video0, video1, combo, hub

Level(i, d) == [iface |-> i, id |-> d]
Usb(words, i, d) ==
  [name |-> words, path |-> <<Level(i, Nothing), Level(Nothing, d), Level(Nothing, hub)>>]

\* A laptop's two-headed camera with its colour and its infrared interface, and
\* a camera that names itself and is not on USB.
MCCameras == {Usb({"sirius"}, "00", combo), Usb({"webcam"}, "02", combo),
              [name |-> {"ir"}, path |-> <<Level(Nothing, Nothing)>>]}

MCLists == {{}, {<<combo, "02">>}}
=============================================================================
