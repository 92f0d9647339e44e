------------------------------ MODULE Hardware ------------------------------
(***************************************************************************)
(* The hardware policy: what makes probe_at() accept a video node as an IR  *)
(* or depth camera.  A node's name is the set of words in it that matter; its *)
(* place in sysfs is the sequence of directories from the one its "device"   *)
(* link leads to up to the root, each with the files read there.             *)
(***************************************************************************)
EXTENDS Naturals, Sequences

CONSTANTS
  UsbIds,       \* well-formed vendor:product pairs
  Interfaces,   \* contents of bInterfaceNumber
  Nothing       \* a file that is missing, empty, or not well-formed

ASSUME HardwareAssumption == Nothing \notin UsbIds \cup Interfaces

Levels == [iface : Interfaces \cup {Nothing}, id : UsbIds \cup {Nothing}]
Selectors == UsbIds \X Interfaces

\* Words of a name in lower case; "sirius" only has the letters of "ir".
Words == {"infrared", "ir", "depth", "3d camera", "sirius", "webcam"}
Devices == [name : SUBSET Words, path : Seq(Levels)]

-----------------------------------------------------------------------------
(* find_usb_info(): the walk up from the node's directory.                  *)

Lowest(S) == CHOOSE k \in S : \A j \in S : k <= j

\* Directories with a well-formed vendor and product, and those that the walk
\* has seen up to the first of them with an interface number.
IdLevels(p) == {k \in DOMAIN p : p[k].id # Nothing}
InterfaceLevels(p) == {j \in DOMAIN p : j <= Lowest(IdLevels(p)) /\ p[j].iface # Nothing}

\* The interface nearest to the node and the first device above it: id@interface.
\* Without one of the two there is no selector.
HasSelector(p) == IdLevels(p) # {} /\ InterfaceLevels(p) # {}
Selector(p) == <<p[Lowest(IdLevels(p))].id, p[Lowest(InterfaceLevels(p))].iface>>

-----------------------------------------------------------------------------
(* probe_at(): the evidence, in the order of the code.                      *)

\* An "ir" between other letters is no token.
NamesIrAnywhere(d) == {"infrared", "ir", "sirius"} \cap d.name # {}
NamesIr(d) == {"infrared", "ir"} \cap d.name # {}
NamesDepth(d) == {"depth", "3d camera"} \cap d.name # {}

\* The list of verified selectors; a list that cannot be read is an empty one.
IsVerifiedById(d, verified) ==
  HasSelector(d.path) /\ \E v \in verified : v[1] = Selector(d.path)[1]
IsVerified(d, verified) == HasSelector(d.path) /\ Selector(d.path) \in verified

Evidence(d, verified) ==
  CASE NamesIr(d) -> "IrName"
    [] ~NamesIr(d) /\ NamesDepth(d) -> "DepthName"
    [] ~NamesIr(d) /\ ~NamesDepth(d) /\ IsVerified(d, verified) -> "VerifiedUsbId"
    [] OTHER -> "None"

IsStrict(d, verified) == Evidence(d, verified) # "None"
=============================================================================
