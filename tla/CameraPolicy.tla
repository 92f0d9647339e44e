---------------------------- MODULE CameraPolicy ----------------------------
(***************************************************************************)
(* The hardware policy in use: irauthctl setup chooses a camera and binds   *)
(* Howdy to it, the daemon checks the camera Howdy is configured for at     *)
(* every authentication.  Both ask strict_device_for_path(), which resolves *)
(* the path first and probes the nodes afterwards, while cameras come, go   *)
(* and change numbers, the by-path link moves, and the administrator edits  *)
(* the list of verified ids and Howdy's configuration.                      *)
(***************************************************************************)
EXTENDS Hardware, FiniteSets

CONSTANTS
  Nodes,          \* /dev/videoN
  Link,           \* a link in /dev/v4l/by-path
  NoPath, Absent, \* no path, no camera
  Cameras,        \* the cameras there may be
  Lists,          \* contents of /etc/irauth/hardware.ids
  MaxSetups, MaxChanges   \* bounds

Paths == Nodes \cup {Link}

\* In sysfs a USB camera's "device" is its interface, and the directory above is
\* the device itself.  Other cameras have no interface number on their way up.
OnUsb(d) == /\ Len(d.path) >= 2
            /\ d.path[1].iface # Nothing /\ d.path[1].id = Nothing
            /\ d.path[2].id # Nothing
NotOnUsb(d) == \A k \in DOMAIN d.path : d.path[k].iface = Nothing

ASSUME CameraAssumption ==
  /\ Cameras \subseteq Devices /\ \A d \in Cameras : OnUsb(d) \/ NotOnUsb(d)
  /\ Absent \notin Cameras
  /\ Lists \subseteq SUBSET Selectors
  /\ Link \notin Nodes /\ NoPath \notin Paths
  /\ MaxSetups \in Nat /\ MaxChanges \in Nat

VARIABLES
  node,            \* the camera behind every node
  target,          \* where the link leads
  ids,             \* the verified selectors
  config,          \* Howdy's device_path
  at,              \* where setup and the daemon stand
  asks,            \* the question the check of each of them is about
  path, found,     \* the path it is about, and the node that resolved to
  listed,          \* strict nodes when setup listed them
  explicit,        \* the --camera of this setup
  setups, changes, \* bounds
  calm, settled    \* history: no change since setup began, since it bound

world == <<node, target, ids>>
procs == <<at, asks, path, found>>
mine == <<listed, explicit, setups>>
hist == <<calm, settled>>
vars == <<world, config, procs, mine, changes, hist>>

Actors == {"setup", "daemon"}
Resting == {"idle", "ok", "denied", "error"}
Steps == Resting \cup {"list", "select", "fallback", "bind", "resolve", "probe"}
Questions == {"explicit", "current", "recheck", "daemon"}
\* Where a check leads when the camera is strict, and when it is not.
After == [explicit |-> [yes |-> "bind", no |-> "error"],
          current  |-> [yes |-> "bind", no |-> "fallback"],
          recheck  |-> [yes |-> "ok", no |-> "error"],
          daemon   |-> [yes |-> "ok", no |-> "denied"]]

TypeOK ==
  /\ node \in [Nodes -> Cameras \cup {Absent}]
  /\ target \in Nodes \cup {NoPath} /\ ids \in Lists
  /\ config \in Paths \cup {NoPath}
  /\ at \in [Actors -> Steps]
  /\ asks \in [Actors -> Questions]
  /\ path \in [Actors -> Paths \cup {NoPath}]
  /\ found \in [Actors -> Nodes \cup {NoPath}]
  /\ \A a \in Actors : at[a] = "probe" => found[a] \in Nodes
  /\ listed \subseteq Nodes /\ explicit \in Paths \cup {NoPath}
  /\ setups \in 0..MaxSetups /\ changes \in 0..MaxChanges
  /\ calm \in BOOLEAN /\ settled \in BOOLEAN

Init ==
  /\ node \in [Nodes -> Cameras \cup {Absent}]
  /\ target \in Nodes \cup {NoPath} /\ ids \in Lists
  /\ config \in Paths \cup {NoPath}
  /\ at = [a \in Actors |-> "idle"] /\ asks = [a \in Actors |-> "daemon"]
  /\ path = [a \in Actors |-> NoPath] /\ found = [a \in Actors |-> NoPath]
  /\ listed = {} /\ explicit = NoPath
  /\ setups = 0 /\ changes = 0 /\ calm = TRUE /\ settled = FALSE

Go(a, l) == at' = [at EXCEPT ![a] = l]

\* canonicalize(): the node a path leads to, if there is one.
Canonical(p) == IF p = Link THEN target ELSE p
Resolves(p) == p # NoPath /\ Canonical(p) # NoPath /\ node[Canonical(p)] # Absent
StrictNode(n) == node[n] # Absent /\ IsStrict(node[n], ids)
Strict(p) == Resolves(p) /\ StrictNode(Canonical(p))

-----------------------------------------------------------------------------
(* strict_device_for_path().                                                *)

Ask(a, q, p) ==
  /\ asks' = [asks EXCEPT ![a] = q] /\ path' = [path EXCEPT ![a] = p]
  /\ Go(a, "resolve") /\ UNCHANGED found

\* A path that leads nowhere is not strict.  Another error ends the caller.
Resolve(a) ==
  /\ at[a] = "resolve"
  /\ \/ /\ Resolves(path[a])
        /\ found' = [found EXCEPT ![a] = Canonical(path[a])] /\ Go(a, "probe")
     \/ ~Resolves(path[a]) /\ Go(a, After[asks[a]].no) /\ UNCHANGED found
     \/ Go(a, "error") /\ UNCHANGED found
  /\ UNCHANGED <<world, config, asks, path, mine, changes, hist>>

\* The nodes are probed now, whatever camera they stand for by now.
Probe(a) ==
  /\ at[a] = "probe"
  /\ Go(a, IF StrictNode(found[a]) THEN After[asks[a]].yes ELSE After[asks[a]].no)
  /\ found' = [found EXCEPT ![a] = NoPath]
  /\ UNCHANGED <<world, config, asks, path, mine, changes, hist>>

-----------------------------------------------------------------------------
(* irauthctl setup --camera explicit.                                       *)

Setup ==
  /\ at["setup"] \in Resting /\ setups < MaxSetups
  /\ setups' = setups + 1 /\ Go("setup", "list")
  /\ explicit' \in Paths \cup {NoPath}
  /\ calm' = TRUE /\ settled' = FALSE
  /\ UNCHANGED <<world, config, asks, path, found, listed, changes>>

List ==
  /\ at["setup"] = "list"
  /\ listed' = {n \in Nodes : StrictNode(n)}
  /\ Go("setup", IF listed' = {} THEN "error" ELSE "select")
  /\ UNCHANGED <<world, config, asks, path, found, explicit, setups, changes, hist>>

\* select_camera(): the explicit camera or none; the configured one if it is
\* strict; the only one there is.
Fallback ==
  /\ IF Cardinality(listed) = 1
       THEN /\ path' = [path EXCEPT !["setup"] = CHOOSE n \in listed : TRUE]
            /\ Go("setup", "bind")
       ELSE UNCHANGED path /\ Go("setup", "error")
  /\ UNCHANGED <<asks, found>>

ChooseOnlyOne ==
  \/ explicit # NoPath /\ Ask("setup", "explicit", explicit)
  \/ explicit = NoPath /\ Cardinality(listed) = 1 /\ Fallback
  \/ explicit = NoPath /\ Cardinality(listed) # 1 /\ config # NoPath
     /\ Ask("setup", "current", config)
Choose ==
  \/ explicit # NoPath /\ Ask("setup", "explicit", explicit)
  \/ explicit = NoPath /\ config # NoPath /\ Ask("setup", "current", config)
  \/ explicit = NoPath /\ config = NoPath /\ Fallback

Select ==
  /\ \/ at["setup"] = "select" /\ Choose
     \/ at["setup"] = "fallback" /\ Fallback
  /\ UNCHANGED <<world, config, mine, changes, hist>>

\* The camera is bound, unless Howdy is configured for it already, and then
\* checked once more.  Binding may fail (HowdyConfig).
RecheckSkipped(p) == Go("setup", "ok") /\ UNCHANGED <<asks, path, found>>
Recheck(p) == Ask("setup", "recheck", p)

Bind ==
  /\ at["setup"] = "bind"
  /\ \/ config' = path["setup"] /\ settled' = TRUE /\ Recheck(path["setup"])
     \/ Go("setup", "error") /\ UNCHANGED <<config, settled, asks, path, found>>
  /\ UNCHANGED <<world, mine, changes, calm>>

-----------------------------------------------------------------------------
(* The daemon's check at an authentication; the world.                      *)

Check ==
  /\ at["daemon"] \in Resting
  /\ IF config = NoPath THEN Go("daemon", "denied") /\ UNCHANGED <<asks, path, found>>
                        ELSE Ask("daemon", "daemon", config)
  /\ UNCHANGED <<world, config, mine, changes, hist>>

\* A camera is plugged in, taken away or gets another's number; the link moves;
\* the list or Howdy's configuration is edited.
Change ==
  /\ changes < MaxChanges /\ changes' = changes + 1
  /\ calm' = FALSE /\ settled' = FALSE
  /\ \/ /\ \E n \in Nodes, d \in Cameras \cup {Absent} : node' = [node EXCEPT ![n] = d]
        /\ UNCHANGED <<target, ids, config>>
     \/ target' \in Nodes \cup {NoPath} /\ UNCHANGED <<node, ids, config>>
     \/ ids' \in Lists /\ UNCHANGED <<node, target, config>>
     \/ config' \in Paths \cup {NoPath} /\ UNCHANGED world
  /\ UNCHANGED <<procs, mine>>

Next ==
  \/ \E a \in Actors : Resolve(a) \/ Probe(a)
  \/ Setup \/ List \/ Select \/ Bind \/ Check \/ Change

Spec == Init /\ [][Next]_vars

-----------------------------------------------------------------------------
(* Properties.                                                              *)

\* Every check that says yes does so for a camera with a word for IR or depth in
\* its own name, or one whose own interface of its own device is on the list: a
\* sibling interface of a verified camera, and a camera behind a verified one's
\* hub, are never accepted, whatever was renumbered since the path was resolved.
Justified(d, l) ==
  \/ d.name \cap {"infrared", "ir", "depth", "3d camera"} # {}
  \/ OnUsb(d) /\ <<d.path[2].id, d.path[1].iface>> \in l
AcceptIsJustified ==
  [][\A a \in Actors : at[a] = "probe" /\ at'[a] \in {"ok", "bind"} =>
       node[found[a]] \in Cameras /\ Justified(node[found[a]], ids)]_vars

\* Setup without --camera leaves a strict binding as it is, also when other
\* strict cameras are plugged in, unless something changed while it ran.
KeepsWorkingBinding ==
  [][at["setup"] = "bind" /\ at'["setup"] # "bind" /\ config' # config =>
       explicit # NoPath \/ ~calm \/ ~Strict(config)]_vars

\* When setup goes on to enrolment Howdy is bound to a camera that is strict,
\* unless something changed after the binding: changes before it, since the
\* cameras were listed or the choice was checked, are noticed.
BoundIsStrict == at["setup"] = "ok" /\ settled => Strict(config)
=============================================================================
