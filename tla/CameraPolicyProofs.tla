------------------------- MODULE CameraPolicyProofs -------------------------
(***************************************************************************)
(* Proofs about Hardware and CameraPolicy, for any cameras whose place in   *)
(* sysfs is one of the two that CameraAssumption names, and any lists.       *)
(***************************************************************************)
EXTENDS CameraPolicy, FiniteSetTheorems, TLAPS

\* The least element of a set of numbers that has one.
LEMMA LowestIs ==
  ASSUME NEW S, S \subseteq Nat, NEW k \in S, \A j \in S : k <= j
  PROVE  Lowest(S) = k
PROOF
  <1>1. \A i \in S : (\A j \in S : i <= j) => i = k
    OBVIOUS
  <1> QED  BY <1>1 DEF Lowest

\* A camera on USB is known by its own device and its own interface, whatever
\* the directories above them hold: hubs, and the controller.
LEMMA OwnSelector ==
  ASSUME NEW d \in Devices, OnUsb(d)
  PROVE  HasSelector(d.path) /\ Selector(d.path) = <<d.path[2].id, d.path[1].iface>>
PROOF
  <1>1. /\ d.path \in Seq(Levels) /\ Len(d.path) \in Nat /\ Len(d.path) >= 2
        /\ DOMAIN d.path = 1..Len(d.path)
    BY DEF Devices, OnUsb
  <1>2. 1 \in DOMAIN d.path /\ 2 \in DOMAIN d.path
    BY <1>1
  <1>3. IdLevels(d.path) \subseteq Nat /\ 2 \in IdLevels(d.path)
    BY <1>1, <1>2 DEF IdLevels, OnUsb
  <1>4. \A j \in IdLevels(d.path) : 2 <= j
    BY <1>1 DEF IdLevels, OnUsb
  <1>5. Lowest(IdLevels(d.path)) = 2
    BY <1>3, <1>4, LowestIs
  <1>6. /\ InterfaceLevels(d.path) \subseteq Nat /\ 1 \in InterfaceLevels(d.path)
        /\ \A j \in InterfaceLevels(d.path) : 1 <= j
    BY <1>1, <1>2, <1>5 DEF InterfaceLevels, OnUsb
  <1>7. Lowest(InterfaceLevels(d.path)) = 1
    BY <1>6, LowestIs
  <1> QED  BY <1>3, <1>5, <1>6, <1>7 DEF HasSelector, Selector

LEMMA NoSelectorOffUsb ==
  ASSUME NEW d \in Devices, NotOnUsb(d)
  PROVE  ~HasSelector(d.path)
  BY DEF NotOnUsb, HasSelector, InterfaceLevels

\* The evidence for a camera is its own name or its own selector on the list.
LEMMA StrictIsJustified ==
  ASSUME NEW d \in Cameras, NEW l, IsStrict(d, l)
  PROVE  Justified(d, l)
PROOF
  <1>1. d \in Devices /\ (OnUsb(d) \/ NotOnUsb(d))
    BY CameraAssumption
  <1>2. NamesIr(d) \/ NamesDepth(d) \/ IsVerified(d, l)
    BY DEF IsStrict, Evidence
  <1>3. CASE NamesIr(d) \/ NamesDepth(d)
    BY <1>3 DEF NamesIr, NamesDepth, Justified
  <1>4. CASE IsVerified(d, l)
    BY <1>1, <1>4, OwnSelector, NoSelectorOffUsb DEF IsVerified, Justified
  <1> QED  BY <1>2, <1>3, <1>4

-----------------------------------------------------------------------------
LEMMA TypeInit == Init => TypeOK
PROOF
  <1> SUFFICES ASSUME Init PROVE TypeOK
    OBVIOUS
  <1>1. at \in [Actors -> Steps] /\ asks \in [Actors -> Questions]
    BY DEF Init, Steps, Resting, Questions
  <1>2. \A a \in Actors : at[a] = "idle"
    BY DEF Init
  <1>3. /\ path \in [Actors -> Paths \cup {NoPath}] /\ found \in [Actors -> Nodes \cup {NoPath}]
        /\ listed \subseteq Nodes /\ explicit \in Paths \cup {NoPath}
    BY DEF Init
  <1>4. setups \in 0..MaxSetups /\ changes \in 0..MaxChanges
    BY CameraAssumption DEF Init
  <1> QED  BY <1>1, <1>2, <1>3, <1>4 DEF Init, TypeOK

LEMMA TypeStep == TypeOK /\ [Next]_vars => TypeOK'
PROOF
  <1> SUFFICES ASSUME TypeOK, [Next]_vars PROVE TypeOK'
    OBVIOUS
  <1> USE DEF TypeOK
  <1>u. After \in [Questions ->
                    [yes : {"bind", "ok"}, no : {"error", "fallback", "denied"}]]
    BY DEF After, Questions
  <1>s. /\ {"list", "select", "fallback", "bind", "resolve", "probe", "ok", "error", "denied"}
             \subseteq Steps
        /\ "setup" \in Actors /\ "daemon" \in Actors
        /\ Questions = {"explicit", "current", "recheck", "daemon"}
    BY DEF Steps, Resting, Actors, Questions
  <1>1. ASSUME NEW a \in Actors, Resolve(a) PROVE TypeOK'
    <2>1. asks[a] \in Questions /\ After[asks[a]].no \in {"error", "fallback", "denied"}
      BY <1>u
    <2>2. CASE Resolves(path[a]) /\ found' = [found EXCEPT ![a] = Canonical(path[a])]
               /\ Go(a, "probe")
      <3>1. Canonical(path[a]) \in Nodes
        BY <2>2 DEF Resolves, Canonical, Paths
      <3> QED  BY <1>1, <1>s, <2>2, <3>1 DEF Resolve, Go, world, mine, hist
    <2>3. CASE UNCHANGED found /\ (Go(a, After[asks[a]].no) \/ Go(a, "error"))
      <3>1. /\ at' \in [Actors -> Steps] /\ at'[a] # "probe"
            /\ \A b \in Actors : b # a => at'[b] = at[b]
        BY <1>s, <2>1, <2>3 DEF Go
      <3> QED  BY <1>1, <2>3, <3>1 DEF Resolve, world, mine, hist
    <2> QED  BY <1>1, <2>2, <2>3 DEF Resolve
  <1>2. ASSUME NEW a \in Actors, Probe(a) PROVE TypeOK'
    <2>1. /\ asks[a] \in Questions /\ After[asks[a]].yes \in {"bind", "ok"}
          /\ After[asks[a]].no \in {"error", "fallback", "denied"}
      BY <1>u
    <2>2. /\ at' \in [Actors -> Steps] /\ at'[a] # "probe"
          /\ \A b \in Actors : b # a => at'[b] = at[b]
      BY <1>2, <1>s, <2>1 DEF Probe, Go
    <2>3. /\ found' \in [Actors -> Nodes \cup {NoPath}]
          /\ \A b \in Actors : b # a => found'[b] = found[b]
      BY <1>2 DEF Probe
    <2> QED  BY <1>2, <2>2, <2>3 DEF Probe, world, mine, hist
  <1>3. CASE Setup
    <2>1. setups' \in 0..MaxSetups
      BY <1>3, CameraAssumption DEF Setup
    <2>2. at' \in [Actors -> Steps] /\ at'["setup"] # "probe"
          /\ \A b \in Actors : b # "setup" => at'[b] = at[b]
      BY <1>3, <1>s DEF Setup, Go
    <2> QED  BY <1>3, <2>1, <2>2 DEF Setup, world
  <1>4. CASE List
    <2>1. listed' \subseteq Nodes
      BY <1>4 DEF List
    <2>2. at' \in [Actors -> Steps] /\ at'["setup"] # "probe"
          /\ \A b \in Actors : b # "setup" => at'[b] = at[b]
      BY <1>4, <1>s DEF List, Go
    <2> QED  BY <1>4, <2>1, <2>2 DEF List, world, hist
  <1>5. CASE Select
    <2>f. ASSUME Fallback
          PROVE  /\ path' \in [Actors -> Paths \cup {NoPath}] /\ UNCHANGED <<asks, found>>
                 /\ at' \in [Actors -> Steps] /\ at'["setup"] # "probe"
                 /\ \A b \in Actors : b # "setup" => at'[b] = at[b]
      <3>1. CASE Cardinality(listed) = 1
        <4>1. (CHOOSE n \in listed : TRUE) \in Paths \cup {NoPath} \/ listed = {}
          BY DEF Paths
        <4>2. listed # {}
          <5>1. Cardinality({}) = 0
            BY FS_EmptySet
          <5>2. listed = {} => Cardinality(listed) = Cardinality({})
            BY Zenon
          <5> QED  BY <3>1, <5>1, <5>2
        <4> QED  BY <1>s, <2>f, <3>1, <4>1, <4>2 DEF Fallback, Go
      <3>2. CASE Cardinality(listed) # 1
        BY <1>s, <2>f, <3>2 DEF Fallback, Go
      <3> QED  BY <3>1, <3>2
    <2>a. ASSUME NEW q \in Questions, NEW p \in Paths \cup {NoPath}, Ask("setup", q, p)
          PROVE  /\ path' \in [Actors -> Paths \cup {NoPath}]
                 /\ asks' \in [Actors -> Questions] /\ UNCHANGED found
                 /\ at' \in [Actors -> Steps] /\ at'["setup"] # "probe"
                 /\ \A b \in Actors : b # "setup" => at'[b] = at[b]
      BY <1>s, <2>a DEF Ask, Go
    <2>1. CASE Fallback
      BY <1>5, <2>1, <2>f DEF Select, world, mine, hist
    <2>2. CASE Ask("setup", "explicit", explicit) \/ Ask("setup", "current", config)
      <3>1. /\ path' \in [Actors -> Paths \cup {NoPath}]
            /\ asks' \in [Actors -> Questions] /\ UNCHANGED found
            /\ at' \in [Actors -> Steps] /\ at'["setup"] # "probe"
            /\ \A b \in Actors : b # "setup" => at'[b] = at[b]
        BY <1>s, <2>2, <2>a
      <3> QED  BY <1>5, <3>1 DEF Select, world, mine, hist
    <2> QED  BY <1>5, <2>1, <2>2 DEF Select, Choose
  <1>6. CASE Bind
    <2>1. config' \in Paths \cup {NoPath} /\ settled' \in BOOLEAN
      BY <1>6, <1>s DEF Bind
    <2>2. /\ path' \in [Actors -> Paths \cup {NoPath}]
          /\ asks' \in [Actors -> Questions] /\ UNCHANGED found
          /\ at' \in [Actors -> Steps] /\ at'["setup"] # "probe"
          /\ \A b \in Actors : b # "setup" => at'[b] = at[b]
      BY <1>6, <1>s DEF Bind, Recheck, Ask, Go
    <2> QED  BY <1>6, <2>1, <2>2 DEF Bind, world, mine
  <1>7. CASE Check
    <2>1. /\ path' \in [Actors -> Paths \cup {NoPath}]
          /\ asks' \in [Actors -> Questions] /\ UNCHANGED found
          /\ at' \in [Actors -> Steps] /\ at'["daemon"] # "probe"
          /\ \A b \in Actors : b # "daemon" => at'[b] = at[b]
      BY <1>7, <1>s DEF Check, Ask, Go
    <2> QED  BY <1>7, <2>1 DEF Check, world, mine, hist
  <1>8. CASE Change
    <2>1. changes' \in 0..MaxChanges
      BY <1>8, CameraAssumption DEF Change
    <2>2. node' \in [Nodes -> Cameras \cup {Absent}]
      BY <1>8 DEF Change, world
    <2>3. target' \in Nodes \cup {NoPath} /\ ids' \in Lists /\ config' \in Paths \cup {NoPath}
      BY <1>8 DEF Change, world
    <2> QED  BY <1>8, <2>1, <2>2, <2>3 DEF Change, procs, mine
  <1>9. CASE UNCHANGED vars
    BY <1>9 DEF vars, world, procs, mine, hist
  <1> QED  BY <1>1, <1>2, <1>3, <1>4, <1>5, <1>6, <1>7, <1>8, <1>9 DEF Next

\* Every state of the policy in use is well-formed.
THEOREM TypeCorrect == Spec => []TypeOK
  BY TypeInit, TypeStep, PTL DEF Spec

-----------------------------------------------------------------------------
\* A check leaves "probe" for "ok" or "bind" only by looking at the node.
LEMMA AcceptStep ==
  TypeOK /\ [Next]_vars =>
    \A a \in Actors : at[a] = "probe" /\ at'[a] \in {"ok", "bind"} =>
      node[found[a]] \in Cameras /\ Justified(node[found[a]], ids)
PROOF
  <1> SUFFICES ASSUME TypeOK, [Next]_vars, NEW a \in Actors,
                      at[a] = "probe", at'[a] \in {"ok", "bind"}
               PROVE  node[found[a]] \in Cameras /\ Justified(node[found[a]], ids)
    OBVIOUS
  <1>1. Probe(a)
    <2>1. ASSUME NEW b \in Actors, Resolve(b) PROVE FALSE
      BY <2>1 DEF Resolve, Go, TypeOK
    <2>2. ASSUME NEW b \in Actors, Probe(b), b # a PROVE FALSE
      BY <2>2 DEF Probe, Go, TypeOK
    <2>3. CASE Setup \/ List
      BY <2>3 DEF Setup, List, Go, TypeOK, Actors, Resting
    <2>4. CASE Select
      BY <2>4 DEF Select, Choose, Ask, Fallback, Go, TypeOK, Actors
    <2>5. CASE Bind
      BY <2>5 DEF Bind, Recheck, Ask, Go, TypeOK, Actors
    <2>6. CASE Check
      BY <2>6 DEF Check, Ask, Go, TypeOK, Actors, Resting
    <2>7. CASE Change \/ UNCHANGED vars
      BY <2>7 DEF Change, vars, procs
    <2> QED  BY <2>1, <2>2, <2>3, <2>4, <2>5, <2>6, <2>7 DEF Next
  <1>2. StrictNode(found[a])
    <2>1. asks[a] \in Questions /\ After[asks[a]].no \notin {"ok", "bind"}
      BY DEF TypeOK, Questions, After
    <2>2. at'[a] = IF StrictNode(found[a]) THEN After[asks[a]].yes ELSE After[asks[a]].no
      BY <1>1 DEF Probe, Go, TypeOK
    <2> QED  BY <2>1, <2>2
  <1>3. found[a] \in Nodes /\ node[found[a]] \in Cameras
    BY <1>2 DEF TypeOK, StrictNode
  <1> QED  BY <1>2, <1>3, StrictIsJustified DEF StrictNode

\* No check, of setup or of the daemon, ever accepts a camera but for its own
\* name or its own interface on the list of verified ids.
THEOREM AcceptedIsJustified == Spec => AcceptIsJustified
  BY TypeInit, TypeStep, AcceptStep, PTL DEF Spec, AcceptIsJustified

-----------------------------------------------------------------------------
\* Where setup stands as long as nothing has changed: since it bound, and, for a
\* setup without --camera, since it began.
SettledInv ==
  settled =>
    /\ at["setup"] \in {"resolve", "probe", "ok", "error"}
    /\ asks["setup"] = "recheck" /\ path["setup"] = config
    /\ at["setup"] = "probe" => Resolves(config) /\ found["setup"] = Canonical(config)
    /\ at["setup"] = "ok" => Strict(config)
CalmInv ==
  calm /\ explicit = NoPath =>
    /\ at["setup"] \in {"resolve", "probe"} => asks["setup"] \in {"current", "recheck"}
    /\ at["setup"] \in {"resolve", "probe"} => path["setup"] = config
    /\ at["setup"] = "probe" => Resolves(config) /\ found["setup"] = Canonical(config)
    /\ at["setup"] = "fallback" => ~Strict(config)
    /\ at["setup"] = "bind" => path["setup"] = config \/ ~Strict(config)
SetupInv == SettledInv /\ CalmInv

LEMMA SetupInvInit == Init => SetupInv
  BY DEF Init, SetupInv, SettledInv, CalmInv, Actors

\* The daemon's check moves nothing of setup's.
LEMMA DaemonStep ==
  ASSUME TypeOK, SetupInv,
         UNCHANGED <<world, config, listed, explicit, setups, changes, hist>>,
         at'["setup"] = at["setup"], asks'["setup"] = asks["setup"],
         path'["setup"] = path["setup"], found'["setup"] = found["setup"]
  PROVE  SetupInv'
  BY DEF SetupInv, SettledInv, CalmInv, Strict, StrictNode, Resolves, Canonical, world, hist

LEMMA SetupInvStep == TypeOK /\ SetupInv /\ [Next]_vars => SetupInv'
PROOF
  <1> SUFFICES ASSUME TypeOK, SetupInv, [Next]_vars PROVE SetupInv'
    OBVIOUS
  <1>s. "setup" \in Actors /\ "daemon" \in Actors
    BY DEF Actors
  <1>d. ASSUME NEW a \in Actors, a # "setup" PROVE a = "daemon"
    BY <1>d DEF Actors
  <1>w. ASSUME UNCHANGED <<world, config>>
        PROVE  /\ Strict(config)' = Strict(config) /\ Resolves(config)' = Resolves(config)
               /\ Canonical(config)' = Canonical(config)
    BY <1>w DEF Strict, StrictNode, Resolves, Canonical, world
  <1>1. ASSUME NEW a \in Actors, Resolve(a) PROVE SetupInv'
    <2>1. CASE a = "setup"
      <3>1. UNCHANGED <<world, config, asks, path, explicit, calm, settled>>
        BY <1>1 DEF Resolve, mine, hist
      <3>2. CASE Resolves(path[a]) /\ found' = [found EXCEPT ![a] = Canonical(path[a])]
                 /\ Go(a, "probe")
        <4>1. /\ at["setup"] = "resolve" /\ at'["setup"] = "probe"
              /\ found'["setup"] = Canonical(path["setup"]) /\ Resolves(path["setup"])
          BY <1>1, <1>s, <2>1, <3>2 DEF Resolve, Go, TypeOK
        <4> QED  BY <1>w, <3>1, <4>1 DEF SetupInv, SettledInv, CalmInv
      <3>3. CASE ~Resolves(path[a]) /\ Go(a, After[asks[a]].no)
        <4>1. /\ at["setup"] = "resolve" /\ at'["setup"] = After[asks["setup"]].no
              /\ ~Resolves(path["setup"])
          BY <1>1, <1>s, <2>1, <3>3 DEF Resolve, Go, TypeOK
        <4>2. ~Resolves(config) => ~Strict(config)
          BY DEF Strict
        <4> QED  BY <1>w, <3>1, <4>1, <4>2 DEF SetupInv, SettledInv, CalmInv, After
      <3>4. CASE Go(a, "error")
        <4>1. at["setup"] = "resolve" /\ at'["setup"] = "error"
          BY <1>1, <1>s, <2>1, <3>4 DEF Resolve, Go, TypeOK
        <4> QED  BY <1>w, <3>1, <4>1 DEF SetupInv, SettledInv, CalmInv
      <3> QED  BY <1>1, <3>2, <3>3, <3>4 DEF Resolve
    <2>2. CASE a # "setup"
      BY <1>1, <1>s, <1>d, <2>2, DaemonStep DEF Resolve, Go, TypeOK, mine, hist
    <2> QED  BY <2>1, <2>2
  <1>2. ASSUME NEW a \in Actors, Probe(a) PROVE SetupInv'
    <2>1. CASE a = "setup"
      <3>1. UNCHANGED <<world, config, asks, path, explicit, calm, settled>>
        BY <1>2 DEF Probe, mine, hist
      <3>2. /\ at["setup"] = "probe"
            /\ at'["setup"] = IF StrictNode(found["setup"]) THEN After[asks["setup"]].yes
                                                          ELSE After[asks["setup"]].no
        BY <1>2, <1>s, <2>1 DEF Probe, Go, TypeOK
      <3>3. Resolves(config) /\ found["setup"] = Canonical(config) =>
              (Strict(config) <=> StrictNode(found["setup"]))
        BY DEF Strict
      <3> QED  BY <1>w, <3>1, <3>2, <3>3 DEF SetupInv, SettledInv, CalmInv, After
    <2>2. CASE a # "setup"
      BY <1>2, <1>s, <1>d, <2>2, DaemonStep DEF Probe, Go, TypeOK, mine, hist
    <2> QED  BY <2>1, <2>2
  <1>3. CASE Setup
    <2>1. at'["setup"] = "list" /\ settled' = FALSE
      BY <1>3, <1>s DEF Setup, Go, TypeOK
    <2> QED  BY <2>1 DEF SetupInv, SettledInv, CalmInv
  <1>4. CASE List
    <2>1. at["setup"] = "list" /\ at'["setup"] \in {"error", "select"} /\ settled' = settled
      BY <1>4, <1>s DEF List, Go, TypeOK, hist
    <2> QED  BY <2>1 DEF SetupInv, SettledInv, CalmInv
  <1>5. CASE Select
    <2>1. /\ at["setup"] \in {"select", "fallback"} /\ ~settled
          /\ UNCHANGED <<world, config, explicit, calm, settled>>
      BY <1>5 DEF Select, SetupInv, SettledInv, mine, hist
    <2>2. CASE at["setup"] = "select" /\ explicit # NoPath
      BY <2>1, <2>2 DEF SetupInv, SettledInv, CalmInv
    <2>3. CASE explicit = NoPath /\ config # NoPath /\ Ask("setup", "current", config)
      <3>1. /\ at'["setup"] = "resolve" /\ asks'["setup"] = "current"
            /\ path'["setup"] = config
        BY <1>s, <2>3 DEF Ask, Go, TypeOK
      <3> QED  BY <2>1, <3>1 DEF SetupInv, SettledInv, CalmInv
    <2>4. CASE (config = NoPath \/ at["setup"] = "fallback") /\ Fallback
      <3>1. at'["setup"] \in {"bind", "error"}
        BY <1>s, <2>4 DEF Fallback, Go, TypeOK
      <3>2. calm /\ explicit = NoPath => ~Strict(config)
        BY <2>4 DEF SetupInv, CalmInv, Strict, Resolves
      <3> QED  BY <1>w, <2>1, <3>1, <3>2 DEF SetupInv, SettledInv, CalmInv
    <2> QED  BY <1>5, <2>1, <2>2, <2>3, <2>4 DEF Select, Choose
  <1>6. CASE Bind
    <2>1. CASE config' = path["setup"] /\ settled' = TRUE /\ Recheck(path["setup"])
      <3>1. /\ at'["setup"] = "resolve" /\ asks'["setup"] = "recheck"
            /\ path'["setup"] = config'
        BY <1>s, <2>1 DEF Recheck, Ask, Go, TypeOK
      <3> QED  BY <3>1 DEF SetupInv, SettledInv, CalmInv
    <2>2. CASE Go("setup", "error") /\ UNCHANGED <<config, settled, asks, path, found>>
      <3>1. at["setup"] = "bind" /\ at'["setup"] = "error"
        BY <1>6, <1>s, <2>2 DEF Bind, Go, TypeOK
      <3> QED  BY <2>2, <3>1 DEF SetupInv, SettledInv, CalmInv
    <2> QED  BY <1>6, <2>1, <2>2 DEF Bind
  <1>7. CASE Check
    BY <1>7, <1>s, DaemonStep DEF Check, Ask, Go, TypeOK, mine, hist
  <1>8. CASE Change
    BY <1>8 DEF Change, SetupInv, SettledInv, CalmInv
  <1>9. CASE UNCHANGED vars
    BY <1>9, DaemonStep DEF vars, procs, mine, hist
  <1> QED  BY <1>1, <1>2, <1>3, <1>4, <1>5, <1>6, <1>7, <1>8, <1>9 DEF Next

\* cmd_setup()'s second look at the camera: when it goes on, Howdy is bound to a
\* strict one, whatever was unplugged or renumbered before the binding.
THEOREM SetupBindsStrict == Spec => []BoundIsStrict
PROOF
  <1>1. SetupInv => BoundIsStrict
    BY DEF SetupInv, SettledInv, BoundIsStrict
  <1> QED  BY <1>1, TypeInit, TypeStep, SetupInvInit, SetupInvStep, PTL DEF Spec

\* select_camera() without --camera keeps the camera of a working installation.
THEOREM WorkingBindingIsKept == Spec => KeepsWorkingBinding
PROOF
  <1>1. ASSUME TypeOK, SetupInv, [Next]_vars,
               at["setup"] = "bind", at'["setup"] # "bind", config' # config
        PROVE  explicit # NoPath \/ ~calm \/ ~Strict(config)
    <2>1. Bind
      <3>1. ASSUME NEW a \in Actors, Resolve(a) \/ Probe(a) PROVE FALSE
        BY <1>1, <3>1 DEF Resolve, Probe
      <3>2. ~(Setup \/ List \/ Select \/ Check \/ UNCHANGED vars)
        BY <1>1 DEF Setup, List, Select, Check, vars
      <3>3. ~Change
        BY <1>1 DEF Change, procs
      <3> QED  BY <1>1, <3>1, <3>2, <3>3 DEF Next
    <2>2. config' = path["setup"]
      BY <1>1, <2>1 DEF Bind
    <2> QED  BY <1>1, <2>2 DEF SetupInv, CalmInv
  <1>2. TypeOK /\ SetupInv /\ [Next]_vars =>
          (at["setup"] = "bind" /\ at'["setup"] # "bind" /\ config' # config =>
             explicit # NoPath \/ ~calm \/ ~Strict(config))
    BY <1>1
  <1> QED  BY <1>2, TypeInit, TypeStep, SetupInvInit, SetupInvStep, PTL
           DEF Spec, KeepsWorkingBinding
=============================================================================
