-------------------------- MODULE FleetKeysProofs --------------------------
(***************************************************************************)
(* Proofs about FleetKeys, for any set of devices and any number of root   *)
(* and fleet key generations, filings, acknowledgements and revocations.   *)
(***************************************************************************)
EXTENDS FleetKeys, TLAPS

----------------------------------------------------------------------------
(* What the writes that many handlers share do to a table of grants.       *)

Tables(A, B) == [A -> [B -> Slots]]
Put(F, a, b, c, s) == [F EXCEPT ![a][b][c] = s]

\* Table G is F with s in one slot.
Only(G, F, A, B, a, b, c, s) ==
    /\ G \in Tables(A, B)
    /\ G[a][b][c] = s
    /\ \A x \in A, y \in B, z \in Containers :
          G[x][y][z] = F[x][y][z] \/ (x = a /\ y = b /\ z = c)

\* A grant is filed, acknowledged or revoked: one slot changes.
LEMMA SetSlot ==
  ASSUME NEW A, NEW B, NEW F \in Tables(A, B), NEW a \in A, NEW b \in B,
         NEW c \in Containers, NEW s \in GrantStates
  PROVE  Only(Put(F, a, b, c, s), F, A, B, a, b, c, s)
  <1> DEFINE G == Put(F, a, b, c, s)
  <1> USE DEF Tables, Slots
  <1>1. /\ F[a] \in [B -> Slots] /\ F[a][b] \in Slots
        OBVIOUS
  <1>2. [F[a][b] EXCEPT ![c] = s] \in Slots
        BY <1>1
  <1>3. [F[a] EXCEPT ![b] = [F[a][b] EXCEPT ![c] = s]] \in [B -> Slots]
        BY <1>1, <1>2
  <1>4. G = [F EXCEPT ![a] = [F[a] EXCEPT ![b] = [F[a][b] EXCEPT ![c] = s]]]
        BY DEF Put
  <1> HIDE DEF G
  <1>5. /\ G \in [A -> [B -> Slots]]
        /\ \A x \in A : x # a => G[x] = F[x]
        /\ G[a] = [F[a] EXCEPT ![b] = [F[a][b] EXCEPT ![c] = s]]
        BY <1>3, <1>4
  <1>6. /\ \A y \in B : y # b => G[a][y] = F[a][y]
        /\ G[a][b] = [F[a][b] EXCEPT ![c] = s]
        BY <1>1, <1>5
  <1>7. G[a][b][c] = s /\ \A z \in Containers : z # c => G[a][b][z] = F[a][b][z]
        BY <1>1, <1>6
  <1>8. Only(G, F, A, B, a, b, c, s)
        BY <1>5, <1>6, <1>7 DEF Only
  <1> QED BY <1>8 DEF G

\* The same for root grants.
LEMMA RootSlot ==
  ASSUME TypeOK, NEW g \in RootGens, NEW d \in Devices, NEW c \in Containers,
         NEW s \in {"filed", "acked", "revoked"},
         rootGrant' = [rootGrant EXCEPT ![g][d][c] = s]
  PROVE  Only(rootGrant', rootGrant, RootGens, Devices, g, d, c, s)
  <1>1. rootGrant \in Tables(RootGens, Devices) /\ s \in GrantStates
        BY DEF TypeOK, Tables, GrantStates
  <1>2. rootGrant' = Put(rootGrant, g, d, c, s)
        BY DEF Put
  <1>3. Only(Put(rootGrant, g, d, c, s), rootGrant, RootGens, Devices, g, d, c, s)
        BY <1>1, SetSlot
  <1> QED BY <1>2, <1>3

\* The same for device grants.
LEMMA DevSlot ==
  ASSUME TypeOK, NEW g \in FleetGens, NEW d \in Devices, NEW c \in Containers,
         NEW s \in {"filed", "acked", "revoked"},
         devGrant' = [devGrant EXCEPT ![g][d][c] = s]
  PROVE  Only(devGrant', devGrant, FleetGens, Devices, g, d, c, s)
  <1>1. devGrant \in Tables(FleetGens, Devices) /\ s \in GrantStates
        BY DEF TypeOK, Tables, GrantStates
  <1>2. devGrant' = Put(devGrant, g, d, c, s)
        BY DEF Put
  <1>3. Only(Put(devGrant, g, d, c, s), devGrant, FleetGens, Devices, g, d, c, s)
        BY <1>1, SetSlot
  <1> QED BY <1>2, <1>3

\* The same for recovery grants.
LEMMA RecSlot ==
  ASSUME TypeOK, NEW g \in FleetGens, NEW r \in RootGens, NEW c \in Containers,
         NEW s \in {"filed", "acked", "revoked"},
         recGrant' = [recGrant EXCEPT ![g][r][c] = s]
  PROVE  Only(recGrant', recGrant, FleetGens, RootGens, g, r, c, s)
  <1>1. recGrant \in Tables(FleetGens, RootGens) /\ s \in GrantStates
        BY DEF TypeOK, Tables, GrantStates
  <1>2. recGrant' = Put(recGrant, g, r, c, s)
        BY DEF Put
  <1>3. Only(Put(recGrant, g, r, c, s), recGrant, FleetGens, RootGens, g, r, c, s)
        BY <1>1, SetSlot
  <1> QED BY <1>2, <1>3

\* revoke_everything revokes what was filed for the device and nothing else.
LEMMA RevokeSlots ==
  ASSUME NEW A, NEW B, NEW F \in Tables(A, B), NEW b \in B, NEW G, G = RevokedFor(F, b)
  PROVE  /\ G \in Tables(A, B)
         /\ \A x \in A, y \in B, z \in Containers :
               /\ y # b => G[x][y][z] = F[x][y][z]
               /\ G[x][b][z] \in {"none", "revoked"}
  <1> USE DEF Tables, Slots
  <1> DEFINE Row(x) == [z \in Containers |-> IF F[x][b][z] = "none" THEN "none" ELSE "revoked"]
  <1>1. \A x \in A : Row(x) \in Slots /\ \A z \in Containers : Row(x)[z] \in {"none", "revoked"}
        BY DEF GrantStates
  <1>2. G = [x \in A |-> [F[x] EXCEPT ![b] = Row(x)]]
        BY DEF RevokedFor
  <1> HIDE DEF Row
  <1>3. ASSUME NEW x \in A
        PROVE  /\ G[x] \in [B -> Slots] /\ G[x][b] = Row(x)
               /\ \A y \in B : y # b => G[x][y] = F[x][y]
    <2>1. F[x] \in [B -> Slots] /\ G[x] = [F[x] EXCEPT ![b] = Row(x)]
          BY <1>2
    <2> QED BY <1>1, <2>1
  <1>4. G \in [A -> [B -> Slots]]
        BY <1>2, <1>3
  <1> QED BY <1>1, <1>3, <1>4

----------------------------------------------------------------------------
(* Types.                                                                  *)

\* The tables start empty.
LEMMA InitType == Init => TypeOK
  <1> SUFFICES ASSUME Init PROVE TypeOK
      OBVIOUS
  <1>1. NoGrant \in Slots
        BY DEF NoGrant, Slots, GrantStates
  <1>2. /\ rootGrant \in [RootGens -> [Devices -> Slots]]
        /\ devGrant \in [FleetGens -> [Devices -> Slots]]
        /\ recGrant \in [FleetGens -> [RootGens -> Slots]]
        BY <1>1 DEF Init
  <1> QED BY <1>2 DEF Init, TypeOK, NoRootGen, NoFleetGen, GenStates, GrantStates

\* revoke_fleet_grant revokes a grant that was filed, of any variant.
LEMMA RevokeFleetSlots ==
  ASSUME TypeOK, NEW a, RevokeFleetGrant(a)
  PROVE  /\ devGrant' \in Tables(FleetGens, Devices)
         /\ recGrant' \in Tables(FleetGens, RootGens)
         /\ rotGrant' \in [FleetGens -> GrantStates]
         /\ \A x \in FleetGens, y \in Devices, z \in Containers :
               devGrant'[x][y][z] \in {devGrant[x][y][z], "revoked"}
         /\ \A x \in FleetGens, y \in RootGens, z \in Containers :
               recGrant'[x][y][z] = recGrant[x][y][z] \/ recGrant[x][y][z] # "none"
  <1>1. ASSUME NEW g \in FleetGens, NEW d \in Devices, NEW c \in Containers,
               devGrant' = [devGrant EXCEPT ![g][d][c] = "revoked"],
               UNCHANGED <<recGrant, rotGrant>>
        PROVE  /\ devGrant' \in Tables(FleetGens, Devices)
               /\ \A x \in FleetGens, y \in Devices, z \in Containers :
                     devGrant'[x][y][z] \in {devGrant[x][y][z], "revoked"}
    <2>1. Only(devGrant', devGrant, FleetGens, Devices, g, d, c, "revoked")
          BY <1>1, DevSlot
    <2> QED BY <2>1 DEF Only
  <1>2. ASSUME NEW g \in FleetGens, NEW r \in RootGens, NEW c \in Containers,
               recGrant[g][r][c] \in {"filed", "acked"},
               recGrant' = [recGrant EXCEPT ![g][r][c] = "revoked"]
        PROVE  /\ recGrant' \in Tables(FleetGens, RootGens)
               /\ \A x \in FleetGens, y \in RootGens, z \in Containers :
                     recGrant'[x][y][z] = recGrant[x][y][z] \/ recGrant[x][y][z] # "none"
    <2>1. Only(recGrant', recGrant, FleetGens, RootGens, g, r, c, "revoked")
          BY <1>2, RecSlot
    <2> QED BY <1>2, <2>1 DEF Only
  <1>3. /\ devGrant \in Tables(FleetGens, Devices)
        /\ recGrant \in Tables(FleetGens, RootGens)
        /\ rotGrant \in [FleetGens -> GrantStates]
        BY DEF TypeOK, Tables
  <1>4. CASE \E g \in FleetGens, d \in Devices, c \in Containers :
                /\ devGrant[g][d][c] \in {"filed", "acked"}
                /\ devGrant' = [devGrant EXCEPT ![g][d][c] = "revoked"]
                /\ UNCHANGED <<recGrant, rotGrant>>
        BY <1>1, <1>3, <1>4
  <1>5. CASE \E g \in FleetGens, r \in RootGens, c \in Containers :
                /\ recGrant[g][r][c] \in {"filed", "acked"}
                /\ recGrant' = [recGrant EXCEPT ![g][r][c] = "revoked"]
                /\ UNCHANGED <<devGrant, rotGrant>>
        BY <1>2, <1>3, <1>5
  <1>6. CASE \E g \in FleetGens :
                /\ rotGrant[g] \in {"filed", "acked"}
                /\ rotGrant' = [rotGrant EXCEPT ![g] = "revoked"]
                /\ UNCHANGED <<devGrant, recGrant>>
        BY <1>3, <1>6 DEF GrantStates
  <1> QED BY <1>4, <1>5, <1>6 DEF RevokeFleetGrant

Generations == [FleetGens -> [st : GenStates, need : SUBSET Devices,
                              root : RootGens \cup {NoRoot}, by : Devices \cup {None}]]

\* An activation keeps the shape of the generations.
LEMMA ActivatedTypes ==
  ASSUME TypeOK
  PROVE  /\ \A g \in RootGens :
              RootActivated(g) \in [RootGens -> [st : GenStates, need : SUBSET Devices]]
         /\ \A g \in FleetGens : FleetActivated(g) \in Generations
  <1>1. "ACTIVE" \in GenStates /\ "RETIRED" \in GenStates
        BY DEF GenStates
  <1>2. ASSUME NEW g \in RootGens
        PROVE  RootActivated(g) \in [RootGens -> [st : GenStates, need : SUBSET Devices]]
    <2>1. ASSUME NEW h \in RootGens
          PROVE  RootActivated(g)[h] \in [st : GenStates, need : SUBSET Devices]
      <3>1. root[h] \in [st : GenStates, need : SUBSET Devices]
            BY DEF TypeOK
      <3>2. /\ [root[h] EXCEPT !.st = "ACTIVE"] \in [st : GenStates, need : SUBSET Devices]
            /\ [root[h] EXCEPT !.st = "RETIRED"] \in [st : GenStates, need : SUBSET Devices]
            BY <1>1, <3>1
      <3> QED BY <3>1, <3>2 DEF RootActivated
    <2> QED BY <2>1 DEF RootActivated
  <1>3. ASSUME NEW g \in FleetGens PROVE FleetActivated(g) \in Generations
        BY <1>1, ZenonT(60) DEF FleetActivated, TypeOK, Generations
  <1> QED BY <1>2, <1>3

\* Every handler keeps the shape of its tables.
LEMMA NextType == TypeOK /\ [Next]_vars => TypeOK'
  <1> SUFFICES ASSUME TypeOK, [Next]_vars PROVE TypeOK'
      OBVIOUS
  <1> USE DEF TypeOK
  <1>1. CASE Cancel
        BY <1>1 DEF Cancel, boot, trust, roots, fleets
  <1>2. ASSUME NEW a \in Devices, EnrollDevice(a) PROVE TypeOK'
        BY <1>2 DEF EnrollDevice, boot, trust, roots, fleets
  <1>3. ASSUME NEW a \in Devices, SignIn(a) PROVE TypeOK'
    <2>1. ClassOf(a) \in {"none", "pending_setup", "root_setup", "ordinary"}
          BY DEF ClassOf
    <2> QED BY <1>3, <2>1 DEF SignIn, boot, trust, roots, fleets
  <1>4. ASSUME NEW a \in Devices, Confirm(a) PROVE TypeOK'
        BY <1>4 DEF Confirm, boot, trust, roots, fleets
  <1>5. ASSUME NEW a \in Devices, FirstApproval(a) PROVE TypeOK'
        BY <1>5 DEF FirstApproval, Scopes, boot, trust, roots, fleets
  <1>6. ASSUME NEW a \in Devices, BootstrapRoot(a) PROVE TypeOK'
    <2>1. "filed" \in GrantStates /\ "required" \in Containers /\ 0 \in RootGens
          BY BoundsAssumption DEF GrantStates, Containers, RootGens
    <2>2. rootGrant' \in Tables(RootGens, Devices)
          BY <1>6, <2>1, RootSlot DEF BootstrapRoot, Only
    <2>3. root' \in [RootGens -> [st : GenStates, need : SUBSET Devices]]
          BY <1>6, <2>1 DEF BootstrapRoot, GenStates
    <2> QED BY <1>6, <2>2, <2>3 DEF BootstrapRoot, Tables, boot, trust, roots, fleets
  <1>7. ASSUME NEW a \in Devices, RevokeFleetGrant(a) PROVE TypeOK'
    <2>1. /\ devGrant' \in Tables(FleetGens, Devices)
          /\ recGrant' \in Tables(FleetGens, RootGens)
          /\ rotGrant' \in [FleetGens -> GrantStates]
          BY <1>7, RevokeFleetSlots
    <2> QED BY <1>7, <2>1 DEF RevokeFleetGrant, Tables, boot, trust, roots, fleets
  <1>8. ASSUME NEW a \in Devices, NEW need \in SUBSET Devices,
               RotateRoot(a, need)
        PROVE  TypeOK'
        BY <1>8 DEF RotateRoot, GenStates, boot, trust, roots, fleets
  <1>9. ASSUME NEW a \in Devices, NEW need \in SUBSET Devices, NEW g \in FleetGens,
               CreateFleetGeneration(a, g, need)
        PROVE  TypeOK'
        BY <1>9 DEF CreateFleetGeneration, GenStates, boot, trust, roots, fleets
  <1>10. ASSUME NEW a \in Devices, NEW g \in RootGens,
               ActivateRoot(a, g)
        PROVE  TypeOK'
    <2>1. RootActivated(g) \in [RootGens -> [st : GenStates, need : SUBSET Devices]]
          BY ActivatedTypes
    <2> QED BY <1>10, <2>1 DEF ActivateRoot, boot, trust, roots, fleets
  <1>11. ASSUME NEW a \in Devices, NEW g \in FleetGens,
               FileRotationGrant(a, g)
        PROVE  TypeOK'
        BY <1>11 DEF FileRotationGrant, GrantStates, boot, trust, roots, fleets
  <1>12. ASSUME NEW a \in Devices, NEW g \in FleetGens,
               AckRotationGrant(a, g)
        PROVE  TypeOK'
        BY <1>12 DEF AckRotationGrant, GrantStates, boot, trust, roots, fleets
  <1>13. ASSUME NEW a \in Devices, NEW g \in FleetGens,
               ActivateFleet(a, g)
        PROVE  TypeOK'
    <2>1. fleet' \in Generations
          BY <1>13, ActivatedTypes DEF ActivateFleet
    <2> QED BY <1>13, <2>1 DEF ActivateFleet, Generations, boot, trust, roots, fleets
  <1>14. ASSUME NEW a \in Devices, NEW g \in RootGens, NEW c \in Containers,
               AckRootGrant(a, g, c)
        PROVE  TypeOK'
    <2>1. rootGrant' \in Tables(RootGens, Devices)
          BY <1>14, RootSlot DEF AckRootGrant, Only
    <2> QED BY <1>14, <2>1 DEF AckRootGrant, Tables, boot, trust, roots, fleets
  <1>15. ASSUME NEW a \in Devices, NEW g \in FleetGens, NEW c \in Containers,
               AckDeviceGrant(a, g, c)
        PROVE  TypeOK'
    <2>1. devGrant' \in Tables(FleetGens, Devices)
          BY <1>15, DevSlot DEF AckDeviceGrant, Only
    <2> QED BY <1>15, <2>1 DEF AckDeviceGrant, Tables, boot, trust, roots, fleets
  <1>16. ASSUME NEW a \in Devices, NEW g \in FleetGens, NEW r \in RootGens, NEW c \in Containers,
               FileRecoveryGrant(a, g, r, c)
        PROVE  TypeOK'
    <2>1. recGrant' \in Tables(FleetGens, RootGens)
          BY <1>16, RecSlot DEF FileRecoveryGrant, Only
    <2> QED BY <1>16, <2>1 DEF FileRecoveryGrant, Tables, boot, trust, roots, fleets
  <1>17. ASSUME NEW a \in Devices, NEW g \in FleetGens, NEW r \in RootGens, NEW c \in Containers,
               AckRecoveryGrant(a, g, r, c)
        PROVE  TypeOK'
    <2>1. recGrant' \in Tables(FleetGens, RootGens)
          BY <1>17, RecSlot DEF AckRecoveryGrant, Only
    <2> QED BY <1>17, <2>1 DEF AckRecoveryGrant, Tables, boot, trust, roots, fleets
  <1>18. ASSUME NEW a \in Devices, NEW d \in Devices, NEW scope \in Scopes,
               OrdinaryApproval(a, d, scope)
        PROVE  TypeOK'
        BY <1>18 DEF OrdinaryApproval, boot, trust, roots, fleets
  <1>19. ASSUME NEW a \in Devices, NEW d \in Devices, NEW ks \in Filings,
               FileCapabilityGrant(a, d, ks)
        PROVE  TypeOK'
        BY <1>19, BoundsAssumption DEF FileCapabilityGrant, boot, trust, roots, fleets
  <1>20. ASSUME NEW a \in Devices, NEW d \in Devices, NEW g \in RootGens, NEW c \in Containers,
               FileRootGrant(a, d, g, c)
        PROVE  TypeOK'
    <2>1. rootGrant' \in Tables(RootGens, Devices)
          BY <1>20, RootSlot DEF FileRootGrant, Only
    <2> QED BY <1>20, <2>1 DEF FileRootGrant, Tables, boot, trust, roots, fleets
  <1>21. ASSUME NEW a \in Devices, NEW d \in Devices, NEW g \in RootGens, NEW c \in Containers,
               RevokeRootGrant(a, d, g, c)
        PROVE  TypeOK'
    <2>1. rootGrant' \in Tables(RootGens, Devices)
          BY <1>21, RootSlot DEF RevokeRootGrant, Only
    <2> QED BY <1>21, <2>1 DEF RevokeRootGrant, Tables, boot, trust, roots, fleets
  <1>22. ASSUME NEW a \in Devices, NEW d \in Devices, NEW g \in FleetGens, NEW c \in Containers,
               FileDeviceGrant(a, d, g, c)
        PROVE  TypeOK'
    <2>1. devGrant' \in Tables(FleetGens, Devices)
          BY <1>22, DevSlot DEF FileDeviceGrant, Only
    <2> QED BY <1>22, <2>1 DEF FileDeviceGrant, Tables, boot, trust, roots, fleets
  <1>23. ASSUME NEW a \in Devices, NEW d \in Devices,
               RevokeDevice(a, d)
        PROVE  TypeOK'
    <2>1. /\ rootGrant' \in Tables(RootGens, Devices)
          /\ devGrant' \in Tables(FleetGens, Devices)
          BY <1>23, RevokeSlots DEF RevokeDevice, RevokeEverything, Tables
    <2>2. /\ root' \in [RootGens -> [st : GenStates, need : SUBSET Devices]]
          /\ active' \in RootGens \cup {NoRoot}
          /\ fleet' \in Generations
          BY <1>23, ActivatedTypes DEF RevokeDevice, CarriedActivation, Generations
    <2>3. /\ dev' \in [Devices -> {"none", "pending", "active", "revoked"}]
          /\ sess' \in [Devices -> {"none", "pending_setup", "root_setup", "ordinary"}]
          /\ appr' \in [Devices -> SUBSET Scopes]
          /\ caps' \in [Devices -> SUBSET (Capabilities \X Scopes)]
          BY <1>23 DEF RevokeDevice, RevokeEverything
    <2>4. UNCHANGED <<guard, conf, recGrant, rotGrant>>
          BY <1>23 DEF RevokeDevice, boot
    <2> QED BY <2>1, <2>2, <2>3, <2>4 DEF Tables, Generations
  <1>24. CASE UNCHANGED vars
        BY <1>24 DEF vars, boot, trust, roots, fleets
  <1> QED BY <1>1, <1>2, <1>3, <1>4, <1>5, <1>6, <1>7, <1>8, <1>9, <1>10, <1>11,
         <1>12, <1>13, <1>14, <1>15, <1>16, <1>17, <1>18, <1>19, <1>20, <1>21, <1>22,
         <1>23, <1>24 DEF Next, ByDevice, OnDevice

----------------------------------------------------------------------------
(* Holdings.                                                               *)

\* What revoke_everything leaves of the two tables of grants to devices.
LEMMA RevokedTables ==
  ASSUME TypeOK, NEW d \in Devices, RevokeEverything(d)
  PROVE  /\ \A x \in RootGens, y \in Devices, z \in Containers :
               /\ y # d => rootGrant'[x][y][z] = rootGrant[x][y][z]
               /\ rootGrant'[x][d][z] \in {"none", "revoked"}
         /\ \A x \in FleetGens, y \in Devices, z \in Containers :
               /\ y # d => devGrant'[x][y][z] = devGrant[x][y][z]
               /\ devGrant'[x][d][z] \in {"none", "revoked"}
  <1>1. /\ rootGrant \in Tables(RootGens, Devices)
        /\ devGrant \in Tables(FleetGens, Devices)
        BY DEF TypeOK, Tables
  <1>2. rootGrant' = RevokedFor(rootGrant, d) /\ devGrant' = RevokedFor(devGrant, d)
        BY DEF RevokeEverything
  <1> QED BY <1>1, <1>2, RevokeSlots

\* Nobody holds anything at the start.
LEMMA InitBacked == Init => HoldingsAreBacked
  BY DEF Init, HoldingsAreBacked, NoGrant

\* Filing checks the subject, and whoever stops being a subject loses all of it.
LEMMA NextBacked == TypeOK /\ HoldingsAreBacked /\ [Next]_vars => HoldingsAreBacked'
  <1> SUFFICES ASSUME TypeOK, HoldingsAreBacked, [Next]_vars PROVE HoldingsAreBacked'
      OBVIOUS
  <1> USE DEF TypeOK, HoldingsAreBacked
  <1>1. CASE Cancel
        BY <1>1 DEF Cancel, boot, trust, roots, fleets
  <1>2. ASSUME NEW a \in Devices, EnrollDevice(a) PROVE HoldingsAreBacked'
    <2>1. dev[a] = "none" /\ \A e \in Devices : dev'[e] = IF e = a THEN "pending" ELSE dev[e]
          BY <1>2 DEF EnrollDevice
    <2> QED BY <1>2, <2>1 DEF EnrollDevice, roots, fleets
  <1>3. ASSUME NEW a \in Devices, SignIn(a) PROVE HoldingsAreBacked'
    <2>1. dev[a] \in {"pending", "active"}
          BY <1>3 DEF SignIn, ClassOf
    <2>2. \A e \in Devices : sess'[e] # "none" => sess[e] # "none" \/ e = a
          BY <1>3 DEF SignIn
    <2> QED BY <1>3, <2>1, <2>2 DEF SignIn, boot, roots, fleets
  <1>4. ASSUME NEW a \in Devices, Confirm(a) PROVE HoldingsAreBacked'
        BY <1>4 DEF Confirm, boot, trust, roots, fleets
  <1>5. ASSUME NEW a \in Devices, FirstApproval(a) PROVE HoldingsAreBacked'
    <2>1. dev[a] = "pending" /\ \A e \in Devices : dev'[e] = IF e = a THEN "active" ELSE dev[e]
          BY <1>5 DEF FirstApproval
    <2>2. \A e \in Devices : e # a => appr'[e] = appr[e] /\ sess'[e] = sess[e]
          BY <1>5 DEF FirstApproval
    <2>3. UNCHANGED <<caps, rootGrant, devGrant>>
          BY <1>5 DEF FirstApproval, roots, fleets
    <2> HIDE DEF TypeOK
    <2> QED BY <2>1, <2>2, <2>3
  <1>6. ASSUME NEW a \in Devices, BootstrapRoot(a) PROVE HoldingsAreBacked'
    <2>1. dev[a] = "active" /\ "tenant" \in appr[a]
          BY <1>6 DEF BootstrapRoot, Live, D1Live
    <2>2. Only(rootGrant', rootGrant, RootGens, Devices, 0, a, "required", "filed")
      <3>1. 0 \in RootGens /\ "required" \in Containers
            BY BoundsAssumption DEF RootGens, Containers
      <3> QED BY <1>6, <3>1, RootSlot DEF BootstrapRoot
    <2> QED BY <1>6, <2>1, <2>2 DEF BootstrapRoot, Only, trust, fleets
  <1>7. ASSUME NEW a \in Devices, RevokeFleetGrant(a) PROVE HoldingsAreBacked'
    <2>1. \A x \in FleetGens, y \in Devices, z \in Containers :
             devGrant'[x][y][z] \in {devGrant[x][y][z], "revoked"}
          BY <1>7, RevokeFleetSlots
    <2> QED BY <1>7, <2>1 DEF RevokeFleetGrant, trust, roots
  <1>8. ASSUME NEW a \in Devices, NEW need \in SUBSET Devices,
               RotateRoot(a, need)
        PROVE  HoldingsAreBacked'
        BY <1>8 DEF RotateRoot, boot, trust, roots, fleets
  <1>9. ASSUME NEW a \in Devices, NEW need \in SUBSET Devices, NEW g \in FleetGens,
               CreateFleetGeneration(a, g, need)
        PROVE  HoldingsAreBacked'
        BY <1>9 DEF CreateFleetGeneration, boot, trust, roots, fleets
  <1>10. ASSUME NEW a \in Devices, NEW g \in RootGens,
               ActivateRoot(a, g)
        PROVE  HoldingsAreBacked'
        BY <1>10 DEF ActivateRoot, boot, trust, roots, fleets
  <1>11. ASSUME NEW a \in Devices, NEW g \in FleetGens,
               FileRotationGrant(a, g)
        PROVE  HoldingsAreBacked'
        BY <1>11 DEF FileRotationGrant, boot, trust, roots, fleets
  <1>12. ASSUME NEW a \in Devices, NEW g \in FleetGens,
               AckRotationGrant(a, g)
        PROVE  HoldingsAreBacked'
        BY <1>12 DEF AckRotationGrant, boot, trust, roots, fleets
  <1>13. ASSUME NEW a \in Devices, NEW g \in FleetGens,
               ActivateFleet(a, g)
        PROVE  HoldingsAreBacked'
        BY <1>13 DEF ActivateFleet, boot, trust, roots, fleets
  <1>14. ASSUME NEW a \in Devices, NEW g \in RootGens, NEW c \in Containers,
               AckRootGrant(a, g, c)
        PROVE  HoldingsAreBacked'
    <2>1. Only(rootGrant', rootGrant, RootGens, Devices, g, a, c, "acked")
          BY <1>14, RootSlot DEF AckRootGrant
    <2> QED BY <1>14, <2>1 DEF AckRootGrant, Only, trust, fleets
  <1>15. ASSUME NEW a \in Devices, NEW g \in FleetGens, NEW c \in Containers,
               AckDeviceGrant(a, g, c)
        PROVE  HoldingsAreBacked'
    <2>1. Only(devGrant', devGrant, FleetGens, Devices, g, a, c, "acked")
          BY <1>15, DevSlot DEF AckDeviceGrant
    <2> QED BY <1>15, <2>1 DEF AckDeviceGrant, Only, trust, roots
  <1>16. ASSUME NEW a \in Devices, NEW g \in FleetGens, NEW r \in RootGens, NEW c \in Containers,
               FileRecoveryGrant(a, g, r, c)
        PROVE  HoldingsAreBacked'
        BY <1>16 DEF FileRecoveryGrant, boot, trust, roots, fleets
  <1>17. ASSUME NEW a \in Devices, NEW g \in FleetGens, NEW r \in RootGens, NEW c \in Containers,
               AckRecoveryGrant(a, g, r, c)
        PROVE  HoldingsAreBacked'
        BY <1>17 DEF AckRecoveryGrant, boot, trust, roots, fleets
  <1>18. ASSUME NEW a \in Devices, NEW d \in Devices, NEW scope \in Scopes,
               OrdinaryApproval(a, d, scope)
        PROVE  HoldingsAreBacked'
    <2>1. \A e \in Devices : dev'[e] = IF e = d THEN "active" ELSE dev[e]
          BY <1>18 DEF OrdinaryApproval
    <2>2. \A e \in Devices : appr[e] \subseteq appr'[e] /\ (e # d => sess'[e] = sess[e])
          BY <1>18 DEF OrdinaryApproval
    <2>3. UNCHANGED <<caps, rootGrant, devGrant>>
          BY <1>18 DEF OrdinaryApproval, roots, fleets
    <2> HIDE DEF TypeOK
    <2> QED BY <2>1, <2>2, <2>3
  <1>19. ASSUME NEW a \in Devices, NEW d \in Devices, NEW ks \in Filings,
               FileCapabilityGrant(a, d, ks)
        PROVE  HoldingsAreBacked'
    <2>1. dev[d] = "active" /\ \A e \in Devices : e # d => caps'[e] = caps[e]
          BY <1>19 DEF FileCapabilityGrant, SubjectIsLive
    <2> QED BY <1>19, <2>1 DEF FileCapabilityGrant, roots, fleets
  <1>20. ASSUME NEW a \in Devices, NEW d \in Devices, NEW g \in RootGens, NEW c \in Containers,
               FileRootGrant(a, d, g, c)
        PROVE  HoldingsAreBacked'
    <2>1. Only(rootGrant', rootGrant, RootGens, Devices, g, d, c, "filed")
          BY <1>20, RootSlot DEF FileRootGrant
    <2> QED BY <1>20, <2>1 DEF FileRootGrant, RootEligible, Only, trust, fleets
  <1>21. ASSUME NEW a \in Devices, NEW d \in Devices, NEW g \in RootGens, NEW c \in Containers,
               RevokeRootGrant(a, d, g, c)
        PROVE  HoldingsAreBacked'
    <2>1. Only(rootGrant', rootGrant, RootGens, Devices, g, d, c, "revoked")
          BY <1>21, RootSlot DEF RevokeRootGrant
    <2>2. \A e \in Devices : sess'[e] \in {sess[e], "none"}
          BY <1>21 DEF RevokeRootGrant
    <2> QED BY <1>21, <2>1, <2>2 DEF RevokeRootGrant, Only, fleets
  <1>22. ASSUME NEW a \in Devices, NEW d \in Devices, NEW g \in FleetGens, NEW c \in Containers,
               FileDeviceGrant(a, d, g, c)
        PROVE  HoldingsAreBacked'
    <2>1. Only(devGrant', devGrant, FleetGens, Devices, g, d, c, "filed")
          BY <1>22, DevSlot DEF FileDeviceGrant
    <2> QED BY <1>22, <2>1 DEF FileDeviceGrant, FleetEligible, Only, trust, roots
  <1>23. ASSUME NEW a \in Devices, NEW d \in Devices,
               RevokeDevice(a, d)
        PROVE  HoldingsAreBacked'
    <2>1. /\ \A x \in RootGens, y \in Devices, z \in Containers :
                /\ y # d => rootGrant'[x][y][z] = rootGrant[x][y][z]
                /\ rootGrant'[x][d][z] \in {"none", "revoked"}
          /\ \A x \in FleetGens, y \in Devices, z \in Containers :
                /\ y # d => devGrant'[x][y][z] = devGrant[x][y][z]
                /\ devGrant'[x][d][z] \in {"none", "revoked"}
          BY <1>23, RevokedTables DEF RevokeDevice
    <2>2. /\ \A e \in Devices : e # d => /\ dev'[e] = dev[e] /\ sess'[e] = sess[e]
                                         /\ appr'[e] = appr[e] /\ caps'[e] = caps[e]
          /\ sess'[d] = "none" /\ caps'[d] = {}
          BY <1>23 DEF RevokeDevice, RevokeEverything
    <2> HIDE DEF TypeOK
    <2> QED BY <2>1, <2>2
  <1>24. CASE UNCHANGED vars
        BY <1>24 DEF vars, boot, trust, roots, fleets
  <1> QED BY <1>1, <1>2, <1>3, <1>4, <1>5, <1>6, <1>7, <1>8, <1>9, <1>10, <1>11,
         <1>12, <1>13, <1>14, <1>15, <1>16, <1>17, <1>18, <1>19, <1>20, <1>21, <1>22,
         <1>23, <1>24 DEF Next, ByDevice, OnDevice

----------------------------------------------------------------------------
(* Custody.                                                                *)

\* RootHasCustodian without the operators of the handlers: the root the pointer
\* names is ACTIVE and some active device has an acknowledged grant of it.
RootKept ==
    active # NoRoot =>
      /\ root[active].st = "ACTIVE"
      /\ \E d \in Devices, c \in Containers :
            dev[d] = "active" /\ rootGrant[active][d][c] = "acked"

\* Which is what RootHasCustodian says.
LEMMA KeptHasCustodian == TypeOK /\ RootKept => RootHasCustodian
  <1> SUFFICES ASSUME TypeOK, RootKept, active # NoRoot PROVE \E d \in Devices : Custodian(d)
      BY DEF RootHasCustodian
  <1>1. active \in RootGens /\ ActiveRoot(active)
        BY DEF TypeOK, RootKept, ActiveRoot
  <1>2. PICK d \in Devices : ConfersCustody(active, d)
        BY DEF RootKept, ConfersCustody
  <1> QED BY <1>1, <1>2 DEF Custodian

\* A root that is activated is ACTIVE.
LEMMA ActivatedState ==
  ASSUME TypeOK, NEW g \in RootGens
  PROVE  RootActivated(g)[g].st = "ACTIVE"
  <1>1. root[g] \in [st : GenStates, need : SUBSET Devices]
        BY DEF TypeOK
  <1> QED BY <1>1 DEF RootActivated

\* There is no root at the start.
LEMMA InitKept == Init => RootKept
  BY DEF Init, RootKept

\* No handler leaves the ACTIVE root without a custodian.
LEMMA NextKept == TypeOK /\ HoldingsAreBacked /\ RootKept /\ [Next]_vars => RootKept'
  <1> SUFFICES ASSUME TypeOK, HoldingsAreBacked, RootKept, [Next]_vars PROVE RootKept'
      OBVIOUS
  <1> USE DEF TypeOK, RootKept
  <1>k. ASSUME active' = active,
               active # NoRoot => root'[active] = root[active],
               \A e \in Devices : dev[e] = "active" => dev'[e] = "active",
               \A e \in Devices, z \in Containers :
                  active # NoRoot /\ rootGrant[active][e][z] = "acked"
                     => rootGrant'[active][e][z] = "acked"
        PROVE  RootKept'
        BY <1>k
  <1>1. CASE Cancel
    <2>1. UNCHANGED <<dev, root, active, rootGrant>>
          BY <1>1 DEF Cancel, boot, trust, roots, fleets
    <2> QED BY <2>1, <1>k
  <1>2. ASSUME NEW a \in Devices, EnrollDevice(a) PROVE RootKept'
    <2>1. \A e \in Devices : dev[e] = "active" => dev'[e] = "active"
          BY <1>2 DEF EnrollDevice
    <2>2. UNCHANGED <<root, active, rootGrant>>
          BY <1>2 DEF EnrollDevice, roots
    <2> QED BY <2>1, <2>2, <1>k
  <1>3. ASSUME NEW a \in Devices, SignIn(a) PROVE RootKept'
    <2>1. UNCHANGED <<dev, root, active, rootGrant>>
          BY <1>3 DEF SignIn, boot, trust, roots, fleets
    <2> QED BY <2>1, <1>k
  <1>4. ASSUME NEW a \in Devices, Confirm(a) PROVE RootKept'
    <2>1. UNCHANGED <<dev, root, active, rootGrant>>
          BY <1>4 DEF Confirm, boot, trust, roots, fleets
    <2> QED BY <2>1, <1>k
  <1>5. ASSUME NEW a \in Devices, FirstApproval(a) PROVE RootKept'
    <2>1. \A e \in Devices : dev[e] = "active" => dev'[e] = "active"
          BY <1>5 DEF FirstApproval
    <2>2. UNCHANGED <<root, active, rootGrant>>
          BY <1>5 DEF FirstApproval, roots
    <2> QED BY <2>1, <2>2, <1>k
  <1>6. ASSUME NEW a \in Devices, BootstrapRoot(a) PROVE RootKept'
    <2>1. active = NoRoot /\ active' = NoRoot
          BY <1>6, BoundsAssumption DEF BootstrapRoot
    <2> QED BY <2>1
  <1>7. ASSUME NEW a \in Devices, RevokeFleetGrant(a) PROVE RootKept'
    <2>1. UNCHANGED <<dev, root, active, rootGrant>>
          BY <1>7 DEF RevokeFleetGrant, boot, trust, roots, fleets
    <2> QED BY <2>1, <1>k
  <1>8. ASSUME NEW a \in Devices, NEW need \in SUBSET Devices,
               RotateRoot(a, need)
        PROVE  RootKept'
    <2>1. UNCHANGED <<dev, active, rootGrant>>
          BY <1>8 DEF RotateRoot, trust
    <2>2. active # active + 1
          BY DEF RootGens, NoRoot
    <2>3. active # NoRoot => root'[active] = root[active]
          BY <1>8, <2>2 DEF RotateRoot
    <2> QED BY <2>1, <2>3, <1>k
  <1>9. ASSUME NEW a \in Devices, NEW need \in SUBSET Devices, NEW g \in FleetGens,
               CreateFleetGeneration(a, g, need)
        PROVE  RootKept'
    <2>1. UNCHANGED <<dev, root, active, rootGrant>>
          BY <1>9 DEF CreateFleetGeneration, boot, trust, roots, fleets
    <2> QED BY <2>1, <1>k
  <1>10. ASSUME NEW a \in Devices, NEW g \in RootGens,
               ActivateRoot(a, g)
        PROVE  RootKept'
    <2>1. /\ RootActivates(a, g) /\ root' = RootActivated(g) /\ active' = g
          /\ UNCHANGED <<dev, rootGrant>>
          BY <1>10 DEF ActivateRoot, trust
    <2>2. root'[g].st = "ACTIVE"
          BY <2>1, ActivatedState
    <2>3. PICK c \in Containers : rootGrant[g][a][c] = "acked"
          BY <2>1 DEF RootActivates
    <2>4. dev[a] = "active"
          BY <2>3 DEF HoldingsAreBacked
    <2> QED BY <2>1, <2>2, <2>3, <2>4
  <1>11. ASSUME NEW a \in Devices, NEW g \in FleetGens,
               FileRotationGrant(a, g)
        PROVE  RootKept'
    <2>1. UNCHANGED <<dev, root, active, rootGrant>>
          BY <1>11 DEF FileRotationGrant, boot, trust, roots, fleets
    <2> QED BY <2>1, <1>k
  <1>12. ASSUME NEW a \in Devices, NEW g \in FleetGens,
               AckRotationGrant(a, g)
        PROVE  RootKept'
    <2>1. UNCHANGED <<dev, root, active, rootGrant>>
          BY <1>12 DEF AckRotationGrant, boot, trust, roots, fleets
    <2> QED BY <2>1, <1>k
  <1>13. ASSUME NEW a \in Devices, NEW g \in FleetGens,
               ActivateFleet(a, g)
        PROVE  RootKept'
    <2>1. UNCHANGED <<dev, root, active, rootGrant>>
          BY <1>13 DEF ActivateFleet, boot, trust, roots, fleets
    <2> QED BY <2>1, <1>k
  <1>14. ASSUME NEW a \in Devices, NEW g \in RootGens, NEW c \in Containers,
               AckRootGrant(a, g, c)
        PROVE  RootKept'
    <2>1. Only(rootGrant', rootGrant, RootGens, Devices, g, a, c, "acked")
          BY <1>14, RootSlot DEF AckRootGrant
    <2>2. \A e \in Devices, z \in Containers :
             active # NoRoot /\ rootGrant[active][e][z] = "acked"
                => rootGrant'[active][e][z] = "acked"
          BY <1>14, <2>1 DEF AckRootGrant, Only
    <2>3. UNCHANGED <<dev, root, active>>
          BY <1>14 DEF AckRootGrant, trust
    <2> QED BY <2>2, <2>3, <1>k
  <1>15. ASSUME NEW a \in Devices, NEW g \in FleetGens, NEW c \in Containers,
               AckDeviceGrant(a, g, c)
        PROVE  RootKept'
    <2>1. UNCHANGED <<dev, root, active, rootGrant>>
          BY <1>15 DEF AckDeviceGrant, boot, trust, roots, fleets
    <2> QED BY <2>1, <1>k
  <1>16. ASSUME NEW a \in Devices, NEW g \in FleetGens, NEW r \in RootGens, NEW c \in Containers,
               FileRecoveryGrant(a, g, r, c)
        PROVE  RootKept'
    <2>1. UNCHANGED <<dev, root, active, rootGrant>>
          BY <1>16 DEF FileRecoveryGrant, boot, trust, roots, fleets
    <2> QED BY <2>1, <1>k
  <1>17. ASSUME NEW a \in Devices, NEW g \in FleetGens, NEW r \in RootGens, NEW c \in Containers,
               AckRecoveryGrant(a, g, r, c)
        PROVE  RootKept'
    <2>1. UNCHANGED <<dev, root, active, rootGrant>>
          BY <1>17 DEF AckRecoveryGrant, boot, trust, roots, fleets
    <2> QED BY <2>1, <1>k
  <1>18. ASSUME NEW a \in Devices, NEW d \in Devices, NEW scope \in Scopes,
               OrdinaryApproval(a, d, scope)
        PROVE  RootKept'
    <2>1. \A e \in Devices : dev[e] = "active" => dev'[e] = "active"
          BY <1>18 DEF OrdinaryApproval
    <2>2. UNCHANGED <<root, active, rootGrant>>
          BY <1>18 DEF OrdinaryApproval, roots
    <2> QED BY <2>1, <2>2, <1>k
  <1>19. ASSUME NEW a \in Devices, NEW d \in Devices, NEW ks \in Filings,
               FileCapabilityGrant(a, d, ks)
        PROVE  RootKept'
    <2>1. UNCHANGED <<dev, root, active, rootGrant>>
          BY <1>19 DEF FileCapabilityGrant, boot, trust, roots, fleets
    <2> QED BY <2>1, <1>k
  <1>20. ASSUME NEW a \in Devices, NEW d \in Devices, NEW g \in RootGens, NEW c \in Containers,
               FileRootGrant(a, d, g, c)
        PROVE  RootKept'
    <2>1. Only(rootGrant', rootGrant, RootGens, Devices, g, d, c, "filed")
          BY <1>20, RootSlot DEF FileRootGrant
    <2>2. \A e \in Devices, z \in Containers :
             active # NoRoot /\ rootGrant[active][e][z] = "acked"
                => rootGrant'[active][e][z] = "acked"
          BY <1>20, <2>1 DEF FileRootGrant, Only
    <2>3. UNCHANGED <<dev, root, active>>
          BY <1>20 DEF FileRootGrant, trust
    <2> QED BY <2>2, <2>3, <1>k
  <1>21. ASSUME NEW a \in Devices, NEW d \in Devices, NEW g \in RootGens, NEW c \in Containers,
               RevokeRootGrant(a, d, g, c)
        PROVE  RootKept'
    <2>1. Only(rootGrant', rootGrant, RootGens, Devices, g, d, c, "revoked")
          BY <1>21, RootSlot DEF RevokeRootGrant
    <2>2. UNCHANGED <<dev, root, active>>
          BY <1>21 DEF RevokeRootGrant
    <2>3. CASE g = active /\ rootGrant[g][d][c] = "acked"
      <3>1. root[g].st = "ACTIVE"
            BY <2>3, BoundsAssumption DEF RootGens, NoRoot
      <3>2. PICK e \in Devices, b \in Containers :
               <<e, b>> # <<d, c>> /\ rootGrant[g][e][b] = "acked" /\ dev[e] = "active"
            BY <1>21, <2>3, <3>1 DEF RevokeRootGrant, AnotherCustodian
      <3>3. rootGrant'[g][e][b] = "acked"
            BY <2>1, <3>2 DEF Only
      <3> QED BY <2>2, <2>3, <3>1, <3>2, <3>3
    <2>4. CASE ~(g = active /\ rootGrant[g][d][c] = "acked")
      <3>1. \A e \in Devices, z \in Containers :
               active # NoRoot /\ rootGrant[active][e][z] = "acked"
                => rootGrant'[active][e][z] = "acked"
            BY <2>1, <2>4 DEF Only
      <3> QED BY <2>2, <3>1, <1>k
    <2> QED BY <2>3, <2>4
  <1>22. ASSUME NEW a \in Devices, NEW d \in Devices, NEW g \in FleetGens, NEW c \in Containers,
               FileDeviceGrant(a, d, g, c)
        PROVE  RootKept'
    <2>1. UNCHANGED <<dev, root, active, rootGrant>>
          BY <1>22 DEF FileDeviceGrant, boot, trust, roots, fleets
    <2> QED BY <2>1, <1>k
  <1>23. ASSUME NEW a \in Devices, NEW d \in Devices,
               RevokeDevice(a, d)
        PROVE  RootKept'
    <2>1. /\ \A x \in RootGens, y \in Devices, z \in Containers :
                y # d => rootGrant'[x][y][z] = rootGrant[x][y][z]
          /\ \A e \in Devices : e # d => dev'[e] = dev[e]
      <3>1. RevokeEverything(d)
            BY <1>23 DEF RevokeDevice
      <3>2. \A e \in Devices : e # d => dev'[e] = dev[e]
            BY <3>1 DEF RevokeEverything
      <3> QED BY <3>1, <3>2, RevokedTables
    <2>2. active' # NoRoot => active' \in RootGens /\ root'[active'].st = "ACTIVE"
      <3>1. CASE UNCHANGED <<root, active>>
            BY <3>1
      <3>2. ASSUME NEW g \in RootGens, RootActivates(a, g), root' = RootActivated(g), active' = g
            PROVE  active' \in RootGens /\ root'[active'].st = "ACTIVE"
            BY <3>2, ActivatedState
      <3> QED BY <1>23, <3>1, <3>2 DEF RevokeDevice, CarriedActivation
    <2>3. PICK e \in Devices \ {d} : ConfersCustody(active', e)
          BY <1>23 DEF RevokeDevice, CustodianBesides
    <2>4. PICK c \in Containers : dev[e] = "active" /\ rootGrant[active'][e][c] = "acked"
          BY <2>3 DEF ConfersCustody
    <2>5. ASSUME active' # NoRoot
          PROVE  dev'[e] = "active" /\ rootGrant'[active'][e][c] = "acked"
          BY <2>1, <2>2, <2>4, <2>5
    <2> HIDE DEF TypeOK
    <2> QED BY <2>2, <2>5
  <1>24. CASE UNCHANGED vars
    <2>1. UNCHANGED <<dev, root, active, rootGrant>>
          BY <1>24 DEF vars, boot, trust, roots, fleets
    <2> QED BY <2>1, <1>k
  <1> QED BY <1>1, <1>2, <1>3, <1>4, <1>5, <1>6, <1>7, <1>8, <1>9, <1>10, <1>11,
         <1>12, <1>13, <1>14, <1>15, <1>16, <1>17, <1>18, <1>19, <1>20, <1>21, <1>22,
         <1>23, <1>24 DEF Next, ByDevice, OnDevice

----------------------------------------------------------------------------
(* Fleet keys and the root they are wrapped under.                         *)

\* A generation that does not exist has no recovery grant.
Unborn ==
    \A g \in FleetGens : fleet[g].st = "none" =>
        \A r \in RootGens, c \in Containers : recGrant[g][r][c] = "none"

WrapInv == PreparingUnderActiveRoot /\ Unborn

\* While a fleet key is PREPARING no root can be activated: its recovery grants
\* are all under the ACTIVE one, and a new root needs one under itself.
LEMMA NonePreparing ==
  ASSUME PreparingUnderActiveRoot, NEW a, NEW g \in RootGens, RootActivates(a, g),
         NEW f \in FleetGens
  PROVE  fleet[f].st # "PREPARING"
  <1> SUFFICES ASSUME fleet[f].st = "PREPARING" PROVE FALSE
      OBVIOUS
  <1>1. PICK c \in Containers : recGrant[f][g][c] = "acked"
        BY DEF RootActivates, FleetKeysWrappedUnder
  <1>2. ActiveRoot(g)
        BY <1>1 DEF PreparingUnderActiveRoot
  <1> QED BY <1>2 DEF RootActivates, ActiveRoot

\* There is no generation at the start.
LEMMA InitWrap == Init => WrapInv
  BY DEF Init, WrapInv, PreparingUnderActiveRoot, Unborn, NoFleetGen, NoGrant

\* Roots and fleet keys rotate around each other without a stale wrap.
LEMMA NextWrap == TypeOK /\ WrapInv /\ [Next]_vars => WrapInv'
  <1> SUFFICES ASSUME TypeOK, WrapInv, [Next]_vars PROVE WrapInv'
      OBVIOUS
  <1> USE DEF TypeOK, WrapInv, PreparingUnderActiveRoot, Unborn, ActiveRoot
  <1>k. ASSUME UNCHANGED <<active, fleet>>,
               active \in RootGens /\ root[active].st = "ACTIVE" => root'[active].st = "ACTIVE",
               \A x \in FleetGens, y \in RootGens, z \in Containers :
                  recGrant'[x][y][z] # "none" => recGrant[x][y][z] # "none"
        PROVE  WrapInv'
    <2> HIDE DEF TypeOK
    <2> QED BY <1>k
  <1>f. ASSUME NEW g \in FleetGens, fleet' = FleetActivated(g),
               fleet[g].st = "PREPARING", g > 0 => fleet[g - 1].st = "ACTIVE",
               UNCHANGED <<root, active, recGrant>>
        PROVE  WrapInv'
    <2>1. ASSUME NEW f \in FleetGens
          PROVE  \/ fleet'[f] = fleet[f]
                 \/ fleet'[f].st \in {"ACTIVE", "RETIRED"}
      <3>1. fleet[f] \in [st : GenStates, need : SUBSET Devices,
                          root : RootGens \cup {NoRoot}, by : Devices \cup {None}]
            OBVIOUS
      <3> QED BY <1>f, <3>1 DEF FleetActivated
    <2> HIDE DEF TypeOK
    <2> QED BY <1>f, <2>1
  <1>1. CASE Cancel
    <2>1. UNCHANGED <<root, active, fleet, recGrant>>
          BY <1>1 DEF Cancel, boot, trust, roots, fleets
    <2> QED BY <2>1, <1>k
  <1>2. ASSUME NEW a \in Devices, EnrollDevice(a) PROVE WrapInv'
    <2>1. UNCHANGED <<root, active, fleet, recGrant>>
          BY <1>2 DEF EnrollDevice, boot, trust, roots, fleets
    <2> QED BY <2>1, <1>k
  <1>3. ASSUME NEW a \in Devices, SignIn(a) PROVE WrapInv'
    <2>1. UNCHANGED <<root, active, fleet, recGrant>>
          BY <1>3 DEF SignIn, boot, trust, roots, fleets
    <2> QED BY <2>1, <1>k
  <1>4. ASSUME NEW a \in Devices, Confirm(a) PROVE WrapInv'
    <2>1. UNCHANGED <<root, active, fleet, recGrant>>
          BY <1>4 DEF Confirm, boot, trust, roots, fleets
    <2> QED BY <2>1, <1>k
  <1>5. ASSUME NEW a \in Devices, FirstApproval(a) PROVE WrapInv'
    <2>1. UNCHANGED <<root, active, fleet, recGrant>>
          BY <1>5 DEF FirstApproval, boot, trust, roots, fleets
    <2> QED BY <2>1, <1>k
  <1>6. ASSUME NEW a \in Devices, BootstrapRoot(a) PROVE WrapInv'
    <2>1. UNCHANGED <<active, fleet, recGrant>>
          BY <1>6 DEF BootstrapRoot, fleets
    <2>2. \A r \in RootGens : root[r].st # "ACTIVE"
          BY <1>6 DEF BootstrapRoot
    <2> QED BY <2>1, <2>2, <1>k
  <1>7. ASSUME NEW a \in Devices, RevokeFleetGrant(a) PROVE WrapInv'
    <2>1. \A x \in FleetGens, y \in RootGens, z \in Containers :
             recGrant'[x][y][z] = recGrant[x][y][z] \/ recGrant[x][y][z] # "none"
          BY <1>7, RevokeFleetSlots
    <2>2. UNCHANGED <<root, active, fleet>>
          BY <1>7 DEF RevokeFleetGrant, roots
    <2> QED BY <2>1, <2>2, <1>k
  <1>8. ASSUME NEW a \in Devices, NEW need \in SUBSET Devices,
               RotateRoot(a, need)
        PROVE  WrapInv'
    <2>1. UNCHANGED <<active, fleet, recGrant>>
          BY <1>8 DEF RotateRoot, fleets
    <2>2. active # active + 1
          BY DEF RootGens, NoRoot
    <2>3. active \in RootGens => root'[active] = root[active]
          BY <1>8, <2>2 DEF RotateRoot
    <2> QED BY <2>1, <2>3, <1>k
  <1>9. ASSUME NEW a \in Devices, NEW need \in SUBSET Devices, NEW g \in FleetGens,
               CreateFleetGeneration(a, g, need)
        PROVE  WrapInv'
    <2>1. UNCHANGED <<root, active, recGrant>>
          BY <1>9 DEF CreateFleetGeneration, roots
    <2>2. fleet[g].st = "none"
          BY <1>9 DEF CreateFleetGeneration, MayCreateFleet
    <2>3. /\ fleet'[g].st = "PREPARING" /\ fleet'[g].root = active
          /\ \A f \in FleetGens : f # g => fleet'[f] = fleet[f]
          BY <1>9 DEF CreateFleetGeneration
    <2> HIDE DEF TypeOK
    <2> QED BY <2>1, <2>2, <2>3
  <1>10. ASSUME NEW a \in Devices, NEW g \in RootGens,
               ActivateRoot(a, g)
        PROVE  WrapInv'
    <2>1. /\ RootActivates(a, g)
          /\ UNCHANGED <<fleet, recGrant>>
          BY <1>10 DEF ActivateRoot, fleets
    <2>2. \A f \in FleetGens : fleet[f].st # "PREPARING"
          BY <2>1, NonePreparing
    <2> QED BY <2>1, <2>2
  <1>11. ASSUME NEW a \in Devices, NEW g \in FleetGens,
               FileRotationGrant(a, g)
        PROVE  WrapInv'
    <2>1. UNCHANGED <<root, active, fleet, recGrant>>
          BY <1>11 DEF FileRotationGrant, boot, trust, roots, fleets
    <2> QED BY <2>1, <1>k
  <1>12. ASSUME NEW a \in Devices, NEW g \in FleetGens,
               AckRotationGrant(a, g)
        PROVE  WrapInv'
    <2>1. UNCHANGED <<root, active, fleet, recGrant>>
          BY <1>12 DEF AckRotationGrant, boot, trust, roots, fleets
    <2> QED BY <2>1, <1>k
  <1>13. ASSUME NEW a \in Devices, NEW g \in FleetGens,
               ActivateFleet(a, g)
        PROVE  WrapInv'
    <2>1. /\ fleet' = FleetActivated(g)
          /\ UNCHANGED <<root, active, recGrant>>
          BY <1>13 DEF ActivateFleet, roots
    <2>2. fleet[g].st = "PREPARING" /\ (g > 0 => fleet[g - 1].st = "ACTIVE")
          BY <1>13 DEF ActivateFleet, FleetActivates
    <2> QED BY <2>1, <2>2, <1>f
  <1>14. ASSUME NEW a \in Devices, NEW g \in RootGens, NEW c \in Containers,
               AckRootGrant(a, g, c)
        PROVE  WrapInv'
    <2>1. UNCHANGED <<root, active, fleet, recGrant>>
          BY <1>14 DEF AckRootGrant, boot, trust, roots, fleets
    <2> QED BY <2>1, <1>k
  <1>15. ASSUME NEW a \in Devices, NEW g \in FleetGens, NEW c \in Containers,
               AckDeviceGrant(a, g, c)
        PROVE  WrapInv'
    <2>1. UNCHANGED <<root, active, fleet, recGrant>>
          BY <1>15 DEF AckDeviceGrant, boot, trust, roots, fleets
    <2> QED BY <2>1, <1>k
  <1>16. ASSUME NEW a \in Devices, NEW g \in FleetGens, NEW r \in RootGens, NEW c \in Containers,
               FileRecoveryGrant(a, g, r, c)
        PROVE  WrapInv'
    <2>1. Only(recGrant', recGrant, FleetGens, RootGens, g, r, c, "filed")
          BY <1>16, RecSlot DEF FileRecoveryGrant
    <2>2. UNCHANGED <<root, active, fleet>>
          BY <1>16 DEF FileRecoveryGrant, roots
    <2>3. fleet[g].st # "none" /\ (fleet[g].st = "PREPARING" => ActiveRoot(r))
          BY <1>16 DEF FileRecoveryGrant
    <2>4. \A x \in FleetGens, y \in RootGens, z \in Containers :
             recGrant'[x][y][z] # "none" => recGrant[x][y][z] # "none" \/ (x = g /\ y = r)
          BY <2>1 DEF Only
    <2> HIDE DEF TypeOK
    <2>5. ASSUME NEW x \in FleetGens, fleet'[x].st = "PREPARING",
                 NEW y \in RootGens, NEW z \in Containers, recGrant'[x][y][z] # "none"
          PROVE  ActiveRoot(y)'
          BY <2>2, <2>3, <2>4, <2>5
    <2>6. PreparingUnderActiveRoot'
          BY <2>2, <2>5
    <2>7. Unborn'
          BY <2>2, <2>3, <2>4
    <2> QED BY <2>6, <2>7
  <1>17. ASSUME NEW a \in Devices, NEW g \in FleetGens, NEW r \in RootGens, NEW c \in Containers,
               AckRecoveryGrant(a, g, r, c)
        PROVE  WrapInv'
    <2>1. /\ Only(recGrant', recGrant, FleetGens, RootGens, g, r, c, "acked")
          /\ recGrant[g][r][c] # "none"
          BY <1>17, RecSlot DEF AckRecoveryGrant
    <2>2. UNCHANGED <<root, active, fleet>>
          BY <1>17 DEF AckRecoveryGrant, roots
    <2>3. \A x \in FleetGens, y \in RootGens, z \in Containers :
             recGrant'[x][y][z] # "none" => recGrant[x][y][z] # "none"
          BY <2>1, SMTT(40) DEF Only
    <2> QED BY <2>2, <2>3, <1>k
  <1>18. ASSUME NEW a \in Devices, NEW d \in Devices, NEW scope \in Scopes,
               OrdinaryApproval(a, d, scope)
        PROVE  WrapInv'
    <2>1. UNCHANGED <<root, active, fleet, recGrant>>
          BY <1>18 DEF OrdinaryApproval, boot, trust, roots, fleets
    <2> QED BY <2>1, <1>k
  <1>19. ASSUME NEW a \in Devices, NEW d \in Devices, NEW ks \in Filings,
               FileCapabilityGrant(a, d, ks)
        PROVE  WrapInv'
    <2>1. UNCHANGED <<root, active, fleet, recGrant>>
          BY <1>19 DEF FileCapabilityGrant, boot, trust, roots, fleets
    <2> QED BY <2>1, <1>k
  <1>20. ASSUME NEW a \in Devices, NEW d \in Devices, NEW g \in RootGens, NEW c \in Containers,
               FileRootGrant(a, d, g, c)
        PROVE  WrapInv'
    <2>1. UNCHANGED <<root, active, fleet, recGrant>>
          BY <1>20 DEF FileRootGrant, boot, trust, roots, fleets
    <2> QED BY <2>1, <1>k
  <1>21. ASSUME NEW a \in Devices, NEW d \in Devices, NEW g \in RootGens, NEW c \in Containers,
               RevokeRootGrant(a, d, g, c)
        PROVE  WrapInv'
    <2>1. UNCHANGED <<root, active, fleet, recGrant>>
          BY <1>21 DEF RevokeRootGrant, boot, trust, roots, fleets
    <2> QED BY <2>1, <1>k
  <1>22. ASSUME NEW a \in Devices, NEW d \in Devices, NEW g \in FleetGens, NEW c \in Containers,
               FileDeviceGrant(a, d, g, c)
        PROVE  WrapInv'
    <2>1. UNCHANGED <<root, active, fleet, recGrant>>
          BY <1>22 DEF FileDeviceGrant, boot, trust, roots, fleets
    <2> QED BY <2>1, <1>k
  <1>23. ASSUME NEW a \in Devices, NEW d \in Devices,
               RevokeDevice(a, d)
        PROVE  WrapInv'
    <2>1. recGrant' = recGrant
          BY <1>23 DEF RevokeDevice
    <2>2. CASE UNCHANGED <<root, active, fleet>>
          BY <2>1, <2>2, <1>k
    <2>3. ASSUME NEW g \in RootGens, RootActivates(a, g), UNCHANGED fleet PROVE WrapInv'
      <3>1. \A f \in FleetGens : fleet[f].st # "PREPARING"
            BY <2>3, NonePreparing
      <3> QED BY <2>1, <2>3, <3>1
    <2>4. ASSUME NEW g \in FleetGens, FleetActivates(a, g), fleet' = FleetActivated(g),
                 UNCHANGED <<root, active>>
          PROVE  WrapInv'
      <3>1. fleet[g].st = "PREPARING" /\ (g > 0 => fleet[g - 1].st = "ACTIVE")
            BY <2>4 DEF FleetActivates
      <3> QED BY <2>1, <2>4, <3>1, <1>f
    <2> QED BY <1>23, <2>2, <2>3, <2>4 DEF RevokeDevice, CarriedActivation
  <1>24. CASE UNCHANGED vars
    <2>1. UNCHANGED <<root, active, fleet, recGrant>>
          BY <1>24 DEF vars, boot, trust, roots, fleets
    <2> QED BY <2>1, <1>k
  <1> QED BY <1>1, <1>2, <1>3, <1>4, <1>5, <1>6, <1>7, <1>8, <1>9, <1>10, <1>11,
         <1>12, <1>13, <1>14, <1>15, <1>16, <1>17, <1>18, <1>19, <1>20, <1>21, <1>22,
         <1>23, <1>24 DEF Next, ByDevice, OnDevice

----------------------------------------------------------------------------
(* The theorems.                                                           *)

\* The inductive invariant.
IInv == TypeOK /\ HoldingsAreBacked /\ RootKept /\ WrapInv

\* Every reachable state satisfies it.
LEMMA Reachable == Spec => []IInv
  <1>1. Init => IInv
        BY InitType, InitBacked, InitKept, InitWrap DEF IInv
  <1>2. IInv /\ [Next]_vars => IInv'
        BY NextType, NextBacked, NextKept, NextWrap DEF IInv
  <1> QED BY <1>1, <1>2, PTL DEF Spec

\* Every table keeps rows of the shape its migration allows.
THEOREM TypeCorrect == Spec => []TypeOK
  <1>1. IInv => TypeOK
        BY DEF IInv
  <1> QED BY <1>1, Reachable, PTL

\* Every session, capability and unrevoked grant is backed by the approval of an
\* active device, in whatever order filings and revocations of any devices meet
\* (the subject checks of the filing handlers, revoke_everything).
THEOREM HoldingsBacked == Spec => []HoldingsAreBacked
  <1>1. IInv => HoldingsAreBacked
        BY DEF IInv
  <1> QED BY <1>1, Reachable, PTL

\* The ACTIVE root always has a custodian: rotation, revocation of grants and of
\* devices, alone or carrying an activation, never leave the tenant without one
\* (the LAST_ROOT_CUSTODIAN checks, and activation by a member).
THEOREM CustodianRemains == Spec => []RootHasCustodian
  <1>1. IInv => RootHasCustodian
        BY KeptHasCustodian DEF IInv
  <1> QED BY <1>1, Reachable, PTL

\* A PREPARING fleet key is wrapped under the root that is ACTIVE now, as the
\* comment in apply_fleet_activation relies on.
THEOREM WrapsAreCurrent == Spec => []PreparingUnderActiveRoot
  <1>1. IInv => PreparingUnderActiveRoot
        BY DEF IInv, WrapInv
  <1> QED BY <1>1, Reachable, PTL
=============================================================================
